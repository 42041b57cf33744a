---------------------------- MODULE BufferingProofs ----------------------------
(***************************************************************************)
(* What the sinks, the split and the producers keep, for every deployment, *)
(* relation and number of shards: types, the bound of the split's memory,  *)
(* that no row is lost without an error, that a whole relation is never    *)
(* refused, and that a query that ended well leaves no file.               *)
(***************************************************************************)
EXTENDS Buffering, SequenceLemmas

-----------------------------------------------------------------------------
(* The operators of the model.                                              *)

(* Nth enumerates a finite set of numbers in increasing order. *)
LEMMA NthProperties ==
  ASSUME NEW S \in SUBSET Nat, IsFiniteSet(S)
  PROVE  /\ Cardinality(S) \in Nat
         /\ \A j \in 1 .. Cardinality(S) : Nth(S, j) \in S
         /\ \A i, j \in 1 .. Cardinality(S) : i < j => Nth(S, i) < Nth(S, j)
         /\ \A n \in S : \E j \in 1 .. Cardinality(S) : Nth(S, j) = n
<1> DEFINE R == {x \in S \X S : x[1] < x[2]}
            c == Cardinality(S)
            before(n) == Cardinality({m \in S : m < n})
<1>1. Orders(R, S)
  BY DEF Orders
<1>2. \A n \in S : {m \in S : <<m, n>> \in R} = {m \in S : m < n}
  OBVIOUS
<1>3. \A n \in S : before(n) = Preceding(R, S, n)
  BY <1>2 DEF Preceding
<1>4. FillsPlaces(R, S)
  BY <1>1, PlacesInOrder
<1>5. c \in Nat
  BY <1>4 DEF FillsPlaces
<1>6. /\ \A n \in S : before(n) \in 0 .. c - 1
      /\ \A a, b \in S : a < b => before(a) < before(b)
      /\ \A k \in 0 .. c - 1 : \E n \in S : before(n) = k
  <2> HIDE DEF before
  <2>1. \A a, b \in S : a < b => <<a, b>> \in R
    OBVIOUS
  <2> HIDE DEF R
  <2>2. \A n \in S : before(n) \in 0 .. c - 1
    BY <1>3, <1>4 DEF FillsPlaces
  <2>3. ASSUME NEW a \in S, NEW b \in S, a < b
        PROVE  before(a) < before(b)
    BY <1>3, <1>4, <2>1, <2>3 DEF FillsPlaces
  <2>4. ASSUME NEW k \in 0 .. c - 1
        PROVE  \E n \in S : before(n) = k
    BY <1>3, <1>4 DEF FillsPlaces
  <2> QED
    BY <2>2, <2>3, <2>4
<1> HIDE DEF before, c
<1>7. ASSUME NEW a \in S, NEW b \in S, before(a) = before(b)
      PROVE  a = b
  <2>1. before(a) \in Nat /\ before(b) \in Nat /\ a \in Nat /\ b \in Nat
    BY <1>5, <1>6
  <2>2. a < b => before(a) < before(b)
    BY <1>6
  <2>3. b < a => before(b) < before(a)
    BY <1>6
  <2> QED
    BY <1>7, <2>1, <2>2, <2>3
<1>8. ASSUME NEW j \in 1 .. c
      PROVE  Nth(S, j) \in S /\ before(Nth(S, j)) = j - 1
  <2>1. j - 1 \in 0 .. c - 1
    BY <1>5
  <2>2. \E n \in S : before(n) = j - 1
    BY <1>6, <2>1
  <2> QED
    BY <2>2 DEF Nth, before
<1>9. ASSUME NEW i \in 1 .. c, NEW j \in 1 .. c, i < j
      PROVE  Nth(S, i) < Nth(S, j)
  <2>1. /\ Nth(S, i) \in S /\ before(Nth(S, i)) = i - 1
        /\ Nth(S, j) \in S /\ before(Nth(S, j)) = j - 1
    BY <1>8
  <2>2. Nth(S, i) \in Nat /\ Nth(S, j) \in Nat
    BY <2>1
  <2>3. Nth(S, j) < Nth(S, i) => j - 1 < i - 1
    BY <1>6, <2>1
  <2>4. Nth(S, i) = Nth(S, j) => i - 1 = j - 1
    BY <2>1
  <2> QED
    BY <1>5, <1>9, <2>2, <2>3, <2>4
<1>10. ASSUME NEW n \in S
       PROVE  \E j \in 1 .. c : Nth(S, j) = n
  <2>1. before(n) \in 0 .. c - 1
    BY <1>6
  <2>2. before(n) + 1 \in 1 .. c /\ (before(n) + 1) - 1 = before(n)
    BY <1>5, <2>1
  <2>3. Nth(S, before(n) + 1) \in S /\ before(Nth(S, before(n) + 1)) = before(n)
    BY <1>8, <2>2
  <2> QED
    BY <1>7, <2>2, <2>3
<1> QED
  BY <1>5, <1>8, <1>9, <1>10 DEF c

(* Total adds the numbers of a sequence up. *)
LEMMA TotalIsSum ==
  ASSUME NEW ns \in Seq(Nat)
  PROVE  \E off : IsOffsets(Len(ns), ns, off) /\ Total(ns) = off[Len(ns)]
<1> DEFINE n == Len(ns)
            Def(g) == [k \in 0 .. n |-> IF k = 0 THEN 0 ELSE g[k - 1] + ns[k]]
            sum == CHOOSE g : g = Def(g)
<1>1. n \in Nat /\ ns \in [1 .. n -> Nat]
  OBVIOUS
<1>2. PICK off : IsOffsets(n, ns, off)
  BY <1>1, OffsetsExist
<1>3. /\ off \in [0 .. n -> Nat] /\ off[0] = 0
      /\ \A k \in 1 .. n : off[k] = off[k - 1] + ns[k]
  BY <1>2 DEF IsOffsets
<1>4. off = Def(off)
  <2>1. \A k \in 0 .. n : off[k] = IF k = 0 THEN 0 ELSE off[k - 1] + ns[k]
    BY <1>1, <1>3
  <2> QED
    BY <1>3, <2>1
<1>5. sum = Def(sum)
  <2> HIDE DEF Def
  <2> QED
    BY <1>4, Zenon
<1>6. Total(ns) = sum[n]
  BY Zenon DEF Total
<1> HIDE DEF sum
<1>7. /\ sum[0] = 0
      /\ \A k \in 1 .. n : sum[k] = sum[k - 1] + ns[k]
  <2>1. 0 \in 0 .. n
    BY <1>1
  <2>2. ASSUME NEW k \in 0 .. n
        PROVE  sum[k] = IF k = 0 THEN 0 ELSE sum[k - 1] + ns[k]
    BY <1>5, Zenon
  <2>3. sum[0] = 0
    BY <2>1, <2>2
  <2>4. ASSUME NEW k \in 1 .. n
        PROVE  sum[k] = sum[k - 1] + ns[k]
    <3>1. k \in 0 .. n /\ k # 0
      BY <1>1
    <3> QED
      BY <2>2, <3>1
  <2> QED
    BY <2>3, <2>4
<1>8. \A k \in 0 .. n : sum[k] = off[k]
  <2> DEFINE T == {k \in 0 .. n : sum[k] = off[k]}
  <2>1. 0 \in T
    BY <1>1, <1>3, <1>7
  <2>2. ASSUME NEW k \in 0 .. n, k < n /\ k \in T
        PROVE  k + 1 \in T
    <3>1. k + 1 \in 1 .. n /\ (k + 1) - 1 = k
      BY <1>1, <2>2
    <3>2. sum[k + 1] = sum[k] + ns[k + 1] /\ off[k + 1] = off[k] + ns[k + 1]
      BY <1>3, <1>7, <3>1
    <3> QED
      BY <2>2, <3>1, <3>2
  <2>3. 0 .. n \subseteq T
    <3> HIDE DEF T, n
    <3> QED
      BY <1>1, <2>1, <2>2, IntervalInduction
  <2> QED
    BY <2>3
<1> QED
  BY <1>1, <1>2, <1>6, <1>8

(* Total of a number, of nothing, of two sequences joined; it is a number   *)
(* no smaller than any it adds up.                                          *)
LEMMA TotalConcat ==
  ASSUME NEW a \in Seq(Nat), NEW b \in Seq(Nat)
  PROVE  Total(a \o b) = Total(a) + Total(b)
<1> DEFINE n == Len(a)
            m == Len(b)
            ab == a \o b
<1>1. /\ n \in Nat /\ m \in Nat /\ a \in [1 .. n -> Nat] /\ b \in [1 .. m -> Nat]
      /\ ab \in Seq(Nat) /\ Len(ab) = n + m
  OBVIOUS
<1>2. ab \in [1 .. n + m -> Nat]
  <2> HIDE DEF ab
  <2> QED
    BY <1>1
<1>3. ASSUME NEW k \in 1 .. n
      PROVE  ab[k] = a[k]
  BY <1>1
<1>4. ASSUME NEW k \in 1 .. m
      PROVE  ab[n + k] = b[k]
  BY <1>1
<1>5. PICK offA : IsOffsets(n, a, offA) /\ Total(a) = offA[n]
  BY TotalIsSum
<1>6. PICK offB : IsOffsets(m, b, offB) /\ Total(b) = offB[m]
  BY TotalIsSum
<1>7. PICK off : IsOffsets(n + m, ab, off) /\ Total(ab) = off[n + m]
  BY <1>1, TotalIsSum
<1> HIDE DEF n, m, ab
<1>8. \A k \in 0 .. n : offA[k] = off[k]
  <2>1. n + m \in Nat /\ n + m >= n
    BY <1>1
  <2>2. \A k \in 1 .. n : ab[k] = a[k]
    BY <1>3
  <2>3. n \in Nat /\ a \in [1 .. n -> Nat]
    BY <1>1
  <2>4. IsOffsets(n, a, offA) /\ IsOffsets(n + m, ab, off)
    BY <1>5, <1>7
  <2> QED
    BY <2>1, <2>2, <2>3, <2>4, OffsetsUnique, SMTT(30)
<1> DEFINE T == {k \in 0 .. m : off[n + k] = offA[n] + offB[k]}
<1>9. /\ offA \in [0 .. n -> Nat] /\ offB \in [0 .. m -> Nat]
      /\ offB[0] = 0
      /\ \A k \in 1 .. m : offB[k] = offB[k - 1] + b[k]
      /\ \A k \in 1 .. n + m : off[k] = off[k - 1] + ab[k]
  BY <1>5, <1>6, <1>7 DEF IsOffsets
<1>10. 0 \in T
  <2>1. n \in 0 .. n /\ n + 0 = n /\ 0 \in 0 .. m
    BY <1>1
  <2>2. offA[n] \in Nat
    BY <1>9, <2>1
  <2> QED
    BY <1>8, <1>9, <2>1, <2>2
<1>11. ASSUME NEW k \in 0 .. m, k < m /\ k \in T
       PROVE  k + 1 \in T
  <2>1. /\ k + 1 \in 1 .. m /\ (k + 1) - 1 = k
        /\ n + (k + 1) \in 1 .. n + m /\ (n + (k + 1)) - 1 = n + k
    BY <1>1, <1>11
  <2>2. off[n + (k + 1)] = off[n + k] + ab[n + (k + 1)]
    BY <1>9, <2>1
  <2>3. ab[n + (k + 1)] = b[k + 1]
    BY <1>4, <2>1
  <2>4. offB[k + 1] = offB[k] + b[k + 1]
    BY <1>9, <2>1
  <2>5. offA[n] \in Nat /\ offB[k] \in Nat /\ b[k + 1] \in Nat
    <3>1. n \in 0 .. n
      BY <1>1
    <3> QED
      BY <1>1, <1>9, <2>1, <3>1
  <2>6. off[n + k] = offA[n] + offB[k]
    BY <1>11
  <2>7. off[n + (k + 1)] = offA[n] + offB[k + 1]
    BY <2>2, <2>3, <2>4, <2>5, <2>6
  <2>8. k + 1 \in 0 .. m
    BY <1>1, <2>1
  <2> QED
    BY <2>7, <2>8
<1>12. 0 .. m \subseteq T
  <2> HIDE DEF T
  <2> QED
    BY <1>1, <1>10, <1>11, IntervalInduction
<1>13. m \in 0 .. m
  BY <1>1
<1> QED
  BY <1>5, <1>6, <1>7, <1>12, <1>13 DEF ab

(* The total of no number, and of one. *)
LEMMA TotalOne ==
  /\ Total(<<>>) = 0
  /\ \A x \in Nat : Total(<<x>>) = x
<1>1. Total(<<>>) = 0
  <2>1. <<>> \in Seq(Nat) /\ Len(<<>>) = 0
    OBVIOUS
  <2>2. PICK off : IsOffsets(0, <<>>, off) /\ Total(<<>>) = off[0]
    BY <2>1, TotalIsSum
  <2> QED
    BY <2>2 DEF IsOffsets
<1>2. ASSUME NEW x \in Nat
      PROVE  Total(<<x>>) = x
  <2>1. <<x>> \in Seq(Nat) /\ Len(<<x>>) = 1 /\ <<x>>[1] = x
    OBVIOUS
  <2>2. PICK off : IsOffsets(1, <<x>>, off) /\ Total(<<x>>) = off[1]
    BY <2>1, TotalIsSum
  <2>3. off[0] = 0 /\ off[1] = off[0] + <<x>>[1]
    BY <2>2 DEF IsOffsets
  <2> QED
    BY <2>1, <2>2, <2>3
<1> QED
  BY <1>1, <1>2

(* A total is a natural, and no less than any of its numbers. *)
LEMMA TotalBounds ==
  ASSUME NEW ns \in Seq(Nat)
  PROVE  /\ Total(ns) \in Nat
         /\ \A k \in 1 .. Len(ns) : ns[k] <= Total(ns)
<1> DEFINE n == Len(ns)
<1>1. n \in Nat /\ ns \in [1 .. n -> Nat]
  OBVIOUS
<1>2. PICK off : IsOffsets(n, ns, off) /\ Total(ns) = off[n]
  BY TotalIsSum
<1> HIDE DEF n
<1>3. /\ off \in [0 .. n -> Nat]
      /\ \A k \in 1 .. n : off[k] = off[k - 1] + ns[k]
  BY <1>2 DEF IsOffsets
<1>4. \A j, k \in 0 .. n : j <= k => off[j] <= off[k]
  BY <1>1, <1>2, OffsetsGrow
<1>5. Total(ns) \in Nat
  BY <1>1, <1>2, <1>3
<1>6. ASSUME NEW k \in 1 .. n
      PROVE  ns[k] <= Total(ns)
  <2>1. k \in 0 .. n /\ k - 1 \in 0 .. n /\ n \in 0 .. n /\ k <= n
    BY <1>1
  <2>2. off[k] = off[k - 1] + ns[k] /\ off[k - 1] \in Nat /\ ns[k] \in Nat /\ off[k] \in Nat
    BY <1>1, <1>3, <2>1
  <2>3. off[k] <= off[n]
    BY <1>4, <2>1
  <2> QED
    BY <1>2, <1>5, <2>2, <2>3
<1> QED
  BY <1>5, <1>6 DEF n

(* The rows of records, counted. *)
Sizes(records) == [k \in 1 .. Len(records) |-> Len(records[k].rows)]

(* The sizes of records are naturals, and NumRows is their total. *)
LEMMA SizesTyped ==
  ASSUME NEW records \in Seq(RecordType)
  PROVE  /\ Sizes(records) \in Seq(Nat)
         /\ Len(Sizes(records)) = Len(records)
         /\ NumRows(records) = Total(Sizes(records))
         /\ NumRows(records) \in Nat
<1>1. \A k \in 1 .. Len(records) : Len(records[k].rows) \in Nat
  BY DEF RecordType
<1>2. Sizes(records) \in Seq(Nat) /\ Len(Sizes(records)) = Len(records)
  BY <1>1 DEF Sizes
<1>3. NumRows(records) = Total(Sizes(records))
  BY DEF NumRows, Sizes
<1> QED
  BY <1>2, <1>3, TotalBounds

(* Two sequences of records hold the rows of both. *)
LEMMA NumRowsConcat ==
  ASSUME NEW a \in Seq(RecordType), NEW b \in Seq(RecordType)
  PROVE  NumRows(a \o b) = NumRows(a) + NumRows(b)
<1> DEFINE n == Len(a)
            m == Len(b)
            ab == a \o b
<1>1. n \in Nat /\ m \in Nat /\ ab \in Seq(RecordType) /\ Len(ab) = n + m
  OBVIOUS
<1>2. ASSUME NEW k \in 1 .. n + m
      PROVE  ab[k] = IF k <= n THEN a[k] ELSE b[k - n]
  BY <1>1
<1>3. /\ Sizes(a) \in Seq(Nat) /\ Len(Sizes(a)) = n
      /\ Sizes(b) \in Seq(Nat) /\ Len(Sizes(b)) = m
      /\ Sizes(ab) \in Seq(Nat) /\ Len(Sizes(ab)) = n + m
  BY <1>1, SizesTyped
<1>4. /\ Sizes(a) \o Sizes(b) \in Seq(Nat)
      /\ Len(Sizes(a) \o Sizes(b)) = n + m
  <2>1. Len(Sizes(a) \o Sizes(b)) = Len(Sizes(a)) + Len(Sizes(b))
    BY <1>3, ConcatProperties
  <2>2. Sizes(a) \o Sizes(b) \in Seq(Nat)
    BY <1>3, ConcatProperties
  <2> HIDE DEF n, m, ab
  <2> QED
    BY <1>3, <2>1, <2>2
<1>5. ASSUME NEW k \in 1 .. n + m
      PROVE  (Sizes(a) \o Sizes(b))[k] = IF k <= n THEN Sizes(a)[k] ELSE Sizes(b)[k - n]
  <2> HIDE DEF n, m, ab
  <2>1. k \in 1 .. Len(Sizes(a)) + Len(Sizes(b))
    BY <1>3
  <2> QED
    BY <1>3, <2>1, ConcatProperties
<1>6. ASSUME NEW k \in 1 .. n + m
      PROVE  Sizes(ab)[k] = (Sizes(a) \o Sizes(b))[k]
  <2>1. Sizes(ab)[k] = Len(ab[k].rows)
    BY <1>1 DEF Sizes
  <2>2. CASE k <= n
    <3>1. k \in 1 .. n
      BY <1>1, <2>2
    <3>2. Sizes(a)[k] = Len(a[k].rows)
      BY <3>1 DEF Sizes
    <3> HIDE DEF n, m, ab
    <3> QED
      BY <1>2, <1>5, <2>1, <2>2, <3>2
  <2>3. CASE ~(k <= n)
    <3>1. k - n \in 1 .. m
      BY <1>1, <2>3
    <3>2. Sizes(b)[k - n] = Len(b[k - n].rows)
      BY <3>1 DEF Sizes
    <3> HIDE DEF n, m, ab
    <3> QED
      BY <1>2, <1>5, <2>1, <2>3, <3>2
  <2> QED
    BY <2>2, <2>3
<1>7. Sizes(ab) = Sizes(a) \o Sizes(b)
  <2> HIDE DEF n, m, ab
  <2> QED
    BY <1>3, <1>4, <1>6, SeqEqual
<1>8. Total(Sizes(ab)) = Total(Sizes(a)) + Total(Sizes(b))
  BY <1>3, <1>7, TotalConcat
<1> QED
  BY <1>1, <1>8, SizesTyped

(* The rows of no record, of one, of one more, of one less. *)
LEMMA NumRowsOne ==
  /\ NumRows(<<>>) = 0
  /\ \A r \in RecordType : NumRows(<<r>>) = Len(r.rows)
<1>1. NumRows(<<>>) = 0
  <2>1. Sizes(<<>>) = <<>>
    BY DEF Sizes
  <2>2. <<>> \in Seq(RecordType)
    OBVIOUS
  <2>3. NumRows(<<>>) = Total(Sizes(<<>>))
    BY <2>2, SizesTyped
  <2> QED
    BY <2>1, <2>3, TotalOne
<1>2. ASSUME NEW r \in RecordType
      PROVE  NumRows(<<r>>) = Len(r.rows)
  <2>1. <<r>> \in Seq(RecordType) /\ Len(<<r>>) = 1 /\ <<r>>[1] = r
    OBVIOUS
  <2>2. Len(r.rows) \in Nat
    BY DEF RecordType
  <2>3. Sizes(<<r>>) \in Seq(Nat) /\ Len(Sizes(<<r>>)) = 1
    BY <2>1, SizesTyped
  <2>4. Sizes(<<r>>)[1] = Len(r.rows)
    BY <2>1 DEF Sizes
  <2>5. Sizes(<<r>>) = <<Len(r.rows)>>
    BY <2>2, <2>3, <2>4
  <2> QED
    BY <2>1, <2>2, <2>5, SizesTyped, TotalOne
<1> QED
  BY <1>1, <1>2

(* A record more holds its rows more. *)
LEMMA NumRowsAppend ==
  ASSUME NEW s \in Seq(RecordType), NEW r \in RecordType
  PROVE  NumRows(Append(s, r)) = NumRows(s) + Len(r.rows)
<1>1. Append(s, r) = s \o <<r>>
  BY AppendIsConcat
<1>2. <<r>> \in Seq(RecordType)
  OBVIOUS
<1> QED
  BY <1>1, <1>2, NumRowsConcat, NumRowsOne

(* What RemoveAt leaves. *)
Removed(s, k, left) ==
  /\ left \in Seq(RecordType)
  /\ NumRows(s) = NumRows(left) + Len(s[k].rows)
  /\ \A j \in 1 .. Len(s) : j # k => s[j] \in ToSet(left)
  /\ ToSet(left) \subseteq ToSet(s)
  /\ Len(left) = Len(s) - 1
  /\ \A i \in 1 .. Len(s) - 1 : left[i] = IF i < k THEN s[i] ELSE s[i + 1]

(* RemoveAt takes one record out and leaves the others. *)
LEMMA RemoveAtProperties ==
  ASSUME NEW s \in Seq(RecordType), NEW k \in 1 .. Len(s)
  PROVE  Removed(s, k, RemoveAt(s, k))
<1> DEFINE n == Len(s)
            front == SubSeq(s, 1, k - 1)
            back == SubSeq(s, k + 1, n)
            one == <<s[k]>>
<1>1. n \in Nat /\ k \in Nat /\ s[k] \in RecordType
  OBVIOUS
<1>2. /\ front \in Seq(RecordType) /\ Len(front) = k - 1
      /\ \A i \in 1 .. k - 1 : front[i] = s[i]
  <2>1. \A i \in 1 .. k - 1 : s[i] \in RecordType
    BY <1>1
  <2>2. 1 \in Int /\ k - 1 \in Int
    BY <1>1
  <2>3. /\ front \in Seq(RecordType) /\ Len(front) = IF 1 <= k - 1 THEN (k - 1) - 1 + 1 ELSE 0
        /\ \A i \in 1 .. (k - 1) - 1 + 1 : front[i] = s[1 + i - 1]
    BY <2>1, <2>2, SubSeqProperties
  <2> HIDE DEF front
  <2> QED
    BY <1>1, <2>3
<1>3. /\ back \in Seq(RecordType) /\ Len(back) = n - k
      /\ \A i \in 1 .. n - k : back[i] = s[k + i]
  <2>1. \A i \in k + 1 .. n : s[i] \in RecordType
    BY <1>1
  <2>2. k + 1 \in Int /\ n \in Int
    BY <1>1
  <2>3. /\ back \in Seq(RecordType) /\ Len(back) = IF k + 1 <= n THEN n - (k + 1) + 1 ELSE 0
        /\ \A i \in 1 .. n - (k + 1) + 1 : back[i] = s[(k + 1) + i - 1]
    BY <2>1, <2>2, SubSeqProperties
  <2>4. \A i \in 1 .. n - k : (k + 1) + i - 1 = k + i
    BY <1>1
  <2>5. /\ n - (k + 1) + 1 = n - k
        /\ (IF k + 1 <= n THEN n - (k + 1) + 1 ELSE 0) = n - k
    BY <1>1
  <2> HIDE DEF back, n
  <2>6. Len(back) = n - k
    BY <2>3, <2>5
  <2>7. ASSUME NEW i \in 1 .. n - k
        PROVE  back[i] = s[k + i]
    BY <2>3, <2>4, <2>5
  <2> QED
    BY <2>3, <2>6, <2>7
<1>4. one \in Seq(RecordType) /\ Len(one) = 1 /\ one[1] = s[k]
  BY <1>1
<1>5. RemoveAt(s, k) = front \o back
  BY DEF RemoveAt
<1> DEFINE left == front \o back
            head == front \o one
            whole == head \o back
<1> HIDE DEF n, front, back, one
<1>6. /\ left \in Seq(RecordType) /\ Len(left) = n - 1
      /\ \A i \in 1 .. n - 1 : left[i] = IF i <= k - 1 THEN front[i] ELSE back[i - (k - 1)]
  <2>1. /\ left \in Seq(RecordType) /\ Len(left) = Len(front) + Len(back)
        /\ \A i \in 1 .. Len(front) + Len(back) :
             left[i] = IF i <= Len(front) THEN front[i] ELSE back[i - Len(front)]
    BY <1>2, <1>3, ConcatProperties
  <2>2. (k - 1) + (n - k) = n - 1
    BY <1>1
  <2> HIDE DEF left
  <2> QED
    BY <1>2, <1>3, <2>1, <2>2
<1>7. /\ head \in Seq(RecordType) /\ Len(head) = k
      /\ \A i \in 1 .. k : head[i] = s[i]
  <2>1. /\ head \in Seq(RecordType) /\ Len(head) = Len(front) + Len(one)
        /\ \A i \in 1 .. Len(front) + Len(one) :
             head[i] = IF i <= Len(front) THEN front[i] ELSE one[i - Len(front)]
    BY <1>2, <1>4, ConcatProperties
  <2>2. (k - 1) + 1 = k
    BY <1>1
  <2>3. Len(head) = k
    BY <1>2, <1>4, <2>1, <2>2
  <2>4. ASSUME NEW i \in 1 .. k
        PROVE  head[i] = s[i]
    <3>1. head[i] = IF i <= k - 1 THEN front[i] ELSE one[i - (k - 1)]
      BY <1>2, <1>4, <2>1, <2>2
    <3>2. i \in 1 .. k - 1 \/ (i = k /\ ~(i <= k - 1) /\ i - (k - 1) = 1)
      BY <1>1
    <3> QED
      BY <1>1, <1>2, <1>4, <3>1, <3>2
  <2> QED
    BY <2>1, <2>3, <2>4
<1>8. whole \in Seq(RecordType) /\ whole = s
  <2> HIDE DEF head
  <2>1. /\ whole \in Seq(RecordType) /\ Len(whole) = Len(head) + Len(back)
        /\ \A i \in 1 .. Len(head) + Len(back) :
             whole[i] = IF i <= Len(head) THEN head[i] ELSE back[i - Len(head)]
    BY <1>3, <1>7, ConcatProperties
  <2>2. k + (n - k) = n
    BY <1>1
  <2>3. Len(whole) = n
    BY <1>3, <1>7, <2>1, <2>2
  <2>4. ASSUME NEW i \in 1 .. n
        PROVE  whole[i] = s[i]
    <3>1. whole[i] = IF i <= k THEN head[i] ELSE back[i - k]
      BY <1>3, <1>7, <2>1, <2>2
    <3>2. i \in 1 .. k \/ (~(i <= k) /\ i - k \in 1 .. n - k /\ k + (i - k) = i)
      BY <1>1
    <3> QED
      BY <1>3, <1>7, <3>1, <3>2
  <2> HIDE DEF whole
  <2> QED
    BY <2>1, <2>3, <2>4, SeqEqual DEF n
<1>9. NumRows(s) = NumRows(left) + Len(s[k].rows)
  <2>1. NumRows(whole) = NumRows(front) + NumRows(one) + NumRows(back)
    <3>1. NumRows(whole) = NumRows(head) + NumRows(back)
      BY <1>3, <1>7, NumRowsConcat
    <3>2. NumRows(head) = NumRows(front) + NumRows(one)
      BY <1>2, <1>4, NumRowsConcat
    <3> QED
      BY <3>1, <3>2
  <2>2. NumRows(one) = Len(s[k].rows)
    BY <1>1, NumRowsOne DEF one
  <2>3. NumRows(left) = NumRows(front) + NumRows(back)
    BY <1>2, <1>3, NumRowsConcat
  <2>4. NumRows(front) \in Nat /\ NumRows(back) \in Nat /\ NumRows(one) \in Nat
    BY <1>2, <1>3, <1>4, SizesTyped
  <2> HIDE DEF left, whole
  <2> QED
    BY <1>8, <2>1, <2>2, <2>3, <2>4
<1>10. ASSUME NEW j \in 1 .. n, j # k
       PROVE  \E i \in 1 .. n - 1 : left[i] = s[j]
  <2>1. CASE j < k
    <3>1. j \in 1 .. n - 1 /\ j <= k - 1 /\ j \in 1 .. k - 1
      BY <1>1, <2>1 DEF n
    <3> QED
      BY <1>2, <1>6, <3>1
  <2>2. CASE ~(j < k)
    <3>1. /\ j - 1 \in 1 .. n - 1 /\ ~(j - 1 <= k - 1)
          /\ (j - 1) - (k - 1) = j - k /\ j - k \in 1 .. n - k /\ k + (j - k) = j
      BY <1>1, <1>10, <2>2
    <3> QED
      BY <1>3, <1>6, <3>1
  <2> QED
    BY <2>1, <2>2
<1>11. ASSUME NEW i \in 1 .. n - 1
       PROVE  /\ left[i] = IF i < k THEN s[i] ELSE s[i + 1]
              /\ \E j \in 1 .. n : left[i] = s[j]
  <2>1. CASE i <= k - 1
    <3>1. i \in 1 .. k - 1 /\ i \in 1 .. n /\ i < k
      BY <1>1, <2>1
    <3> QED
      BY <1>2, <1>6, <2>1, <3>1
  <2>2. CASE ~(i <= k - 1)
    <3>1. /\ i - (k - 1) \in 1 .. n - k /\ k + (i - (k - 1)) = i + 1 /\ i + 1 \in 1 .. n
          /\ ~(i < k)
      BY <1>1, <2>2
    <3>2. left[i] = s[i + 1]
      BY <1>3, <1>6, <2>2, <3>1
    <3> QED
      BY <3>1, <3>2
  <2> QED
    BY <2>1, <2>2
<1> HIDE DEF left
<1>12. \A j \in 1 .. Len(s) : j # k => s[j] \in ToSet(left)
  BY <1>6, <1>10, SMTT(30) DEF ToSet, n
<1>13. ASSUME NEW x \in ToSet(left)
       PROVE  x \in ToSet(s)
  <2>1. PICK i \in 1 .. n - 1 : x = left[i]
    BY <1>6 DEF ToSet
  <2>2. PICK j \in 1 .. n : left[i] = s[j]
    BY <1>11
  <2> QED
    BY <2>1, <2>2 DEF ToSet, n
<1>14. /\ Len(left) = Len(s) - 1
       /\ \A i \in 1 .. Len(s) - 1 : left[i] = IF i < k THEN s[i] ELSE s[i + 1]
  BY <1>6, <1>11 DEF n
<1> QED
  BY <1>5, <1>6, <1>9, <1>12, <1>13, <1>14 DEF Removed, left

(* The fields of a record. *)
LEMMA RecordFields ==
  /\ \A r \in RecordType : r.index \in Nat \ {0} /\ r.rows \in Seq(Nat \X Nat)
  /\ \A k \in Nat \ {0}, rows \in Seq(Nat \X Nat) :
       Record(k, rows) \in RecordType /\ Record(k, rows).index = k /\ Record(k, rows).rows = rows
  BY DEF RecordType, Record

(* RowsOf holds the rows of the records and nothing else, and NumRows is    *)
(* how many they are.                                                       *)
LEMMA RowsOfMembers ==
  ASSUME NEW records \in Seq(RecordType)
  PROVE  /\ RowsOf(records) \in Seq(Nat \X Nat)
         /\ \A x : x \in ToSet(RowsOf(records))
                     <=> \E k \in 1 .. Len(records) : x \in ToSet(records[k].rows)
<1> DEFINE n == Len(records)
            ss == [k \in 1 .. n |-> records[k].rows]
<1>1. n \in Nat
  OBVIOUS
<1>2. ss \in [1 .. n -> Seq(Nat \X Nat)]
  BY RecordFields
<1>3. Len(ss) = n
  BY <1>1
<1>4. RowsOf(records) = FlattenSeq(ss)
  BY DEF RowsOf
<1>5. \A k \in 1 .. n : ss[k] = records[k].rows
  OBVIOUS
<1> HIDE DEF ss
<1>6. /\ FlattenSeq(ss) \in Seq(Nat \X Nat)
      /\ \A x : x \in ToSet(FlattenSeq(ss)) <=> \E k \in 1 .. n : x \in ToSet(ss[k])
  BY <1>1, <1>2, <1>3, FlattenMembers
<1> QED
  BY <1>4, <1>5, <1>6

(* RowsOf holds as many rows as NumRows counts. *)
LEMMA RowsOfLength ==
  ASSUME NEW records \in Seq(RecordType)
  PROVE  Len(RowsOf(records)) = NumRows(records)
<1> DEFINE n == Len(records)
            ss == [k \in 1 .. n |-> records[k].rows]
            S == Nat \X Nat
<1>1. n \in Nat
  OBVIOUS
<1>2. ss \in [1 .. n -> Seq(S)]
  BY RecordFields
<1>3. Len(ss) = n
  BY <1>1
<1>4. RowsOf(records) = FlattenSeq(ss)
  BY DEF RowsOf
<1>5. Lengths(ss) = Sizes(records)
  BY <1>3 DEF Lengths, Sizes
<1>6. Sizes(records) \in Seq(Nat) /\ Len(Sizes(records)) = n
      /\ NumRows(records) = Total(Sizes(records))
  BY SizesTyped
<1> HIDE DEF ss, n, S
<1>7. /\ Lengths(ss) \in [1 .. n -> Nat]
      /\ IsOffsets(n, Lengths(ss), Offsets(ss))
      /\ IsJoin(FlattenSeq(ss), ss, n, S, Offsets(ss))
  BY <1>1, <1>2, <1>3, FlattenProperties
<1>8. Len(FlattenSeq(ss)) = Offsets(ss)[n]
  BY <1>7 DEF IsJoin
<1>9. PICK off : IsOffsets(n, Sizes(records), off) /\ NumRows(records) = off[n]
  BY <1>6, TotalIsSum
<1>10. \A k \in 0 .. n : off[k] = Offsets(ss)[k]
  <2>1. n >= n /\ Sizes(records) \in [1 .. n -> Nat]
    BY <1>1, <1>5, <1>7
  <2>2. \A k \in 1 .. n : Lengths(ss)[k] = Sizes(records)[k]
    BY <1>5
  <2> QED
    BY <1>1, <1>7, <1>9, <2>1, <2>2, OffsetsUnique
<1> QED
  BY <1>1, <1>4, <1>8, <1>9, <1>10

(* No record has more rows than all together. *)
LEMMA NumRowsEach ==
  ASSUME NEW records \in Seq(RecordType), NEW k \in 1 .. Len(records)
  PROVE  Len(records[k].rows) <= NumRows(records)
<1>1. Sizes(records)[k] = Len(records[k].rows)
  BY DEF Sizes
<1> QED
  BY <1>1, SizesTyped, TotalBounds

(* What is read of the sink files is what is in them. *)
LEMMA NamesFinite == IsFiniteSet(Names)
<1> DEFINE f == [w \in Worker |-> setting.fileOf[w]]
<1>1. f \in Surjection(Worker, Names)
  BY DEF Names, Surjection
<1> QED
  BY <1>1, SpoolAssumption, FS_Surjection

(* Reading the files by name finds every record, and no other. *)
LEMMA SinkRecordsMembers ==
  ASSUME NEW t \in Temp, Names \in SUBSET Nat, sinkFiles[t] \in [Names -> Seq(RecordType)]
  PROVE  /\ SinkRecords(t) \in Seq(RecordType)
         /\ \A r : r \in ToSet(SinkRecords(t)) <=> \E n \in Names : r \in ToSet(sinkFiles[t][n])
<1> DEFINE c == Cardinality(Names)
            ss == [j \in 1 .. c |-> sinkFiles[t][Nth(Names, j)]]
<1>1. /\ c \in Nat
      /\ \A j \in 1 .. c : Nth(Names, j) \in Names
      /\ \A n \in Names : \E j \in 1 .. c : Nth(Names, j) = n
  BY NamesFinite, NthProperties
<1> HIDE DEF c
<1>2. ss \in [1 .. c -> Seq(RecordType)] /\ Len(ss) = c
  BY <1>1
<1>3. SinkRecords(t) = FlattenSeq(ss)
  BY DEF SinkRecords, c
<1>4. \A j \in 1 .. c : ss[j] = sinkFiles[t][Nth(Names, j)]
  OBVIOUS
<1> HIDE DEF ss
<1>5. /\ FlattenSeq(ss) \in Seq(RecordType)
      /\ \A x : x \in ToSet(FlattenSeq(ss)) <=> \E k \in 1 .. c : x \in ToSet(ss[k])
  BY <1>1, <1>2, FlattenMembers
<1>6. ASSUME NEW r, NEW n \in Names, r \in ToSet(sinkFiles[t][n])
      PROVE  r \in ToSet(SinkRecords(t))
  <2>1. PICK j \in 1 .. c : Nth(Names, j) = n
    BY <1>1
  <2>2. r \in ToSet(ss[j])
    BY <1>4, <1>6, <2>1
  <2> QED
    BY <1>3, <1>5, <2>2
<1>7. ASSUME NEW r \in ToSet(SinkRecords(t))
      PROVE  \E n \in Names : r \in ToSet(sinkFiles[t][n])
  <2>1. PICK j \in 1 .. c : r \in ToSet(ss[j])
    BY <1>3, <1>5
  <2> QED
    BY <1>1, <1>4, <2>1
<1> QED
  BY <1>3, <1>5, <1>6, <1>7

(* The rows of a shard are those of its hash, in the order they stand.      *)
LEMMA OfShardProperties ==
  ASSUME NEW S, NEW rows \in Seq(S), NEW sh
  PROVE  /\ OfShard(rows, sh) \in Seq(S)
         /\ \A x : x \in ToSet(OfShard(rows, sh)) <=> x \in ToSet(rows) /\ ShardOf(x) = sh
         /\ \A i, j \in 1 .. Len(OfShard(rows, sh)) : i < j =>
              \E a, b \in 1 .. Len(rows) :
                a < b /\ OfShard(rows, sh)[i] = rows[a] /\ OfShard(rows, sh)[j] = rows[b]
<1> DEFINE mine == {j \in 1 .. Len(rows) : ShardOf(rows[j]) = sh}
            c == Cardinality(mine)
            kept == OfShard(rows, sh)
<1>1. mine \in SUBSET Nat /\ IsFiniteSet(mine)
  <2>1. IsFiniteSet(1 .. Len(rows))
    BY FS_Interval
  <2> QED
    BY <2>1, FS_Subset
<1>2. \A j \in mine : j \in 1 .. Len(rows) /\ ShardOf(rows[j]) = sh
  OBVIOUS
<1>3. \A j \in 1 .. Len(rows) : ShardOf(rows[j]) = sh => j \in mine
  OBVIOUS
<1>4. kept = [p \in 1 .. c |-> rows[Nth(mine, p)]]
  BY DEF OfShard
<1> HIDE DEF mine, kept
<1>5. /\ c \in Nat
      /\ \A j \in 1 .. c : Nth(mine, j) \in mine
      /\ \A i, j \in 1 .. c : i < j => Nth(mine, i) < Nth(mine, j)
      /\ \A n \in mine : \E j \in 1 .. c : Nth(mine, j) = n
  BY <1>1, NthProperties
<1> HIDE DEF c
<1>6. ASSUME NEW p \in 1 .. c
      PROVE  /\ Nth(mine, p) \in 1 .. Len(rows) /\ kept[p] = rows[Nth(mine, p)]
             /\ ShardOf(kept[p]) = sh /\ kept[p] \in S
  <2>1. Nth(mine, p) \in 1 .. Len(rows) /\ ShardOf(rows[Nth(mine, p)]) = sh
    BY <1>2, <1>5
  <2>2. kept[p] = rows[Nth(mine, p)]
    BY <1>4
  <2> QED
    BY <2>1, <2>2
<1>7. kept \in Seq(S) /\ Len(kept) = c
  BY <1>4, <1>5, <1>6
<1>8. ASSUME NEW x \in ToSet(kept)
      PROVE  x \in ToSet(rows) /\ ShardOf(x) = sh
  <2>1. PICK p \in 1 .. c : x = kept[p]
    BY <1>7 DEF ToSet
  <2> QED
    BY <1>6, <2>1 DEF ToSet
<1>9. ASSUME NEW x \in ToSet(rows), ShardOf(x) = sh
      PROVE  x \in ToSet(kept)
  <2>1. PICK j \in 1 .. Len(rows) : x = rows[j]
    BY DEF ToSet
  <2>2. PICK p \in 1 .. c : Nth(mine, p) = j
    BY <1>3, <1>5, <1>9, <2>1
  <2>3. x = kept[p]
    BY <1>6, <2>1, <2>2
  <2> QED
    BY <1>7, <2>3 DEF ToSet
<1>10. ASSUME NEW i \in 1 .. c, NEW j \in 1 .. c, i < j
       PROVE  \E a, b \in 1 .. Len(rows) : a < b /\ kept[i] = rows[a] /\ kept[j] = rows[b]
  BY <1>5, <1>6, <1>10
<1> QED
  BY <1>7, <1>8, <1>9, <1>10 DEF kept

(* order is how a sort by index moves records: every place once, earlier    *)
(* records first.                                                           *)
SortsBy(order, records, sorted) ==
  /\ sorted \in Seq(RecordType) /\ Len(sorted) = Len(records)
  /\ order \in [1 .. Len(records) -> 1 .. Len(records)]
  /\ \A p \in 1 .. Len(records) : sorted[p] = records[order[p]]
  /\ \A k \in 1 .. Len(records) : \E p \in 1 .. Len(records) : order[p] = k
  /\ \A p, q \in 1 .. Len(records) : p < q => Earlier(records, order[p], order[q])

(* ByIndex is a stable sort by index. *)
LEMMA ByIndexSorts ==
  ASSUME NEW records \in Seq(RecordType)
  PROVE  \E order : SortsBy(order, records, ByIndex(records))
<1> DEFINE n == Len(records)
            S == 1 .. n
            R == {x \in S \X S : Earlier(records, x[1], x[2])}
            before(k) == {j \in S : Earlier(records, j, k)}
            order == [p \in S |-> CHOOSE k \in S : Cardinality(before(k)) = p - 1]
<1>1. n \in Nat /\ IsFiniteSet(S) /\ Cardinality(S) = n
  <2>1. n \in Nat /\ n \in Int /\ 1 \in Int
    OBVIOUS
  <2> HIDE DEF n
  <2>2. IsFiniteSet(1 .. n) /\ Cardinality(1 .. n) = IF 1 > n THEN 0 ELSE n - 1 + 1
    BY <2>1, FS_Interval
  <2> QED
    BY <2>1, <2>2
<1>2. \A k \in S : records[k].index \in Nat
  BY RecordFields
<1>3. Orders(R, S)
  <2>1. \A a \in S : ~Earlier(records, a, a)
    BY <1>2 DEF Earlier
  <2>2. \A a, b, c \in S :
          Earlier(records, a, b) /\ Earlier(records, b, c) => Earlier(records, a, c)
    BY <1>2 DEF Earlier
  <2>3. \A a, b \in S : a # b => Earlier(records, a, b) \/ Earlier(records, b, a)
    BY <1>2 DEF Earlier
  <2> QED
    BY <2>1, <2>2, <2>3 DEF Orders
<1>4. \A k \in S : {j \in S : <<j, k>> \in R} = before(k)
  OBVIOUS
<1>5. \A a, b \in S : <<a, b>> \in R <=> Earlier(records, a, b)
  OBVIOUS
<1>6. \A k \in S : Cardinality(before(k)) = Preceding(R, S, k)
  BY <1>4 DEF Preceding
<1>7. ByIndex(records) = [p \in S |-> records[order[p]]]
  BY DEF ByIndex
<1> HIDE DEF R
<1>8. FillsPlaces(R, S)
  BY <1>1, <1>3, PlacesInOrder
<1> HIDE DEF S
<1>9. /\ \A k \in S : Preceding(R, S, k) \in 0 .. n - 1
      /\ \A a, b \in S : <<a, b>> \in R => Preceding(R, S, a) < Preceding(R, S, b)
      /\ \A m \in 0 .. n - 1 : \E k \in S : Preceding(R, S, k) = m
  BY <1>1, <1>8 DEF FillsPlaces
<1> DEFINE place(k) == Cardinality(before(k))
<1>10. /\ \A k \in S : place(k) \in 0 .. n - 1
       /\ \A a, b \in S : Earlier(records, a, b) => place(a) < place(b)
       /\ \A m \in 0 .. n - 1 : \E k \in S : place(k) = m
  <2>1. \A k \in S : place(k) = Preceding(R, S, k)
    BY <1>6
  <2> HIDE DEF place
  <2>2. \A k \in S : place(k) \in 0 .. n - 1
    BY <1>9, <2>1
  <2>3. ASSUME NEW a \in S, NEW b \in S, Earlier(records, a, b)
        PROVE  place(a) < place(b)
    BY <1>5, <1>9, <2>1, <2>3
  <2>4. \A m \in 0 .. n - 1 : \E k \in S : place(k) = m
    BY <1>9, <2>1
  <2> QED
    BY <2>2, <2>3, <2>4
<1>11. order = [p \in S |-> CHOOSE k \in S : place(k) = p - 1]
  OBVIOUS
<1> HIDE DEF place, order
<1>12. ASSUME NEW p \in S
       PROVE  order[p] \in S /\ place(order[p]) = p - 1
  <2>1. p - 1 \in 0 .. n - 1
    BY <1>1 DEF S
  <2>2. \E k \in S : place(k) = p - 1
    BY <1>10, <2>1
  <2>3. order[p] = CHOOSE k \in S : place(k) = p - 1
    BY <1>11
  <2> QED
    BY <2>2, <2>3
<1>13. order \in [S -> S]
  BY <1>11, <1>12
<1>14. ASSUME NEW a \in S, NEW b \in S
       PROVE  /\ place(a) = place(b) => a = b
              /\ place(a) < place(b) => Earlier(records, a, b)
  <2>1. place(a) \in Nat /\ place(b) \in Nat
    BY <1>1, <1>10
  <2>2. a = b \/ Earlier(records, a, b) \/ Earlier(records, b, a)
    BY <1>2 DEF Earlier, S
  <2>3. /\ Earlier(records, a, b) => place(a) < place(b)
        /\ Earlier(records, b, a) => place(b) < place(a)
    BY <1>10
  <2> QED
    BY <2>1, <2>2, <2>3
<1>15. ASSUME NEW k \in S
       PROVE  \E p \in S : order[p] = k
  <2>1. place(k) \in 0 .. n - 1
    BY <1>10
  <2>2. place(k) + 1 \in S /\ (place(k) + 1) - 1 = place(k)
    BY <1>1, <2>1 DEF S
  <2> QED
    BY <1>12, <1>14, <2>2
<1>16. ASSUME NEW p \in S, NEW q \in S, p < q
       PROVE  Earlier(records, order[p], order[q])
  <2>1. p - 1 < q - 1
    BY <1>16 DEF S
  <2> QED
    BY <1>12, <1>14, <2>1
<1> DEFINE sorted == ByIndex(records)
<1>17. \A p \in S : sorted[p] = records[order[p]] /\ sorted[p] \in RecordType
  BY <1>7, <1>12 DEF S
<1>18. sorted \in Seq(RecordType) /\ Len(sorted) = n
  <2>1. sorted = [p \in 1 .. n |-> records[order[p]]]
    BY <1>7 DEF S
  <2>2. \A p \in 1 .. n : records[order[p]] \in RecordType
    BY <1>12 DEF S
  <2> HIDE DEF sorted
  <2> QED
    BY <1>1, <2>1, <2>2
<1> QED
  BY <1>13, <1>15, <1>16, <1>17, <1>18 DEF SortsBy, S

(* A sort keeps the records, and so the rows. *)
LEMMA ByIndexMembers ==
  ASSUME NEW records \in Seq(RecordType)
  PROVE  /\ ByIndex(records) \in Seq(RecordType)
         /\ \A r : r \in ToSet(ByIndex(records)) <=> r \in ToSet(records)
<1>1. PICK order : SortsBy(order, records, ByIndex(records))
  BY ByIndexSorts
<1> DEFINE sorted == ByIndex(records)
            S == 1 .. Len(records)
<1>2. /\ sorted \in Seq(RecordType) /\ Len(sorted) = Len(records)
      /\ order \in [S -> S]
      /\ \A p \in S : sorted[p] = records[order[p]]
      /\ \A k \in S : \E p \in S : order[p] = k
  BY <1>1 DEF SortsBy
<1> HIDE DEF sorted
<1>3. ASSUME NEW r, r \in ToSet(sorted)
      PROVE  r \in ToSet(records)
  <2>1. PICK p \in S : r = sorted[p]
    BY <1>2, <1>3 DEF ToSet
  <2> QED
    BY <1>2, <2>1, SMTT(30) DEF ToSet
<1>4. ASSUME NEW r, r \in ToSet(records)
      PROVE  r \in ToSet(sorted)
  <2>1. PICK k \in S : r = records[k]
    BY <1>4 DEF ToSet
  <2>2. PICK p \in S : order[p] = k
    BY <1>2
  <2>3. r = sorted[p]
    BY <1>2, <2>1, <2>2
  <2>4. DOMAIN sorted = S
    BY <1>2
  <2> QED
    BY <2>3, <2>4 DEF ToSet
<1> QED
  BY <1>2, <1>3, <1>4 DEF sorted

-----------------------------------------------------------------------------
(* The invariant that every deployment keeps, whatever goes wrong in it.    *)

(* A record holds a batch of the input. *)
OfInput(r) == \E k \in 1 .. Len(input) : r = Record(k, Rows(k))

OwnRecords ==
  \A t \in Temp :
    /\ \A n \in Names : \A r \in ToSet(sinkFiles[t][n]) : OfInput(r)
    /\ \A r \in ToSet(store[t]) : OfInput(r)

(* A shard is given rows of its share only. *)
OwnShares ==
  \A sh \in Shard :
    /\ ToSet(accum[sh].rows) \subseteq Share(sh)
    /\ \A t \in Temp : \A r \in ToSet(shardFiles[t][sh]) : ToSet(r.rows) \subseteq Share(sh)

(* Rows that wait carry the index of the first record they came in. *)
AccumOK ==
  \A sh \in Shard : /\ Len(accum[sh].rows) < TargetRecord
                    /\ accum[sh].rows # <<>> => accum[sh].first # NoIndex

(* Nothing is in a shard before the split, nor ever in one that no producer *)
(* reads.                                                                   *)
Unsplit ==
  ~Sharded => \A sh \in Shard : /\ accum[sh] = Empty /\ expect[sh] = 0
                                /\ \A t \in Temp : shardFiles[t][sh] = <<>>
IdleShards ==
  \A sh \in Shard \ Producers : accum[sh] = Empty /\ \A t \in Temp : shardFiles[t][sh] = <<>>

SinkPhase ==
  phase = "sink" =>
    /\ ~Sharded
    /\ \A sh \in Shard : read[sh].state = "none"
    /\ \A n \in Names : cursor[n] = 0

(* While it is split, a sink file is partly read or gone. *)
SplitPhase ==
  phase = "split" =>
    /\ Sharded /\ store[at] = <<>>
    /\ \A sh \in Shard : read[sh].state = "none"
    /\ \A n \in Names : cursor[n] < Len(sinkFiles[at][n]) \/ sinkFiles[at][n] = <<>>

(* Once split, no sink file is left and nothing waits. *)
ProducePhase ==
  phase \in {"produce", "done"} =>
    /\ \A sh \in Shard : accum[sh] = Empty
    /\ Sharded => (store[at] = <<>> /\ \A n \in Names : sinkFiles[at][n] = <<>>)
    /\ \A sh \in Shard \ Producers : read[sh].state = "none"
    /\ (phase = "done") <=> (\A p \in Producers : read[p].state = "ended")

PhaseOK == Unsplit /\ IdleShards /\ SinkPhase /\ SplitPhase /\ ProducePhase
IInv == TypeOK /\ OwnRecords /\ OwnShares /\ AccumOK /\ PhaseOK

(* What the assumptions say of the setting and the input of a state. *)
LEMMA SettingFields ==
  ASSUME setting \in Setting
  PROVE  /\ setting.tempOf \in [Worker -> Temp] /\ setting.fileOf \in [Worker -> Nat]
         /\ setting.maxSweeps \in Nat /\ setting.maxLosses \in Nat /\ setting.budget \in Nat \ {0}
         /\ setting.serves \in [Stream -> SUBSET Worker]
         /\ Names \in SUBSET Nat
         /\ \A w \in Worker : setting.tempOf[w] \in Temp /\ setting.fileOf[w] \in Names
<1>1. setting \in SettingType
  BY SpoolAssumption
<1>2. /\ setting.tempOf \in [Worker -> Temp] /\ setting.fileOf \in [Worker -> Nat]
      /\ setting.maxSweeps \in Nat /\ setting.maxLosses \in Nat /\ setting.budget \in Nat \ {0}
      /\ setting.serves \in [Stream -> SUBSET Worker]
  BY <1>1 DEF SettingType
<1> QED
  BY <1>2 DEF Names

(* A batch of the input is a record of rows whose keys have a hash. *)
LEMMA InputFields ==
  ASSUME input \in Inputs
  PROVE  /\ Len(input) \in Nat
         /\ \A k \in 1 .. Len(input) :
              /\ Rows(k) \in Seq(Nat \X Nat) /\ Len(Rows(k)) = Len(input[k])
              /\ Record(k, Rows(k)) \in RecordType
              /\ Record(k, Rows(k)).index = k /\ Record(k, Rows(k)).rows = Rows(k)
              /\ \A row \in ToSet(Rows(k)) : Hash[KeyOf(row)] \in Nat
<1>1. input \in Seq(Seq(DOMAIN Hash))
  BY BufferingAssumption
<1>2. Len(input) \in Nat
  BY <1>1
<1>3. ASSUME NEW k \in 1 .. Len(input)
      PROVE  /\ Rows(k) \in Seq(Nat \X Nat) /\ Len(Rows(k)) = Len(input[k])
             /\ Record(k, Rows(k)) \in RecordType
             /\ Record(k, Rows(k)).index = k /\ Record(k, Rows(k)).rows = Rows(k)
             /\ \A row \in ToSet(Rows(k)) : Hash[KeyOf(row)] \in Nat
  <2>1. k \in Nat \ {0} /\ input[k] \in Seq(DOMAIN Hash) /\ Len(input[k]) \in Nat
    BY <1>1, <1>2
  <2>2. Rows(k) = [j \in 1 .. Len(input[k]) |-> <<k, j>>]
    BY DEF Rows
  <2>3. Rows(k) \in Seq(Nat \X Nat) /\ Len(Rows(k)) = Len(input[k])
    BY <2>1, <2>2
  <2>4. Record(k, Rows(k)) \in RecordType
        /\ Record(k, Rows(k)).index = k /\ Record(k, Rows(k)).rows = Rows(k)
    BY <2>1, <2>3, RecordFields
  <2>5. ASSUME NEW row \in ToSet(Rows(k))
        PROVE  Hash[KeyOf(row)] \in Nat
    <3>1. PICK j \in 1 .. Len(input[k]) : row = <<k, j>>
      BY <2>2 DEF ToSet
    <3>2. KeyOf(row) \in DOMAIN Hash
      BY <2>1, <3>1 DEF KeyOf
    <3> QED
      BY <3>2, BufferingAssumption
  <2> QED
    BY <2>3, <2>4, <2>5
<1> QED
  BY <1>2, <1>3

(* What does not change with the setting, the input and the shards. *)
LEMMA GivenSame ==
  ASSUME UNCHANGED <<setting, input, shards>>
  PROVE  /\ Names' = Names /\ Sharded' = Sharded /\ Producers' = Producers
         /\ \A sh : Share(sh)' = Share(sh)
         /\ \A r : OfInput(r)' = OfInput(r)
         /\ \A k : Rows(k)' = Rows(k)
<1>1. Names' = Names
  BY DEF Names
<1>2. Sharded' = Sharded /\ Producers' = Producers
  BY DEF Sharded, Producers
<1>3. ASSUME NEW k
      PROVE  Rows(k)' = Rows(k)
  BY DEF Rows
<1>4. ASSUME NEW sh
      PROVE  Share(sh)' = Share(sh)
  BY DEF Share, Rows, Sharded, ShardOf, KeyOf
<1>5. ASSUME NEW r
      PROVE  OfInput(r)' = OfInput(r)
  BY DEF OfInput, Record, Rows
<1> QED
  BY <1>1, <1>2, <1>3, <1>4, <1>5

(* The elements of a sequence that grew by one. *)
LEMMA ToSetAppend ==
  ASSUME NEW S, NEW s \in Seq(S), NEW x \in S
  PROVE  Append(s, x) \in Seq(S) /\ \A y : y \in ToSet(Append(s, x)) <=> y \in ToSet(s) \/ y = x
<1>1. Append(s, x) \in Seq(S) /\ Len(Append(s, x)) = Len(s) + 1 /\ Len(s) \in Nat
  OBVIOUS
<1>2. \A i \in 1 .. Len(s) + 1 : Append(s, x)[i] = IF i = Len(s) + 1 THEN x ELSE s[i]
  OBVIOUS
<1>3. ASSUME NEW y, y \in ToSet(Append(s, x))
      PROVE  y \in ToSet(s) \/ y = x
  <2>1. PICK i \in 1 .. Len(s) + 1 : y = Append(s, x)[i]
    BY <1>1, <1>3 DEF ToSet
  <2>2. i = Len(s) + 1 \/ i \in 1 .. Len(s)
    BY <1>1
  <2>3. DOMAIN s = 1 .. Len(s)
    OBVIOUS
  <2> QED
    BY <1>2, <2>1, <2>2, <2>3 DEF ToSet
<1>4. ASSUME NEW y, y \in ToSet(s) \/ y = x
      PROVE  y \in ToSet(Append(s, x))
  <2>1. DOMAIN Append(s, x) = 1 .. Len(s) + 1
    BY <1>1
  <2>2. CASE y = x
    <3>1. Len(s) + 1 \in 1 .. Len(s) + 1
      BY <1>1
    <3> QED
      BY <1>2, <2>1, <2>2, <3>1 DEF ToSet
  <2>3. CASE y \in ToSet(s)
    <3>1. PICK i \in 1 .. Len(s) : y = s[i]
      BY <2>3 DEF ToSet
    <3>2. i \in 1 .. Len(s) + 1 /\ i # Len(s) + 1
      BY <1>1
    <3> QED
      BY <1>2, <2>1, <3>1, <3>2 DEF ToSet
  <2> QED
    BY <1>4, <2>2, <2>3
<1> QED
  BY <1>1, <1>3, <1>4

(* The elements of two sequences. *)
LEMMA ToSetConcat ==
  ASSUME NEW S, NEW a \in Seq(S), NEW b \in Seq(S)
  PROVE  /\ a \o b \in Seq(S)
         /\ \A y : y \in ToSet(a \o b) <=> y \in ToSet(a) \/ y \in ToSet(b)
<1> DEFINE n == Len(a)
            m == Len(b)
            ab == a \o b
<1>1. /\ n \in Nat /\ m \in Nat /\ DOMAIN a = 1 .. n /\ DOMAIN b = 1 .. m
      /\ ab \in Seq(S) /\ DOMAIN ab = 1 .. n + m
  OBVIOUS
<1>2. \A i \in 1 .. n + m : ab[i] = IF i <= n THEN a[i] ELSE b[i - n]
  BY ConcatProperties
<1> HIDE DEF n, m, ab
<1>3. ASSUME NEW y, y \in ToSet(ab)
      PROVE  y \in ToSet(a) \/ y \in ToSet(b)
  <2>1. PICK i \in 1 .. n + m : y = ab[i]
    BY <1>1, <1>3 DEF ToSet
  <2>2. (i <= n /\ i \in 1 .. n) \/ (~(i <= n) /\ i - n \in 1 .. m)
    BY <1>1
  <2> QED
    BY <1>1, <1>2, <2>1, <2>2 DEF ToSet
<1>4. ASSUME NEW y, y \in ToSet(a)
      PROVE  y \in ToSet(ab)
  <2>1. PICK i \in 1 .. n : y = a[i]
    BY <1>1, <1>4 DEF ToSet
  <2>2. i \in 1 .. n + m /\ i <= n
    BY <1>1
  <2> QED
    BY <1>1, <1>2, <2>1, <2>2 DEF ToSet
<1>5. ASSUME NEW y, y \in ToSet(b)
      PROVE  y \in ToSet(ab)
  <2>1. PICK i \in 1 .. m : y = b[i]
    BY <1>1, <1>5 DEF ToSet
  <2>2. n + i \in 1 .. n + m /\ ~(n + i <= n) /\ (n + i) - n = i
    BY <1>1
  <2> QED
    BY <1>1, <1>2, <2>1, <2>2 DEF ToSet
<1> QED
  BY <1>1, <1>3, <1>4, <1>5 DEF ab

(* One entry of a table changed. *)
LEMMA TableUpdate ==
  ASSUME NEW A, NEW B, NEW C, NEW f \in [A -> [B -> C]], NEW a \in A, NEW b \in B, NEW c \in C
  PROVE  /\ [f EXCEPT ![a][b] = c] \in [A -> [B -> C]]
         /\ \A u \in A, m \in B :
              [f EXCEPT ![a][b] = c][u][m] = IF u = a /\ m = b THEN c ELSE f[u][m]
  OBVIOUS

(* Nothing is in an empty sequence. *)
LEMMA ToSetEmpty == \A x : x \notin ToSet(<<>>)
  BY DEF ToSet

(* The invariant holds of an empty spool. *)
LEMMA InitHolds == Init => IInv
<1> SUFFICES ASSUME Init
             PROVE  IInv
  OBVIOUS
<1>1. /\ setting \in Setting /\ input \in Inputs /\ phase = "sink" /\ error = "none"
      /\ taken = 0 /\ holding = [s \in Stream |-> 0] /\ ran = {}
      /\ sinkFiles = [t \in Temp |-> [n \in Names |-> <<>>]]
      /\ shardFiles = [t \in Temp |-> [sh \in Shard |-> <<>>]]
      /\ handle = [w \in Worker |-> "closed"]
      /\ store = [t \in Temp |-> <<>>] /\ counts = [t \in Temp |-> <<>>]
      /\ sweeps = 0 /\ losses = 0
      /\ shards = 1 /\ expect = [sh \in Shard |-> 0] /\ at \in Temp
      /\ cursor = [n \in Names |-> 0] /\ accum = [sh \in Shard |-> Empty]
      /\ read = [sh \in Shard |-> Unread]
  BY DEF Init, SpoolInit, NoFiles, NoShards, Idle
<1>2. /\ Len(input) \in Nat /\ setting.maxSweeps \in Nat /\ setting.maxLosses \in Nat
      /\ MaxShards \in Nat \ {0}
  BY <1>1, SettingFields, InputFields, SpoolAssumption
<1>3. /\ Empty \in [first : Nat, rows : Seq(Nat \X Nat)] /\ Empty.rows = <<>>
      /\ Unread \in [state : {"none", "ok", "ended"}, rows : Seq(Nat \X Nat)]
      /\ Unread.state = "none"
  BY DEF Empty, NoIndex, Unread
<1>4. ~Sharded
  BY <1>1 DEF Sharded
<1>5. TypeOK
  <2>1. taken \in 0 .. Len(input) /\ holding \in [Stream -> 0 .. Len(input)] /\ ran \subseteq Stream
    BY <1>1, <1>2
  <2>2. /\ sinkFiles \in [Temp -> [Names -> Seq(RecordType)]]
        /\ shardFiles \in [Temp -> [Shard -> Seq(RecordType)]]
        /\ store \in [Temp -> Seq(RecordType)] /\ counts \in [Temp -> Seq(Nat)]
    BY <1>1
  <2>3. sweeps \in 0 .. setting.maxSweeps /\ losses \in 0 .. setting.maxLosses
        /\ shards \in 1 .. MaxShards
    BY <1>1, <1>2
  <2>4. /\ accum \in [Shard -> [first : Nat, rows : Seq(Nat \X Nat)]]
        /\ read \in [Shard -> [state : {"none", "ok", "ended"}, rows : Seq(Nat \X Nat)]]
    BY <1>1, <1>3
  <2>5. /\ phase \in {"sink", "split", "produce", "done", "failed"}
        /\ error \in {"none", "write", "read"} /\ (error # "none" <=> phase = "failed")
        /\ handle \in [Worker -> {"closed", "open", "orphan"}]
        /\ expect \in [Shard -> Nat] /\ at \in Temp /\ cursor \in [Names -> Nat]
    BY <1>1
  <2> QED
    BY <1>1, <2>1, <2>2, <2>3, <2>4, <2>5 DEF TypeOK
<1>6. OwnRecords
  BY <1>1, ToSetEmpty DEF OwnRecords
<1>7. OwnShares
  BY <1>1, <1>3, ToSetEmpty DEF OwnShares
<1>8. AccumOK
  <2>1. Len(<<>>) = 0 /\ 0 < TargetRecord
    BY BufferingAssumption
  <2> QED
    BY <1>1, <1>3, <2>1 DEF AccumOK
<1>9. PhaseOK
  BY <1>1, <1>3, <1>4 DEF PhaseOK, Unsplit, IdleShards, SinkPhase, SplitPhase, ProducePhase
<1> QED
  BY <1>5, <1>6, <1>7, <1>8, <1>9 DEF IInv

(* What is in the shards, when the split does not run: as much or less.     *)
LEMMA ShardsFramed ==
  ASSUME IInv, UNCHANGED <<given, splitVars>>,
         \A t \in Temp : \A sh \in Shard :
           shardFiles'[t][sh] = shardFiles[t][sh] \/ shardFiles'[t][sh] = <<>>
  PROVE  OwnShares' /\ AccumOK' /\ Unsplit' /\ IdleShards'
<1>1. /\ UNCHANGED <<setting, input, shards>> /\ accum' = accum /\ expect' = expect
  BY DEF given, splitVars
<1>2. Sharded' = Sharded /\ Producers' = Producers /\ \A sh : Share(sh)' = Share(sh)
  BY <1>1, GivenSame
<1>3. OwnShares'
  BY <1>1, <1>2, ToSetEmpty DEF IInv, OwnShares
<1>4. AccumOK'
  BY <1>1 DEF IInv, AccumOK
<1>5. Unsplit'
  BY <1>1, <1>2 DEF IInv, PhaseOK, Unsplit
<1>6. IdleShards'
  BY <1>1, <1>2 DEF IInv, PhaseOK, IdleShards
<1> QED
  BY <1>3, <1>4, <1>5, <1>6

(* The phases' invariants in a step that stays in its phase and leaves the  *)
(* split, the producers and the store alone, and the sink files too while   *)
(* they are split.                                                          *)
LEMMA PhasesFramed ==
  ASSUME IInv, UNCHANGED <<given, splitVars, read>>, phase' \in {phase, "failed"},
         Unsplit', IdleShards',
         phase # "sink" => UNCHANGED store,
         phase = "split" => UNCHANGED sinkFiles,
         \A n \in Names : sinkFiles'[at][n] = sinkFiles[at][n] \/ phase = "sink"
                            \/ sinkFiles'[at][n] = <<>>
  PROVE  PhaseOK'
<1>1. /\ UNCHANGED <<setting, input, shards>> /\ accum' = accum /\ at' = at /\ cursor' = cursor
      /\ read' = read
  BY DEF given, splitVars
<1>2. Names' = Names /\ Sharded' = Sharded /\ Producers' = Producers
  BY <1>1, GivenSame
<1>3. SinkPhase'
  BY <1>1, <1>2 DEF IInv, PhaseOK, SinkPhase
<1>4. SplitPhase'
  BY <1>1, <1>2 DEF IInv, PhaseOK, SplitPhase
<1>5. ProducePhase'
  BY <1>1, <1>2 DEF IInv, PhaseOK, ProducePhase
<1> QED
  BY <1>3, <1>4, <1>5 DEF PhaseOK

-----------------------------------------------------------------------------
(* The sinks keep it.                                                       *)

(* Taking a batch moves no row. *)
LEMMA TakeKeeps ==
  ASSUME IInv, NEW s \in Stream, Take(s), UNCHANGED <<splitVars, read>>
  PROVE  IInv'
<1>1. /\ taken < Len(input) /\ taken' = taken + 1
      /\ holding' = [holding EXCEPT ![s] = taken + 1]
      /\ UNCHANGED <<given, phase, error, ran, disk, sdk, sweeps>>
  BY DEF Take
<1>2. /\ UNCHANGED <<setting, input, phase, error, ran, sinkFiles, shardFiles, handle>>
      /\ UNCHANGED <<store, counts, losses, sweeps, shards, expect, at, cursor, accum, read>>
  BY <1>1 DEF given, disk, sdk, splitVars
<1>3. Names' = Names /\ \A r : OfInput(r)' = OfInput(r)
  BY <1>2, GivenSame
<1>4. TypeOK'
  <2>1. Len(input) \in Nat
    BY InputFields DEF IInv, TypeOK
  <2>2. taken' \in 0 .. Len(input) /\ holding' \in [Stream -> 0 .. Len(input)]
    BY <1>1, <2>1 DEF IInv, TypeOK
  <2> QED
    BY <1>2, <1>3, <2>2 DEF IInv, TypeOK
<1>5. OwnRecords'
  BY <1>2, <1>3 DEF IInv, OwnRecords
<1>6. OwnShares' /\ AccumOK' /\ Unsplit' /\ IdleShards'
  BY <1>2, ShardsFramed DEF given
<1>7. PhaseOK'
  BY <1>2, <1>6, PhasesFramed DEF given
<1> QED
  BY <1>4, <1>5, <1>6, <1>7 DEF IInv

(* The batch a stream holds is one of the input's. *)
LEMMA Held ==
  ASSUME IInv, NEW s \in Stream, NEW w \in Worker, Processing(s, w)
  PROVE  /\ holding[s] \in 1 .. Len(input) /\ holding[s] # 0
         /\ Record(holding[s], Rows(holding[s])) \in RecordType
         /\ Record(holding[s], Rows(holding[s])).rows = Rows(holding[s])
         /\ OfInput(Record(holding[s], Rows(holding[s])))
         /\ Len(Rows(holding[s])) \in Nat
         /\ setting.tempOf[w] \in Temp /\ setting.fileOf[w] \in Names
<1>1. Len(input) \in Nat /\ input \in Inputs /\ setting \in Setting
  BY InputFields DEF IInv, TypeOK
<1>2. holding[s] \in 1 .. Len(input)
  BY <1>1 DEF IInv, TypeOK, Processing, Idle
<1>3. /\ Rows(holding[s]) \in Seq(Nat \X Nat)
      /\ Record(holding[s], Rows(holding[s])) \in RecordType
      /\ Record(holding[s], Rows(holding[s])).rows = Rows(holding[s])
  BY <1>1, <1>2, InputFields
<1>4. OfInput(Record(holding[s], Rows(holding[s])))
  BY <1>2 DEF OfInput
<1>5. setting.tempOf[w] \in Temp /\ setting.fileOf[w] \in Names
  BY <1>1, SettingFields
<1> QED
  BY <1>2, <1>3, <1>4, <1>5

(* A batch appended to a spool file is of the input. *)
LEMMA AppendSpoolKeeps ==
  ASSUME IInv, NEW s \in Stream, NEW w \in Worker, AppendSpool(s, w),
         UNCHANGED <<splitVars, read>>
  PROVE  IInv'
<1> DEFINE t == setting.tempOf[w]
           n == setting.fileOf[w]
           r == Record(holding[s], Rows(holding[s]))
<1>1. /\ Processing(s, w) /\ phase = "sink"
      /\ handle' = [handle EXCEPT ![w] = IF @ = "closed" THEN "open" ELSE @]
      /\ \/ sinkFiles' = sinkFiles
         \/ sinkFiles' = [sinkFiles EXCEPT ![t][n] = Append(sinkFiles[t][n], r)]
      /\ holding' = [holding EXCEPT ![s] = 0]
      /\ ran' = ran \cup {s}
      /\ UNCHANGED <<given, phase, error, taken, shardFiles, sdk, sweeps>>
  BY DEF AppendSpool, Processing, Processed, Idle
<1>2. /\ UNCHANGED <<setting, input, phase, error, taken, shardFiles>>
      /\ UNCHANGED <<store, counts, losses, sweeps, shards, expect, at, cursor, accum, read>>
  BY <1>1 DEF given, disk, sdk, splitVars
<1>3. Names' = Names /\ \A x : OfInput(x)' = OfInput(x)
  BY <1>2, GivenSame
<1>4. t \in Temp /\ n \in Names /\ r \in RecordType /\ OfInput(r)
  BY <1>1, Held
<1> HIDE DEF t, n, r
<1>5. sinkFiles \in [Temp -> [Names -> Seq(RecordType)]]
  BY DEF IInv, TypeOK
<1>6. ASSUME NEW u \in Temp, NEW m \in Names
      PROVE  \/ sinkFiles'[u][m] = sinkFiles[u][m]
             \/ u = t /\ m = n /\ sinkFiles'[u][m] = Append(sinkFiles[u][m], r)
  BY <1>1, <1>4, <1>5
<1>7. TypeOK'
  <2>1. Append(sinkFiles[t][n], r) \in Seq(RecordType)
    BY <1>4, <1>5
  <2>2. sinkFiles' \in [Temp -> [Names -> Seq(RecordType)]]
    <3> DEFINE more == Append(sinkFiles[t][n], r)
    <3>1. [sinkFiles EXCEPT ![t][n] = more] \in [Temp -> [Names -> Seq(RecordType)]]
      <4>1. more \in Seq(RecordType)
        BY <2>1
      <4> HIDE DEF more
      <4> QED
        BY <1>4, <1>5, <4>1, TableUpdate
    <3> QED
      BY <1>1, <1>5, <3>1
  <2>3. handle' \in [Worker -> {"closed", "open", "orphan"}]
    BY <1>1 DEF IInv, TypeOK
  <2>4. holding' \in [Stream -> 0 .. Len(input)] /\ ran' \subseteq Stream
    <3>1. Len(input) \in Nat
      BY InputFields DEF IInv, TypeOK
    <3> QED
      BY <1>1, <3>1 DEF IInv, TypeOK
  <2> QED
    BY <1>2, <1>3, <2>2, <2>3, <2>4 DEF IInv, TypeOK
<1>8. OwnRecords'
  <2>1. ASSUME NEW u \in Temp, NEW m \in Names, NEW x \in ToSet(sinkFiles'[u][m])
        PROVE  OfInput(x)
    <3>1. CASE sinkFiles'[u][m] = sinkFiles[u][m]
      BY <2>1, <3>1 DEF IInv, OwnRecords
    <3>2. CASE sinkFiles'[u][m] = Append(sinkFiles[u][m], r)
      <4>1. sinkFiles[u][m] \in Seq(RecordType)
        BY <1>5
      <4>2. x \in ToSet(sinkFiles[u][m]) \/ x = r
        BY <1>4, <2>1, <3>2, <4>1, ToSetAppend
      <4> QED
        BY <1>4, <4>2 DEF IInv, OwnRecords
    <3> QED
      BY <1>6, <3>1, <3>2
  <2> QED
    BY <1>2, <1>3, <2>1 DEF IInv, OwnRecords
<1>9. OwnShares' /\ AccumOK' /\ Unsplit' /\ IdleShards'
  BY <1>2, ShardsFramed DEF given
<1>10. PhaseOK'
  BY <1>1, <1>2, <1>9, PhasesFramed DEF given
<1> QED
  BY <1>7, <1>8, <1>9, <1>10 DEF IInv

(* So is one appended to the store. *)
LEMMA AppendStoreKeeps ==
  ASSUME IInv, NEW s \in Stream, NEW w \in Worker, AppendStore(s, w),
         UNCHANGED <<splitVars, read>>
  PROVE  IInv'
<1> DEFINE t == setting.tempOf[w]
           r == Record(holding[s], Rows(holding[s]))
           size == Len(Rows(holding[s]))
<1>1. /\ Processing(s, w) /\ phase = "sink"
      /\ store' = [store EXCEPT ![t] = Append(@, r)]
      /\ counts' = [counts EXCEPT ![t] = Append(@, size)]
      /\ holding' = [holding EXCEPT ![s] = 0]
      /\ ran' = ran \cup {s}
      /\ UNCHANGED <<given, phase, error, taken, disk, losses, sweeps>>
  BY DEF AppendStore, Processing, Processed, Idle
<1>2. /\ UNCHANGED <<setting, input, phase, error, taken, sinkFiles, shardFiles, handle>>
      /\ UNCHANGED <<losses, sweeps, shards, expect, at, cursor, accum, read>>
  BY <1>1 DEF given, disk, sdk, splitVars
<1>3. Names' = Names /\ \A x : OfInput(x)' = OfInput(x)
  BY <1>2, GivenSame
<1>4. t \in Temp /\ r \in RecordType /\ OfInput(r) /\ size \in Nat
  BY <1>1, Held
<1> HIDE DEF t, r, size
<1>5. store \in [Temp -> Seq(RecordType)] /\ counts \in [Temp -> Seq(Nat)]
  BY DEF IInv, TypeOK
<1>6. TypeOK'
  <2>1. store' \in [Temp -> Seq(RecordType)] /\ counts' \in [Temp -> Seq(Nat)]
    BY <1>1, <1>4, <1>5
  <2>2. holding' \in [Stream -> 0 .. Len(input)] /\ ran' \subseteq Stream
    <3>1. Len(input) \in Nat
      BY InputFields DEF IInv, TypeOK
    <3> QED
      BY <1>1, <3>1 DEF IInv, TypeOK
  <2> QED
    BY <1>2, <1>3, <2>1, <2>2 DEF IInv, TypeOK
<1>7. OwnRecords'
  <2>1. ASSUME NEW u \in Temp, NEW x \in ToSet(store'[u])
        PROVE  OfInput(x)
    <3>1. store'[u] = store[u] \/ store'[u] = Append(store[u], r)
      BY <1>1, <1>4, <1>5
    <3>2. x \in ToSet(store[u]) \/ x = r
      <4>1. store[u] \in Seq(RecordType)
        BY <1>5
      <4>2. \A y : y \in ToSet(Append(store[u], r)) <=> y \in ToSet(store[u]) \/ y = r
        BY <1>4, <4>1, ToSetAppend
      <4> QED
        BY <2>1, <3>1, <4>2
    <3> QED
      BY <1>4, <3>2 DEF IInv, OwnRecords
  <2> QED
    BY <1>2, <1>3, <2>1 DEF IInv, OwnRecords
<1>8. OwnShares' /\ AccumOK' /\ Unsplit' /\ IdleShards'
  BY <1>2, ShardsFramed DEF given
<1>9. PhaseOK'
  BY <1>1, <1>2, <1>8, PhasesFramed DEF given
<1> QED
  BY <1>6, <1>7, <1>8, <1>9 DEF IInv

(* A write that fails fails the query and nothing else. *)
LEMMA AppendFailsKeeps ==
  ASSUME IInv, NEW s \in Stream, NEW w \in Worker, AppendFails(s, w),
         UNCHANGED <<splitVars, read>>
  PROVE  IInv'
<1>1. /\ phase' = "failed" /\ error' = "write"
      /\ UNCHANGED <<given, sinking, disk, sdk, sweeps>>
  BY DEF AppendFails
<1>2. /\ UNCHANGED <<setting, input, taken, holding, ran, sinkFiles, shardFiles, handle>>
      /\ UNCHANGED <<store, counts, losses, sweeps, shards, expect, at, cursor, accum, read>>
  BY <1>1 DEF given, sinking, disk, sdk, splitVars
<1>3. Names' = Names /\ \A r : OfInput(r)' = OfInput(r)
  BY <1>2, GivenSame
<1>4. TypeOK'
  BY <1>1, <1>2, <1>3 DEF IInv, TypeOK
<1>5. OwnRecords'
  BY <1>2, <1>3 DEF IInv, OwnRecords
<1>6. OwnShares' /\ AccumOK' /\ Unsplit' /\ IdleShards'
  BY <1>2, ShardsFramed DEF given
<1>7. PhaseOK'
  BY <1>1, <1>2, <1>6, PhasesFramed DEF given
<1> QED
  BY <1>4, <1>5, <1>6, <1>7 DEF IInv

(* A dropped handle takes no record with it. *)
LEMMA EvictKeeps ==
  ASSUME IInv, NEW w \in Worker, Evict(w), UNCHANGED <<splitVars, read>>
  PROVE  IInv'
<1>1. /\ handle' = [handle EXCEPT ![w] = "closed"]
      /\ UNCHANGED <<given, phase, error, sinking, sinkFiles, shardFiles, sdk, sweeps>>
  BY DEF Evict
<1>2. /\ UNCHANGED <<setting, input, phase, error, taken, holding, ran, sinkFiles, shardFiles>>
      /\ UNCHANGED <<store, counts, losses, sweeps, shards, expect, at, cursor, accum, read>>
  BY <1>1 DEF given, sinking, sdk, splitVars
<1>3. Names' = Names /\ \A r : OfInput(r)' = OfInput(r)
  BY <1>2, GivenSame
<1>4. TypeOK'
  BY <1>1, <1>2, <1>3 DEF IInv, TypeOK
<1>5. OwnRecords'
  BY <1>2, <1>3 DEF IInv, OwnRecords
<1>6. OwnShares' /\ AccumOK' /\ Unsplit' /\ IdleShards'
  BY <1>2, ShardsFramed DEF given
<1>7. PhaseOK'
  BY <1>1, <1>2, <1>6, PhasesFramed DEF given
<1> QED
  BY <1>4, <1>5, <1>6, <1>7 DEF IInv

(* A directory whose files are unlinked. *)
LEMMA Unlinked ==
  ASSUME IInv, NEW t \in Temp,
         sinkFiles' = [sinkFiles EXCEPT ![t] = NoFiles],
         shardFiles' = [shardFiles EXCEPT ![t] = NoShards],
         handle' = Orphaned(t)
  PROVE  /\ sinkFiles' \in [Temp -> [Names -> Seq(RecordType)]]
         /\ shardFiles' \in [Temp -> [Shard -> Seq(RecordType)]]
         /\ handle' \in [Worker -> {"closed", "open", "orphan"}]
         /\ \A u \in Temp : \A m \in Names :
              sinkFiles'[u][m] = IF u = t THEN <<>> ELSE sinkFiles[u][m]
         /\ \A u \in Temp : \A sh \in Shard :
              shardFiles'[u][sh] = IF u = t THEN <<>> ELSE shardFiles[u][sh]
<1>1. /\ sinkFiles \in [Temp -> [Names -> Seq(RecordType)]]
      /\ shardFiles \in [Temp -> [Shard -> Seq(RecordType)]]
      /\ handle \in [Worker -> {"closed", "open", "orphan"}]
  BY DEF IInv, TypeOK
<1>2. NoFiles \in [Names -> Seq(RecordType)] /\ \A m \in Names : NoFiles[m] = <<>>
  BY DEF NoFiles
<1>3. NoShards \in [Shard -> Seq(RecordType)] /\ \A sh \in Shard : NoShards[sh] = <<>>
  BY DEF NoShards
<1>4. handle' \in [Worker -> {"closed", "open", "orphan"}]
  BY <1>1 DEF Orphaned
<1> QED
  BY <1>1, <1>2, <1>3, <1>4

(* A sweep empties files; the split is never swept. *)
LEMMA SweepKeeps ==
  ASSUME IInv, NEW t \in Temp, Sweep(t), UNCHANGED <<splitVars, read>>
  PROVE  IInv'
<1>1. /\ phase \in setting.sweepPhases /\ sweeps < setting.maxSweeps
      /\ sweeps' = sweeps + 1
      /\ sinkFiles' = [sinkFiles EXCEPT ![t] = NoFiles]
      /\ shardFiles' = [shardFiles EXCEPT ![t] = NoShards]
      /\ handle' = Orphaned(t)
      /\ UNCHANGED <<given, phase, error, sinking, sdk>>
  BY DEF Sweep
<1>2. /\ UNCHANGED <<setting, input, phase, error, taken, holding, ran>>
      /\ UNCHANGED <<store, counts, losses, shards, expect, at, cursor, accum, read>>
  BY <1>1 DEF given, sinking, sdk, splitVars
<1>3. Names' = Names /\ \A r : OfInput(r)' = OfInput(r)
  BY <1>2, GivenSame
<1>4. /\ sinkFiles' \in [Temp -> [Names -> Seq(RecordType)]]
      /\ shardFiles' \in [Temp -> [Shard -> Seq(RecordType)]]
      /\ handle' \in [Worker -> {"closed", "open", "orphan"}]
      /\ \A u \in Temp : \A m \in Names :
           sinkFiles'[u][m] = IF u = t THEN <<>> ELSE sinkFiles[u][m]
      /\ \A u \in Temp : \A sh \in Shard :
           shardFiles'[u][sh] = IF u = t THEN <<>> ELSE shardFiles[u][sh]
  BY <1>1, Unlinked
<1>5. phase # "split"
  <2>1. setting.sweepPhases \subseteq {"sink", "produce"}
    BY SpoolAssumption DEF IInv, TypeOK, SettingType
  <2> QED
    BY <1>1, <2>1
<1>6. TypeOK'
  <2>1. sweeps' \in 0 .. setting.maxSweeps
    <3>1. setting.maxSweeps \in Nat
      BY SettingFields DEF IInv, TypeOK
    <3> QED
      BY <1>1, <3>1 DEF IInv, TypeOK
  <2> QED
    BY <1>2, <1>3, <1>4, <2>1 DEF IInv, TypeOK
<1>7. OwnRecords'
  BY <1>2, <1>3, <1>4, ToSetEmpty DEF IInv, OwnRecords
<1>8. OwnShares' /\ AccumOK' /\ Unsplit' /\ IdleShards'
  BY <1>2, <1>4, ShardsFramed DEF given
<1>9. PhaseOK'
  <2>1. at \in Temp
    BY DEF IInv, TypeOK
  <2> QED
    BY <1>2, <1>4, <1>5, <1>8, <2>1, PhasesFramed DEF given
<1> QED
  BY <1>6, <1>7, <1>8, <1>9 DEF IInv

(* What the store still holds is of the input. *)
LEMMA StoreLosesKeeps ==
  ASSUME IInv, NEW t \in Temp, StoreLoses(t), UNCHANGED <<splitVars, read>>
  PROVE  IInv'
<1>1. PICK k \in 1 .. Len(store[t]) : store' = [store EXCEPT ![t] = RemoveAt(store[t], k)]
  BY DEF StoreLoses
<1>2. /\ phase = "sink" /\ losses < setting.maxLosses
      /\ losses' = losses + 1
      /\ UNCHANGED <<given, phase, error, sinking, disk, counts, sweeps>>
  BY DEF StoreLoses
<1>3. /\ UNCHANGED <<setting, input, phase, error, taken, holding, ran, sinkFiles, shardFiles>>
      /\ UNCHANGED <<handle, counts, sweeps, shards, expect, at, cursor, accum, read>>
  BY <1>2 DEF given, sinking, disk, splitVars
<1>4. Names' = Names /\ \A r : OfInput(r)' = OfInput(r)
  BY <1>3, GivenSame
<1>5. store \in [Temp -> Seq(RecordType)] /\ store[t] \in Seq(RecordType)
  BY DEF IInv, TypeOK
<1>6. RemoveAt(store[t], k) \in Seq(RecordType) /\ ToSet(RemoveAt(store[t], k)) \subseteq ToSet(store[t])
  BY <1>5, RemoveAtProperties DEF Removed
<1>7. TypeOK'
  <2>1. store' \in [Temp -> Seq(RecordType)]
    BY <1>1, <1>5, <1>6
  <2>2. losses' \in 0 .. setting.maxLosses
    <3>1. setting.maxLosses \in Nat
      BY SettingFields DEF IInv, TypeOK
    <3> QED
      BY <1>2, <3>1 DEF IInv, TypeOK
  <2> QED
    BY <1>3, <1>4, <2>1, <2>2 DEF IInv, TypeOK
<1>8. OwnRecords'
  <2>1. ASSUME NEW u \in Temp, NEW x \in ToSet(store'[u])
        PROVE  OfInput(x)
    <3>1. x \in ToSet(store[u])
      BY <1>1, <1>5, <1>6, <2>1
    <3> QED
      BY <3>1 DEF IInv, OwnRecords
  <2> QED
    BY <1>3, <1>4, <2>1 DEF IInv, OwnRecords
<1>9. OwnShares' /\ AccumOK' /\ Unsplit' /\ IdleShards'
  BY <1>3, ShardsFramed DEF given
<1>10. PhaseOK'
  BY <1>2, <1>3, <1>9, PhasesFramed DEF given
<1> QED
  BY <1>7, <1>8, <1>9, <1>10 DEF IInv

-----------------------------------------------------------------------------
(* combine and the split keep it.                                           *)

(* combine never asks for more than MAX_SHARDS. *)
LEMMA ShardCountBounded ==
  ASSUME setting \in Setting, NEW bytes \in Nat
  PROVE  ShardCount(bytes) \in Int /\ ShardCount(bytes) <= MaxShards
<1>1. setting.budget \in Nat \ {0} /\ MaxShards \in Nat \ {0}
  BY SettingFields, SpoolAssumption
<1> DEFINE q == (bytes + setting.budget - 1) \div setting.budget
<1>2. q \in Int
  BY <1>1
<1>3. q >= 0
  BY <1>1
<1>4. Min({q, MaxShards}) \in {q, MaxShards} /\ Min({q, MaxShards}) <= MaxShards
  <2> HIDE DEF q
  <2>1. {q, MaxShards} \in SUBSET Nat /\ {q, MaxShards} # {}
    BY <1>1, <1>2, <1>3
  <2> QED
    BY <2>1, MinOfSet
<1>5. ShardCount(bytes) = 1 \/ ShardCount(bytes) = Min({q, MaxShards})
  BY DEF ShardCount
<1> HIDE DEF q
<1> QED
  BY <1>1, <1>2, <1>4, <1>5

(* combine enters the split with unread sink files and no store. *)
LEMMA CombineKeeps ==
  ASSUME IInv, NEW t \in Temp, Combine(t)
  PROVE  IInv'
<1> DEFINE count == ShardCount(NumRows(SinkRecords(t)))
<1>1. /\ phase = "sink"
      /\ phase' = IF Splits(t) THEN "split" ELSE "produce"
      /\ shards' = IF Splits(t) THEN count ELSE 1
      /\ at' = t
      /\ UNCHANGED <<given, error, sinking, disk, sdk, sweeps, expect, cursor, accum, read>>
  BY DEF Combine, Sunk
<1>2. /\ UNCHANGED <<setting, input, error, taken, holding, ran, sinkFiles, shardFiles, handle>>
      /\ UNCHANGED <<store, counts, losses, sweeps, expect, cursor, accum, read>>
  BY <1>1 DEF given, sinking, disk, sdk
<1>3. Names' = Names /\ \A r : OfInput(r)' = OfInput(r)
  BY <1>2 DEF Names, OfInput, Record, Rows
<1>4. /\ ~Sharded /\ shards = 1
      /\ \A sh \in Shard : /\ accum[sh] = Empty /\ expect[sh] = 0 /\ read[sh].state = "none"
                           /\ \A u \in Temp : shardFiles[u][sh] = <<>>
      /\ \A n \in Names : cursor[n] = 0
  <2>1. ~Sharded
    BY <1>1 DEF IInv, PhaseOK, SinkPhase
  <2>2. shards = 1
    BY <2>1, SpoolAssumption DEF IInv, TypeOK, Sharded
  <2> QED
    BY <1>1, <2>1, <2>2 DEF IInv, PhaseOK, SinkPhase, Unsplit
<1>5. Splits(t) => count > 1 /\ store[t] = <<>> /\ count \in 1 .. MaxShards
  <2>1. sinkFiles[t] \in [Names -> Seq(RecordType)] /\ setting \in Setting
    BY DEF IInv, TypeOK
  <2>2. SinkRecords(t) \in Seq(RecordType)
    BY <2>1, SettingFields, SinkRecordsMembers
  <2>3. count \in Int /\ count <= MaxShards
    BY <2>1, <2>2, ShardCountBounded, SizesTyped
  <2> HIDE DEF count
  <2>4. Splits(t) => count > 1 /\ store[t] = <<>>
    BY DEF Splits, count
  <2> QED
    BY <2>3, <2>4, SpoolAssumption
<1> HIDE DEF count
<1>6. TypeOK'
  <2>1. shards' \in 1 .. MaxShards
    BY <1>1, <1>5, SpoolAssumption
  <2> QED
    BY <1>1, <1>2, <1>3, <2>1 DEF IInv, TypeOK
<1>7. OwnRecords'
  BY <1>2, <1>3 DEF IInv, OwnRecords
<1>8. OwnShares' /\ AccumOK'
  <2>1. Empty.rows = <<>>
    BY DEF Empty
  <2>2. OwnShares'
    BY <1>2, <1>4, <2>1, ToSetEmpty DEF OwnShares
  <2>3. AccumOK'
    BY <1>2 DEF IInv, AccumOK
  <2> QED
    BY <2>2, <2>3
<1>9. Unsplit' /\ IdleShards'
  BY <1>2, <1>4 DEF Unsplit, IdleShards
<1>10. SinkPhase'
  BY <1>1 DEF SinkPhase
<1>11. SplitPhase'
  <2> SUFFICES ASSUME phase' = "split"
               PROVE  SplitPhase'
    BY DEF SplitPhase
  <2>1. Splits(t)
    BY <1>1
  <2>2. Sharded'
    BY <1>1, <1>5, <2>1 DEF Sharded
  <2>3. store'[at'] = <<>>
    BY <1>1, <1>2, <1>5, <2>1
  <2>4. ASSUME NEW n \in Names
        PROVE  cursor'[n] < Len(sinkFiles'[at'][n]) \/ sinkFiles'[at'][n] = <<>>
    <3>1. sinkFiles[t][n] \in Seq(RecordType) /\ cursor[n] = 0
      BY <1>4 DEF IInv, TypeOK
    <3>2. 0 < Len(sinkFiles[t][n]) \/ sinkFiles[t][n] = <<>>
      BY <3>1
    <3> QED
      BY <1>1, <1>2, <3>1, <3>2
  <2> QED
    BY <1>2, <1>3, <1>4, <2>2, <2>3, <2>4 DEF SplitPhase
<1>12. ProducePhase'
  <2> SUFFICES ASSUME phase' \in {"produce", "done"}
               PROVE  ProducePhase'
    BY DEF ProducePhase
  <2>1. shards' = 1 /\ phase' = "produce"
    BY <1>1
  <2>2. ~Sharded' /\ Producers' = 0 .. 0
    BY <2>1 DEF Sharded, Producers
  <2>3. 0 \in Shard /\ 0 \in 0 .. 0
    BY SpoolAssumption DEF Shard
  <2> QED
    BY <1>2, <1>4, <2>1, <2>2, <2>3 DEF ProducePhase
<1> QED
  BY <1>6, <1>7, <1>8, <1>9, <1>10, <1>11, <1>12 DEF IInv, PhaseOK

(* The record the split reads next: it is there, and none goes before it.   *)
LEMMA PickLive ==
  ASSUME IInv, Live # {}
  PROVE  /\ Pick \in Live /\ Pick \in Names /\ HeadOf(Pick) \in RecordType
         /\ cursor[Pick] + 1 \in 1 .. Len(sinkFiles[at][Pick])
         /\ \A m \in Live : /\ HeadOf(m) \in RecordType
                            /\ HeadOf(Pick).index <= HeadOf(m).index
<1>1. /\ at \in Temp /\ cursor \in [Names -> Nat] /\ Names \in SUBSET Nat
      /\ \A n \in Names : sinkFiles[at][n] \in Seq(RecordType)
  BY SettingFields DEF IInv, TypeOK
<1>2. ASSUME NEW n \in Live
      PROVE  /\ n \in Names /\ n \in Nat /\ HeadOf(n) \in RecordType /\ HeadOf(n).index \in Nat
             /\ cursor[n] + 1 \in 1 .. Len(sinkFiles[at][n])
  <2>1. n \in Names /\ cursor[n] < Len(sinkFiles[at][n])
    BY DEF Live
  <2>2. cursor[n] \in Nat /\ Len(sinkFiles[at][n]) \in Nat
    BY <1>1, <2>1
  <2>3. cursor[n] + 1 \in 1 .. Len(sinkFiles[at][n])
    BY <2>1, <2>2
  <2>4. HeadOf(n) \in RecordType
    BY <1>1, <2>1, <2>3 DEF HeadOf
  <2> QED
    BY <1>1, <2>1, <2>3, <2>4, RecordFields
<1> DEFINE T == {HeadOf(n).index : n \in Live}
<1>3. PICK i \in T : \A j \in T : i <= j
  <2>1. T \in SUBSET Nat /\ T # {}
    BY <1>2
  <2> HIDE DEF T
  <2> QED
    BY <2>1, LeastNat
<1> DEFINE U == {n \in Live : HeadOf(n).index = i}
<1>4. PICK n \in U : \A m \in U : n <= m
  <2>1. U \in SUBSET Nat /\ U # {}
    BY <1>2, <1>3
  <2> HIDE DEF U
  <2> QED
    BY <2>1, LeastNat
<1> DEFINE First(a) == \A m \in Live \ {a} :
              \/ HeadOf(a).index < HeadOf(m).index
              \/ HeadOf(a).index = HeadOf(m).index /\ a < m
<1>5. n \in Live /\ First(n)
  <2>1. n \in Live /\ HeadOf(n).index = i /\ n \in Nat /\ i \in Nat
    BY <1>2, <1>4
  <2>2. ASSUME NEW m \in Live \ {n}
        PROVE  \/ HeadOf(n).index < HeadOf(m).index
               \/ HeadOf(n).index = HeadOf(m).index /\ n < m
    <3>1. m \in Nat /\ HeadOf(m).index \in Nat /\ i <= HeadOf(m).index /\ m # n
      BY <1>2, <1>3
    <3>2. HeadOf(m).index = i => n <= m
      BY <1>4
    <3> QED
      BY <2>1, <3>1, <3>2
  <2> QED
    BY <2>1, <2>2
<1>6. Pick = CHOOSE a \in Live : First(a)
  BY DEF Pick
<1> HIDE DEF First
<1>7. Pick \in Live /\ First(Pick)
  BY <1>5, <1>6
<1>8. ASSUME NEW m \in Live
      PROVE  HeadOf(m) \in RecordType /\ HeadOf(Pick).index <= HeadOf(m).index
  <2>1. HeadOf(m).index \in Nat /\ HeadOf(Pick).index \in Nat /\ HeadOf(m) \in RecordType
    BY <1>2, <1>7
  <2>2. m = Pick \/ HeadOf(Pick).index < HeadOf(m).index \/ HeadOf(Pick).index = HeadOf(m).index
    BY <1>7 DEF First
  <2> QED
    BY <2>1, <2>2
<1> QED
  BY <1>2, <1>7, <1>8

(* The index of a shard's next record, if it takes rows of this one. *)
FirstOf(sh, record) == IF accum[sh].rows = <<>> THEN record.index ELSE accum[sh].first

(* A shard is given rows: they wait, or go into its file with all that      *)
(* waited.                                                                  *)
Given(sh, record, rows) ==
  /\ expect'[sh] = expect[sh] + Len(rows)
  /\ \/ /\ accum'[sh].rows = accum[sh].rows \o rows
        /\ accum'[sh].rows # <<>> => accum'[sh].first # NoIndex
        /\ IF rows = <<>> THEN accum'[sh] = accum[sh] ELSE accum'[sh].first = FirstOf(sh, record)
        /\ Len(accum'[sh].rows) < TargetRecord
        /\ shardFiles'[at][sh] = shardFiles[at][sh]
     \/ /\ accum'[sh] = Empty
        /\ rows # <<>>
        /\ FirstOf(sh, record) \in Nat \ {0}
        /\ shardFiles'[at][sh] =
             Append(shardFiles[at][sh], Record(FirstOf(sh, record), accum[sh].rows \o rows))

(* A sink file is read on by a record; with its last one it is unlinked.    *)
ReadOn(n) ==
  /\ \A m \in Names \ {n} : cursor'[m] = cursor[m] /\ sinkFiles'[at][m] = sinkFiles[at][m]
  /\ \/ /\ cursor[n] + 1 < Len(sinkFiles[at][n])
        /\ cursor'[n] = cursor[n] + 1 /\ sinkFiles'[at][n] = sinkFiles[at][n]
     \/ /\ cursor[n] + 1 = Len(sinkFiles[at][n])
        /\ cursor'[n] = 0 /\ sinkFiles'[at][n] = <<>>

SplitRecordFacts ==
  /\ phase = "split"
  /\ UNCHANGED <<setting, input, phase, error, taken, holding, ran, handle, store, counts, losses>>
  /\ UNCHANGED <<sweeps, shards, at, read>>
  /\ expect' \in [Shard -> Nat] /\ cursor' \in [Names -> Nat]
  /\ accum' \in [Shard -> [first : Nat, rows : Seq(Nat \X Nat)]]
  /\ sinkFiles' \in [Temp -> [Names -> Seq(RecordType)]]
  /\ shardFiles' \in [Temp -> [Shard -> Seq(RecordType)]]
  /\ \A t \in Temp \ {at} : sinkFiles'[t] = sinkFiles[t] /\ shardFiles'[t] = shardFiles[t]
  /\ Pick \in Live /\ ReadOn(Pick)
  /\ \A sh \in Shard : Given(sh, HeadOf(Pick), OfShard(HeadOf(Pick).rows, sh))

(* What a step of the split does to the shards, and to one of them. *)
Handed(took, record) ==
  /\ took = [s \in Shard |-> Taking(s, record)]
  /\ expect' = [s \in Shard |-> expect[s] + Len(took[s].rows) - Len(accum[s].rows)]
  /\ accum' = [s \in Shard |-> IF s \in Full(took) THEN Empty ELSE took[s]]
  /\ shardFiles' = [shardFiles EXCEPT ![at] = Flushed(shardFiles[at], Full(took), took)]

(* One shard takes its rows of a record and writes them when it is full. *)
LEMMA ShardStep ==
  ASSUME IInv, NEW sh \in Shard, NEW record \in RecordType, NEW took, Handed(took, record)
  PROVE  /\ Given(sh, record, OfShard(record.rows, sh))
         /\ expect'[sh] \in Nat
         /\ accum'[sh] \in [first : Nat, rows : Seq(Nat \X Nat)]
         /\ shardFiles'[at][sh] \in Seq(RecordType)
<1> DEFINE mine == OfShard(record.rows, sh)
            old == accum[sh]
            new == took[sh]
<1>1. /\ record.index \in Nat \ {0} /\ record.rows \in Seq(Nat \X Nat)
      /\ mine \in Seq(Nat \X Nat)
  BY RecordFields, OfShardProperties
<1>2. /\ old \in [first : Nat, rows : Seq(Nat \X Nat)]
      /\ Len(old.rows) < TargetRecord
      /\ old.rows # <<>> => old.first # NoIndex
      /\ expect[sh] \in Nat /\ at \in Temp /\ shardFiles \in [Temp -> [Shard -> Seq(RecordType)]]
  BY DEF IInv, TypeOK, AccumOK
<1>3. new = IF mine = <<>> THEN old
            ELSE [first |-> IF old.rows = <<>> THEN record.index ELSE old.first,
                  rows |-> old.rows \o mine]
  BY DEF Taking, Handed
<1> HIDE DEF mine, old, new
<1>4. old.rows \in Seq(Nat \X Nat) /\ old.first \in Nat
  BY <1>2
<1>5. /\ old.rows \o mine \in Seq(Nat \X Nat)
      /\ Len(old.rows \o mine) = Len(old.rows) + Len(mine)
      /\ Len(old.rows) \in Nat /\ Len(mine) \in Nat
      /\ mine = <<>> => old.rows \o mine = old.rows
  BY <1>1, <1>4, ConcatProperties, ConcatEmptySeq
<1>6. /\ new.rows = old.rows \o mine
      /\ new \in [first : Nat, rows : Seq(Nat \X Nat)]
      /\ new.rows # <<>> => new.first # NoIndex
      /\ mine = <<>> => new = old
      /\ mine # <<>> => new.first \in Nat \ {0} /\ new.first = FirstOf(sh, record)
  <2>1. CASE mine = <<>>
    BY <1>2, <1>3, <1>5, <2>1
  <2>2. CASE mine # <<>>
    <3>1. new = [first |-> IF old.rows = <<>> THEN record.index ELSE old.first,
                 rows |-> old.rows \o mine]
      BY <1>3, <2>2
    <3>2. new.rows = old.rows \o mine /\ new.first = IF old.rows = <<>> THEN record.index ELSE old.first
      BY <3>1
    <3>3. new.first \in Nat \ {0}
      BY <1>1, <1>2, <1>4, <3>2 DEF NoIndex
    <3>4. new \in [first : Nat, rows : Seq(Nat \X Nat)]
      BY <1>5, <3>1, <3>2, <3>3
    <3>5. new.first = FirstOf(sh, record)
      BY <3>2 DEF FirstOf, old
    <3> QED
      BY <2>2, <3>2, <3>3, <3>4, <3>5 DEF NoIndex
  <2> QED
    BY <2>1, <2>2
<1>7. /\ expect'[sh] = expect[sh] + Len(mine) /\ expect'[sh] \in Nat
  <2>1. expect'[sh] = expect[sh] + Len(new.rows) - Len(old.rows)
    BY DEF new, old, Handed
  <2>2. Len(new.rows) = Len(old.rows) + Len(mine)
    BY <1>5, <1>6
  <2>3. expect[sh] \in Nat
    BY <1>2
  <2>4. ASSUME NEW e \in Nat, NEW a \in Nat, NEW b \in Nat
        PROVE  e + (a + b) - a = e + b /\ e + b \in Nat
    OBVIOUS
  <2>5. /\ expect[sh] + (Len(old.rows) + Len(mine)) - Len(old.rows) = expect[sh] + Len(mine)
        /\ expect[sh] + Len(mine) \in Nat
    BY <1>5, <2>3, <2>4
  <2> QED
    BY <2>1, <2>2, <2>5
<1>8. /\ accum'[sh] = IF sh \in Full(took) THEN Empty ELSE new
      /\ shardFiles'[at][sh] =
           IF sh \in Full(took) THEN Append(shardFiles[at][sh], Record(new.first, new.rows))
           ELSE shardFiles[at][sh]
  BY <1>2 DEF new, Flushed, Handed
<1>9. sh \in Full(took) <=> new # old /\ Len(new.rows) >= TargetRecord
  BY DEF Full, new, old
<1>10. CASE sh \in Full(took)
  <2>1. mine # <<>> /\ new.first \in Nat \ {0} /\ new.first = FirstOf(sh, record)
    BY <1>6, <1>9, <1>10
  <2>2. Record(new.first, new.rows) \in RecordType
    BY <1>5, <1>6, <2>1, RecordFields
  <2>3. accum'[sh] = Empty /\ Empty \in [first : Nat, rows : Seq(Nat \X Nat)]
    BY <1>8, <1>10 DEF Empty, NoIndex
  <2>4. shardFiles'[at][sh] = Append(shardFiles[at][sh], Record(new.first, new.rows))
    BY <1>8, <1>10
  <2>5. shardFiles[at][sh] \in Seq(RecordType)
    BY <1>2
  <2>6. shardFiles'[at][sh] \in Seq(RecordType)
    <3>1. \A x \in RecordType : Append(shardFiles[at][sh], x) \in Seq(RecordType)
      BY <2>5, ToSetAppend
    <3> QED
      BY <2>2, <2>4, <3>1
  <2>7. Given(sh, record, mine)
    BY <1>6, <1>7, <2>1, <2>3, <2>4 DEF Given, old
  <2> QED
    BY <1>7, <2>3, <2>6, <2>7 DEF mine
<1>11. CASE sh \notin Full(took)
  <2>1. accum'[sh] = new /\ shardFiles'[at][sh] = shardFiles[at][sh]
    BY <1>8, <1>11
  <2>2. Len(new.rows) < TargetRecord
    <3>1. Len(new.rows) \in Nat /\ TargetRecord \in Nat
      BY <1>5, <1>6, BufferingAssumption
    <3>2. new = old \/ ~(Len(new.rows) >= TargetRecord)
      BY <1>9, <1>11
    <3> QED
      BY <1>2, <3>1, <3>2
  <2>3. shardFiles[at][sh] \in Seq(RecordType)
    BY <1>2
  <2>4. Given(sh, record, mine)
    BY <1>6, <1>7, <2>1, <2>2 DEF Given, old
  <2> QED
    BY <1>6, <1>7, <2>1, <2>3, <2>4 DEF mine
<1> QED
  BY <1>10, <1>11

(* A step of the split does what SplitRecordFacts says. *)
LEMMA SplitRecordGives ==
  ASSUME IInv, SplitRecord
  PROVE  SplitRecordFacts
<1> DEFINE n == Pick
            took == [s \in Shard |-> Taking(s, HeadOf(n))]
            spent == cursor[n] + 1 = Len(sinkFiles[at][n])
<1>1. /\ phase = "split" /\ Live # {}
      /\ expect' = [s \in Shard |-> expect[s] + Len(took[s].rows) - Len(accum[s].rows)]
      /\ accum' = [s \in Shard |-> IF s \in Full(took) THEN Empty ELSE took[s]]
      /\ shardFiles' = [shardFiles EXCEPT ![at] = Flushed(shardFiles[at], Full(took), took)]
      /\ cursor' = [cursor EXCEPT ![n] = IF spent THEN 0 ELSE cursor[n] + 1]
      /\ sinkFiles' = IF spent THEN [sinkFiles EXCEPT ![at][n] = <<>>] ELSE sinkFiles
      /\ UNCHANGED <<given, phase, error, sinking, handle, sdk, sweeps, shards, at, read>>
  BY DEF SplitRecord
<1>2. /\ UNCHANGED <<setting, input, phase, error, taken, holding, ran, handle, store, counts>>
      /\ UNCHANGED <<losses, sweeps, shards, at, read>>
  BY <1>1 DEF given, sinking, sdk
<1>3. /\ n \in Live /\ n \in Names /\ HeadOf(n) \in RecordType
      /\ cursor[n] + 1 \in 1 .. Len(sinkFiles[at][n])
  BY <1>1, PickLive
<1>4. /\ at \in Temp /\ cursor \in [Names -> Nat]
      /\ sinkFiles \in [Temp -> [Names -> Seq(RecordType)]]
      /\ shardFiles \in [Temp -> [Shard -> Seq(RecordType)]]
  BY DEF IInv, TypeOK
<1> DEFINE record == HeadOf(n)
<1>5. Handed(took, record)
  BY <1>1 DEF Handed
<1> HIDE DEF took, n
<1>6. record \in RecordType
  BY <1>3
<1> HIDE DEF record
<1>7. ASSUME NEW sh \in Shard
      PROVE  /\ Given(sh, record, OfShard(record.rows, sh))
             /\ expect'[sh] \in Nat
             /\ accum'[sh] \in [first : Nat, rows : Seq(Nat \X Nat)]
             /\ shardFiles'[at][sh] \in Seq(RecordType)
  BY <1>5, <1>6, ShardStep
<1>8. /\ expect' \in [Shard -> Nat]
      /\ accum' \in [Shard -> [first : Nat, rows : Seq(Nat \X Nat)]]
  <2>1. DOMAIN expect' = Shard /\ DOMAIN accum' = Shard
    BY <1>1
  <2>2. expect' = [s \in Shard |-> expect'[s]] /\ accum' = [s \in Shard |-> accum'[s]]
    BY <1>1
  <2> QED
    BY <1>7, <2>2
<1>9. /\ shardFiles' \in [Temp -> [Shard -> Seq(RecordType)]]
      /\ \A t \in Temp \ {at} : shardFiles'[t] = shardFiles[t]
  <2> DEFINE files == Flushed(shardFiles[at], Full(took), took)
  <2>1. files = [s \in Shard |-> files[s]]
    BY DEF Flushed
  <2>2. shardFiles'[at] = files
    BY <1>1, <1>4
  <2> HIDE DEF files
  <2>3. files \in [Shard -> Seq(RecordType)]
    BY <1>7, <2>1, <2>2
  <2>4. shardFiles' = [shardFiles EXCEPT ![at] = files]
    BY <1>1 DEF files
  <2> QED
    BY <1>4, <2>3, <2>4
<1>10. cursor' \in [Names -> Nat]
  <2>1. (IF spent THEN 0 ELSE cursor[n] + 1) \in Nat
    BY <1>3, <1>4
  <2> QED
    BY <1>1, <1>4, <2>1
<1>11. /\ sinkFiles' \in [Temp -> [Names -> Seq(RecordType)]]
       /\ \A u \in Temp \ {at} : sinkFiles'[u] = sinkFiles[u]
       /\ ReadOn(n)
  <2>1. CASE spent
    <3>1. sinkFiles' = [sinkFiles EXCEPT ![at][n] = <<>>] /\ cursor' = [cursor EXCEPT ![n] = 0]
      BY <1>1, <2>1
    <3>2. <<>> \in Seq(RecordType)
      OBVIOUS
    <3>3. /\ sinkFiles' \in [Temp -> [Names -> Seq(RecordType)]]
          /\ \A u \in Temp \ {at} : sinkFiles'[u] = sinkFiles[u]
          /\ sinkFiles'[at][n] = <<>>
          /\ \A m \in Names \ {n} : sinkFiles'[at][m] = sinkFiles[at][m]
      BY <1>3, <1>4, <3>1, <3>2
    <3>4. cursor'[n] = 0 /\ \A m \in Names \ {n} : cursor'[m] = cursor[m]
      BY <1>3, <1>4, <3>1
    <3> QED
      BY <2>1, <3>3, <3>4 DEF ReadOn
  <2>2. CASE ~spent
    <3>1. sinkFiles' = sinkFiles /\ cursor' = [cursor EXCEPT ![n] = cursor[n] + 1]
      BY <1>1, <2>2
    <3>2. cursor'[n] = cursor[n] + 1 /\ \A m \in Names \ {n} : cursor'[m] = cursor[m]
      BY <1>3, <1>4, <3>1
    <3>3. cursor[n] + 1 < Len(sinkFiles[at][n])
      <4>1. Len(sinkFiles[at][n]) \in Nat /\ cursor[n] \in Nat
        BY <1>3, <1>4
      <4> QED
        BY <1>3, <2>2, <4>1
    <3> QED
      BY <1>4, <3>1, <3>2, <3>3 DEF ReadOn
  <2> QED
    BY <2>1, <2>2
<1>12. \A sh \in Shard : Given(sh, HeadOf(n), OfShard(HeadOf(n).rows, sh))
  BY <1>7 DEF record
<1> QED
  BY <1>1, <1>2, <1>3, <1>8, <1>9, <1>10, <1>11, <1>12 DEF SplitRecordFacts, n

(* The head of a sink file holds a batch of the input, and its rows are of  *)
(* the shares of their shards; none is of a shard that nobody reads.        *)
LEMMA HeadShares ==
  ASSUME IInv, phase = "split", NEW n \in Live, HeadOf(n) \in RecordType, NEW sh \in Shard
  PROVE  /\ OfInput(HeadOf(n))
         /\ ToSet(OfShard(HeadOf(n).rows, sh)) \subseteq Share(sh)
         /\ OfShard(HeadOf(n).rows, sh) \in Seq(Nat \X Nat)
         /\ sh \notin Producers => OfShard(HeadOf(n).rows, sh) = <<>>
<1> DEFINE record == HeadOf(n)
            mine == OfShard(record.rows, sh)
<1>1. n \in Names /\ cursor[n] < Len(sinkFiles[at][n]) /\ at \in Temp
      /\ sinkFiles[at][n] \in Seq(RecordType) /\ cursor[n] \in Nat
  BY DEF Live, IInv, TypeOK
<1>2. cursor[n] + 1 \in DOMAIN sinkFiles[at][n]
  BY <1>1
<1>3. record \in ToSet(sinkFiles[at][n])
  BY <1>2 DEF ToSet, HeadOf
<1>4. OfInput(record)
  BY <1>1, <1>3 DEF IInv, OwnRecords
<1>5. PICK k \in 1 .. Len(input) : record = Record(k, Rows(k))
  BY <1>4 DEF OfInput
<1>6. input \in Inputs /\ shards \in Nat \ {0}
  BY SpoolAssumption DEF IInv, TypeOK
<1>7. record.rows = Rows(k) /\ Rows(k) \in Seq(Nat \X Nat)
      /\ \A row \in ToSet(Rows(k)) : Hash[KeyOf(row)] \in Nat
  BY <1>5, <1>6, InputFields
<1> HIDE DEF record, mine
<1>8. /\ mine \in Seq(Nat \X Nat)
      /\ \A x : x \in ToSet(mine) <=> x \in ToSet(Rows(k)) /\ ShardOf(x) = sh
  BY <1>7, OfShardProperties DEF mine
<1>9. ToSet(mine) \subseteq Share(sh)
  BY <1>8 DEF Share
<1>10. ASSUME sh \notin Producers
       PROVE  mine = <<>>
  <2>1. SUFFICES ASSUME mine # <<>>
                 PROVE  FALSE
    OBVIOUS
  <2>2. mine[1] \in ToSet(mine)
    BY <1>8, <2>1 DEF ToSet
  <2>3. Hash[KeyOf(mine[1])] \in Nat /\ ShardOf(mine[1]) = sh
    BY <1>7, <1>8, <2>2
  <2>4. Hash[KeyOf(mine[1])] % shards \in 0 .. shards - 1
    BY <1>6, <2>3
  <2> QED
    BY <1>10, <2>3, <2>4 DEF ShardOf, Producers
<1> QED
  BY <1>4, <1>8, <1>9, <1>10 DEF record, mine

(* A step of the split hands rows to their own shards. *)
LEMMA SplitRecordKeeps ==
  ASSUME IInv, SplitRecord
  PROVE  IInv'
<1> DEFINE n == Pick
            record == HeadOf(n)
            mine(sh) == OfShard(record.rows, sh)
<1>1. SplitRecordFacts
  BY SplitRecordGives
<1>2. /\ phase = "split" /\ n \in Live /\ ReadOn(n)
      /\ UNCHANGED <<setting, input, phase, error, taken, holding, ran, handle, store, counts>>
      /\ UNCHANGED <<losses, sweeps, shards, at, read>>
      /\ expect' \in [Shard -> Nat] /\ cursor' \in [Names -> Nat]
      /\ accum' \in [Shard -> [first : Nat, rows : Seq(Nat \X Nat)]]
      /\ sinkFiles' \in [Temp -> [Names -> Seq(RecordType)]]
      /\ shardFiles' \in [Temp -> [Shard -> Seq(RecordType)]]
      /\ \A t \in Temp \ {at} : sinkFiles'[t] = sinkFiles[t] /\ shardFiles'[t] = shardFiles[t]
      /\ \A sh \in Shard : Given(sh, record, mine(sh))
  BY <1>1 DEF SplitRecordFacts
<1>3. /\ Names' = Names /\ Sharded' = Sharded /\ Producers' = Producers
      /\ \A sh : Share(sh)' = Share(sh)
      /\ \A r : OfInput(r)' = OfInput(r)
  BY <1>2, GivenSame
<1>4. n \in Names /\ record \in RecordType /\ at \in Temp
  BY <1>2, PickLive DEF IInv, TypeOK
<1>5. ASSUME NEW sh \in Shard
      PROVE  /\ ToSet(mine(sh)) \subseteq Share(sh) /\ mine(sh) \in Seq(Nat \X Nat)
             /\ sh \notin Producers => mine(sh) = <<>>
  BY <1>2, <1>4, HeadShares
<1> HIDE DEF n, record, mine
<1>6. ASSUME NEW sh \in Shard
      PROVE  /\ accum[sh].rows \in Seq(Nat \X Nat) /\ accum[sh].rows \o mine(sh) \in Seq(Nat \X Nat)
             /\ ToSet(accum[sh].rows) \subseteq Share(sh)
             /\ \A x \in ToSet(accum[sh].rows \o mine(sh)) : x \in Share(sh)
             /\ shardFiles[at][sh] \in Seq(RecordType)
  <2>1. accum[sh].rows \in Seq(Nat \X Nat) /\ shardFiles[at][sh] \in Seq(RecordType)
    BY <1>4 DEF IInv, TypeOK
  <2>2. ToSet(accum[sh].rows) \subseteq Share(sh)
    BY DEF IInv, OwnShares
  <2> QED
    BY <1>5, <2>1, <2>2, ToSetConcat
<1>7. TypeOK'
  BY <1>2, <1>3 DEF IInv, TypeOK
<1>8. OwnRecords'
  <2>1. ASSUME NEW u \in Temp, NEW m \in Names, NEW x \in ToSet(sinkFiles'[u][m])
        PROVE  OfInput(x)
    <3>1. sinkFiles'[u][m] = sinkFiles[u][m] \/ sinkFiles'[u][m] = <<>>
      BY <1>2 DEF ReadOn
    <3> QED
      BY <2>1, <3>1, ToSetEmpty DEF IInv, OwnRecords
  <2> QED
    BY <1>2, <1>3, <2>1 DEF IInv, OwnRecords
<1>9. OwnShares'
  <2>1. ASSUME NEW sh \in Shard
        PROVE  ToSet(accum'[sh].rows) \subseteq Share(sh)
    <3>1. Given(sh, record, mine(sh))
      BY <1>2
    <3>2. accum'[sh].rows = accum[sh].rows \o mine(sh) \/ accum'[sh].rows = <<>>
      BY <3>1 DEF Given, Empty
    <3> QED
      BY <1>6, <3>2, ToSetEmpty
  <2>2. ASSUME NEW sh \in Shard, NEW u \in Temp, NEW r \in ToSet(shardFiles'[u][sh])
        PROVE  ToSet(r.rows) \subseteq Share(sh)
    <3>1. CASE shardFiles'[u][sh] = shardFiles[u][sh]
      BY <2>2, <3>1 DEF IInv, OwnShares
    <3>2. CASE shardFiles'[u][sh] # shardFiles[u][sh]
      <4> DEFINE new == Record(FirstOf(sh, record), accum[sh].rows \o mine(sh))
      <4>1. u = at
        BY <1>2, <3>2
      <4>2. Given(sh, record, mine(sh))
        BY <1>2
      <4>3. FirstOf(sh, record) \in Nat \ {0} /\ shardFiles'[at][sh] = Append(shardFiles[at][sh], new)
        BY <3>2, <4>1, <4>2 DEF Given
      <4>4. new \in RecordType /\ new.rows = accum[sh].rows \o mine(sh)
        BY <1>6, <4>3, RecordFields
      <4> HIDE DEF new
      <4>5. shardFiles[at][sh] \in Seq(RecordType)
        BY <1>6
      <4>6. r \in ToSet(shardFiles[at][sh]) \/ r = new
        BY <2>2, <4>1, <4>3, <4>4, <4>5, ToSetAppend
      <4>7. CASE r = new
        BY <1>6, <4>4, <4>7
      <4>8. CASE r \in ToSet(shardFiles[at][sh])
        BY <1>4, <4>8 DEF IInv, OwnShares
      <4> QED
        BY <4>6, <4>7, <4>8
    <3> QED
      BY <3>1, <3>2
  <2> QED
    BY <1>3, <2>1, <2>2 DEF OwnShares
<1>10. AccumOK'
  <2>1. ASSUME NEW sh \in Shard
        PROVE  /\ Len(accum'[sh].rows) < TargetRecord
               /\ accum'[sh].rows # <<>> => accum'[sh].first # NoIndex
    <3>1. Given(sh, record, mine(sh))
      BY <1>2
    <3>2. Len(<<>>) < TargetRecord /\ Empty.rows = <<>>
      BY BufferingAssumption DEF Empty
    <3> QED
      BY <3>1, <3>2 DEF Given
  <2> QED
    BY <2>1 DEF AccumOK
<1>11. Sharded
  BY <1>2 DEF IInv, PhaseOK, SplitPhase
<1>12. Unsplit'
  BY <1>3, <1>11 DEF Unsplit
<1>13. IdleShards'
  <2>1. ASSUME NEW sh \in Shard \ Producers
        PROVE  accum'[sh] = Empty /\ \A u \in Temp : shardFiles'[u][sh] = <<>>
    <3>1. accum[sh] = Empty /\ \A u \in Temp : shardFiles[u][sh] = <<>>
      BY DEF IInv, PhaseOK, IdleShards
    <3>2. Given(sh, record, mine(sh)) /\ mine(sh) = <<>>
      BY <1>2, <1>5
    <3>3. accum'[sh] = accum[sh] /\ shardFiles'[at][sh] = shardFiles[at][sh]
      BY <3>2 DEF Given
    <3> QED
      BY <1>2, <3>1, <3>3
  <2> QED
    BY <1>3, <2>1 DEF IdleShards
<1>14. SinkPhase' /\ ProducePhase'
  BY <1>2 DEF SinkPhase, ProducePhase
<1>15. SplitPhase'
  <2>1. /\ store[at] = <<>> /\ \A sh \in Shard : read[sh].state = "none"
        /\ \A m \in Names : cursor[m] < Len(sinkFiles[at][m]) \/ sinkFiles[at][m] = <<>>
    BY <1>2 DEF IInv, PhaseOK, SplitPhase
  <2>2. \A m \in Names : cursor'[m] < Len(sinkFiles'[at][m]) \/ sinkFiles'[at][m] = <<>>
    BY <1>2, <2>1 DEF ReadOn
  <2> QED
    BY <1>2, <1>3, <1>11, <2>1, <2>2 DEF SplitPhase
<1> QED
  BY <1>7, <1>8, <1>9, <1>10, <1>12, <1>13, <1>14, <1>15 DEF IInv, PhaseOK

(* The end of the split: what waited is written. *)
SplitEndsFacts ==
  /\ phase = "split" /\ phase' = "produce"
  /\ UNCHANGED <<setting, input, error, taken, holding, ran, sinkFiles, handle, store, counts>>
  /\ UNCHANGED <<losses, sweeps, shards, expect, at, cursor, read>>
  /\ accum' = [sh \in Shard |-> Empty]
  /\ shardFiles' \in [Temp -> [Shard -> Seq(RecordType)]]
  /\ \A t \in Temp \ {at} : shardFiles'[t] = shardFiles[t]
  /\ \A sh \in Shard :
       \/ accum[sh].rows = <<>> /\ shardFiles'[at][sh] = shardFiles[at][sh]
       \/ /\ accum[sh].rows # <<>> /\ accum[sh].first \in Nat \ {0}
          /\ shardFiles'[at][sh] =
               Append(shardFiles[at][sh], Record(accum[sh].first, accum[sh].rows))
  /\ \A n \in Names : sinkFiles[at][n] = <<>>

(* The end of the split does what SplitEndsFacts says. *)
LEMMA SplitEndsGives ==
  ASSUME IInv, SplitEnds
  PROVE  SplitEndsFacts
<1> DEFINE rest == {sh \in Shard : accum[sh].rows # <<>>}
            files == Flushed(shardFiles[at], rest, accum)
<1>1. /\ phase = "split" /\ Live = {}
      /\ shardFiles' = [shardFiles EXCEPT ![at] = files]
      /\ accum' = [sh \in Shard |-> Empty]
      /\ phase' = "produce"
      /\ UNCHANGED <<given, error, sinking, sinkFiles, handle, sdk, sweeps, shards, expect>>
      /\ UNCHANGED <<at, cursor, read>>
  BY DEF SplitEnds
<1>2. /\ UNCHANGED <<setting, input, error, taken, holding, ran, sinkFiles, handle, store, counts>>
      /\ UNCHANGED <<losses, sweeps, shards, expect, at, cursor, read>>
  BY <1>1 DEF given, sinking, sdk
<1>3. /\ at \in Temp /\ shardFiles \in [Temp -> [Shard -> Seq(RecordType)]]
      /\ accum \in [Shard -> [first : Nat, rows : Seq(Nat \X Nat)]]
  BY DEF IInv, TypeOK
<1>4. files = [sh \in Shard |->
                 IF sh \in rest THEN Append(shardFiles[at][sh], Record(accum[sh].first, accum[sh].rows))
                 ELSE shardFiles[at][sh]]
  BY DEF Flushed
<1> HIDE DEF files
<1>5. ASSUME NEW sh \in Shard
      PROVE  /\ files[sh] \in Seq(RecordType)
             /\ \/ accum[sh].rows = <<>> /\ files[sh] = shardFiles[at][sh]
                \/ /\ accum[sh].rows # <<>> /\ accum[sh].first \in Nat \ {0}
                   /\ files[sh] = Append(shardFiles[at][sh], Record(accum[sh].first, accum[sh].rows))
  <2>1. shardFiles[at][sh] \in Seq(RecordType)
    BY <1>3
  <2>2. CASE accum[sh].rows = <<>>
    BY <1>4, <2>1, <2>2
  <2>3. CASE accum[sh].rows # <<>>
    <3>1. files[sh] = Append(shardFiles[at][sh], Record(accum[sh].first, accum[sh].rows))
      BY <1>4, <2>3
    <3>2. accum[sh].first \in Nat \ {0} /\ accum[sh].rows \in Seq(Nat \X Nat)
      BY <1>3, <2>3 DEF IInv, AccumOK, NoIndex
    <3>3. Record(accum[sh].first, accum[sh].rows) \in RecordType
      BY <3>2, RecordFields
    <3>4. \A x \in RecordType : Append(shardFiles[at][sh], x) \in Seq(RecordType)
      BY <2>1, ToSetAppend
    <3> QED
      BY <2>3, <3>1, <3>2, <3>3, <3>4
  <2> QED
    BY <2>2, <2>3
<1>6. files \in [Shard -> Seq(RecordType)]
  <2>1. files = [sh \in Shard |-> files[sh]]
    BY <1>4
  <2> QED
    BY <1>5, <2>1
<1>7. /\ shardFiles' \in [Temp -> [Shard -> Seq(RecordType)]]
      /\ \A t \in Temp \ {at} : shardFiles'[t] = shardFiles[t]
      /\ shardFiles'[at] = files
  BY <1>1, <1>3, <1>6
<1>8. \A n \in Names : sinkFiles[at][n] = <<>>
  BY <1>1 DEF Live, IInv, PhaseOK, SplitPhase
<1> QED
  BY <1>1, <1>2, <1>5, <1>7, <1>8 DEF SplitEndsFacts

(* The end of the split leaves nothing waiting. *)
LEMMA SplitEndsKeeps ==
  ASSUME IInv, SplitEnds
  PROVE  IInv'
<1>1. SplitEndsFacts
  BY SplitEndsGives
<1>2. /\ Names' = Names /\ Sharded' = Sharded /\ Producers' = Producers
      /\ \A sh : Share(sh)' = Share(sh)
      /\ \A r : OfInput(r)' = OfInput(r)
  BY <1>1, GivenSame DEF SplitEndsFacts
<1>3. /\ Sharded /\ store[at] = <<>> /\ \A sh \in Shard : read[sh].state = "none"
  BY <1>1 DEF SplitEndsFacts, IInv, PhaseOK, SplitPhase
<1>4. Empty \in [first : Nat, rows : Seq(Nat \X Nat)] /\ Empty.rows = <<>> /\ Len(<<>>) < TargetRecord
  BY BufferingAssumption DEF Empty, NoIndex
<1>5. TypeOK'
  <2>1. accum' \in [Shard -> [first : Nat, rows : Seq(Nat \X Nat)]]
    BY <1>1, <1>4 DEF SplitEndsFacts
  <2>2. error # "none" <=> phase' = "failed"
    BY <1>1 DEF SplitEndsFacts, IInv, TypeOK
  <2> QED
    BY <1>1, <1>2, <2>1, <2>2 DEF SplitEndsFacts, IInv, TypeOK
<1>6. OwnRecords'
  BY <1>1, <1>2 DEF SplitEndsFacts, IInv, OwnRecords
<1>7. OwnShares'
  <2>1. ASSUME NEW sh \in Shard
        PROVE  ToSet(accum'[sh].rows) \subseteq Share(sh)
    BY <1>1, <1>4, ToSetEmpty DEF SplitEndsFacts
  <2>2. ASSUME NEW sh \in Shard, NEW u \in Temp, NEW r \in ToSet(shardFiles'[u][sh])
        PROVE  ToSet(r.rows) \subseteq Share(sh)
    <3>1. CASE shardFiles'[u][sh] = shardFiles[u][sh]
      BY <2>2, <3>1 DEF IInv, OwnShares
    <3>2. CASE shardFiles'[u][sh] # shardFiles[u][sh]
      <4> DEFINE new == Record(accum[sh].first, accum[sh].rows)
      <4>1. u = at
        BY <1>1, <3>2 DEF SplitEndsFacts
      <4>2. /\ accum[sh].first \in Nat \ {0}
            /\ shardFiles'[at][sh] = Append(shardFiles[at][sh], new)
        BY <1>1, <3>2, <4>1 DEF SplitEndsFacts
      <4>3. accum[sh].rows \in Seq(Nat \X Nat) /\ shardFiles[at][sh] \in Seq(RecordType) /\ at \in Temp
        BY DEF IInv, TypeOK
      <4>4. new \in RecordType /\ new.rows = accum[sh].rows
        BY <4>2, <4>3, RecordFields
      <4> HIDE DEF new
      <4>5. r \in ToSet(shardFiles[at][sh]) \/ r = new
        BY <2>2, <4>1, <4>2, <4>3, <4>4, ToSetAppend
      <4> QED
        BY <4>3, <4>4, <4>5 DEF IInv, OwnShares
    <3> QED
      BY <3>1, <3>2
  <2> QED
    BY <1>2, <2>1, <2>2 DEF OwnShares
<1>8. AccumOK'
  BY <1>1, <1>4 DEF SplitEndsFacts, AccumOK
<1>9. Unsplit' /\ SinkPhase' /\ SplitPhase'
  BY <1>1, <1>2, <1>3 DEF SplitEndsFacts, Unsplit, SinkPhase, SplitPhase
<1>10. IdleShards'
  <2>1. ASSUME NEW sh \in Shard \ Producers
        PROVE  accum'[sh] = Empty /\ \A u \in Temp : shardFiles'[u][sh] = <<>>
    <3>1. accum[sh] = Empty /\ \A u \in Temp : shardFiles[u][sh] = <<>>
      BY DEF IInv, PhaseOK, IdleShards
    <3> QED
      BY <1>1, <1>4, <3>1 DEF SplitEndsFacts
  <2> QED
    BY <1>2, <2>1 DEF IdleShards
<1>11. ProducePhase'
  <2>1. 0 \in Producers
    BY <1>3, SpoolAssumption DEF IInv, TypeOK, Producers
  <2>2. Producers \subseteq Shard
    BY SpoolAssumption DEF IInv, TypeOK, Producers, Shard
  <2> QED
    BY <1>1, <1>2, <1>3, <2>1, <2>2 DEF SplitEndsFacts, ProducePhase
<1> QED
  BY <1>5, <1>6, <1>7, <1>8, <1>9, <1>10, <1>11 DEF IInv, PhaseOK

(* A split that fails fails the query and nothing else. *)
LEMMA SplitFailsKeeps ==
  ASSUME IInv, SplitFails
  PROVE  IInv'
<1>1. /\ phase' = "failed" /\ error' = "write"
      /\ UNCHANGED <<given, sinking, disk, sdk, sweeps, splitVars, read>>
  BY DEF SplitFails
<1>2. /\ UNCHANGED <<setting, input, taken, holding, ran, sinkFiles, shardFiles, handle>>
      /\ UNCHANGED <<store, counts, losses, sweeps, shards, expect, at, cursor, accum, read>>
  BY <1>1 DEF given, sinking, disk, sdk, splitVars
<1>3. Names' = Names /\ \A r : OfInput(r)' = OfInput(r)
  BY <1>2, GivenSame
<1>4. TypeOK'
  BY <1>1, <1>2, <1>3 DEF IInv, TypeOK
<1>5. OwnRecords'
  BY <1>2, <1>3 DEF IInv, OwnRecords
<1>6. OwnShares' /\ AccumOK' /\ Unsplit' /\ IdleShards'
  BY <1>1, <1>2, ShardsFramed
<1>7. PhaseOK'
  BY <1>1, <1>2, <1>6, PhasesFramed
<1> QED
  BY <1>4, <1>5, <1>6, <1>7 DEF IInv


-----------------------------------------------------------------------------
(* The producers keep it.                                                   *)

(* What a producer reads are records. *)
LEMMA CollectedTyped ==
  ASSUME IInv, NEW t \in Temp, NEW sh \in Shard
  PROVE  /\ Spooled(t, sh) \in Seq(RecordType) /\ Collected(t, sh) \in Seq(RecordType)
         /\ store[t] \in Seq(RecordType)
         /\ NumRows(Collected(t, sh)) = NumRows(Spooled(t, sh)) + NumRows(store[t])
         /\ RowsOf(Buffered(t, sh)) \in Seq(Nat \X Nat)
         /\ \A x : x \in ToSet(RowsOf(Buffered(t, sh)))
                     <=> \E r \in ToSet(Spooled(t, sh)) \cup ToSet(store[t]) : x \in ToSet(r.rows)
<1>1. /\ sinkFiles[t] \in [Names -> Seq(RecordType)] /\ shardFiles[t][sh] \in Seq(RecordType)
      /\ store[t] \in Seq(RecordType) /\ Names \in SUBSET Nat
  BY SettingFields, SMTT(30) DEF IInv, TypeOK
<1>2. Spooled(t, sh) \in Seq(RecordType)
  BY <1>1, SinkRecordsMembers DEF Spooled
<1> DEFINE all == Collected(t, sh)
            spool == Spooled(t, sh)
            kept == store[t]
<1>3. all = spool \o kept
  BY DEF Collected
<1>4. Buffered(t, sh) = ByIndex(all)
  BY DEF Buffered
<1> HIDE DEF all, spool, kept
<1>5. spool \in Seq(RecordType) /\ kept \in Seq(RecordType)
  BY <1>1, <1>2 DEF spool, kept
<1>6. /\ all \in Seq(RecordType)
      /\ \A r : r \in ToSet(all) <=> r \in ToSet(spool) \/ r \in ToSet(kept)
      /\ NumRows(all) = NumRows(spool) + NumRows(kept)
  BY <1>3, <1>5, ToSetConcat, NumRowsConcat
<1> DEFINE sorted == ByIndex(all)
<1>7. sorted \in Seq(RecordType) /\ \A r : r \in ToSet(sorted) <=> r \in ToSet(all)
  BY <1>6, ByIndexMembers
<1> HIDE DEF sorted
<1>8. /\ RowsOf(sorted) \in Seq(Nat \X Nat)
      /\ \A x : x \in ToSet(RowsOf(sorted))
                  <=> \E k \in 1 .. Len(sorted) : x \in ToSet(sorted[k].rows)
  BY <1>7, RowsOfMembers
<1>9. \A r : r \in ToSet(sorted) <=> \E k \in 1 .. Len(sorted) : r = sorted[k]
  BY <1>7 DEF ToSet
<1>10. \A x : x \in ToSet(RowsOf(sorted))
                <=> \E r \in ToSet(spool) \cup ToSet(kept) : x \in ToSet(r.rows)
  <2>1. \A x : (\E k \in 1 .. Len(sorted) : x \in ToSet(sorted[k].rows))
                 <=> \E r \in ToSet(sorted) : x \in ToSet(r.rows)
    BY <1>9
  <2> QED
    BY <1>6, <1>7, <1>8, <2>1
<1> QED
  BY <1>4, <1>5, <1>6, <1>8, <1>10 DEF all, spool, kept, sorted

(* Reading back changes only what its producer holds. *)
LEMMA ReadBackKeeps ==
  ASSUME IInv, NEW t \in Temp, NEW sh \in Shard, ReadBack(t, sh)
  PROVE  IInv'
<1> DEFINE rows == RowsOf(Buffered(t, sh))
<1>1. /\ phase = "produce" /\ sh \in Producers /\ read[sh].state # "ended"
      /\ read' = [read EXCEPT ![sh] = [state |-> "ok", rows |-> rows]]
      /\ UNCHANGED <<spoolVars, splitVars>>
  BY DEF ReadBack
<1>2. rows \in Seq(Nat \X Nat)
  BY CollectedTyped
<1> HIDE DEF rows
<1>3. /\ UNCHANGED <<setting, input, phase, error, taken, holding, ran, sinkFiles, shardFiles>>
      /\ UNCHANGED <<handle, store, counts, losses, sweeps, shards, expect, at, cursor, accum>>
  BY <1>1 DEF spoolVars, given, sinking, disk, sdk, splitVars
<1>4. /\ Names' = Names /\ Sharded' = Sharded /\ Producers' = Producers
      /\ \A r : OfInput(r)' = OfInput(r)
  BY <1>3, GivenSame
<1>5. read' \in [Shard -> [state : {"none", "ok", "ended"}, rows : Seq(Nat \X Nat)]]
  BY <1>1, <1>2 DEF IInv, TypeOK
<1>6. \A p \in Shard : read'[p].state = IF p = sh THEN "ok" ELSE read[p].state
  BY <1>1 DEF IInv, TypeOK
<1>7. TypeOK'
  BY <1>3, <1>4, <1>5 DEF IInv, TypeOK
<1>8. OwnRecords'
  BY <1>3, <1>4 DEF IInv, OwnRecords
<1>9. OwnShares' /\ AccumOK' /\ Unsplit' /\ IdleShards'
  BY <1>3, ShardsFramed DEF given, splitVars
<1>10. SinkPhase' /\ SplitPhase'
  BY <1>1, <1>3 DEF SinkPhase, SplitPhase
<1>11. ProducePhase'
  <2>1. Producers \subseteq Shard
    BY SpoolAssumption DEF IInv, TypeOK, Producers, Shard
  <2>2. /\ \A p \in Shard : accum[p] = Empty
        /\ Sharded => (store[at] = <<>> /\ \A n \in Names : sinkFiles[at][n] = <<>>)
        /\ \A p \in Shard \ Producers : read[p].state = "none"
    BY <1>1 DEF IInv, PhaseOK, ProducePhase
  <2>3. \A p \in Shard \ Producers : read'[p].state = "none"
    BY <1>1, <1>6, <2>2
  <2>4. ~(phase' = "done") /\ ~(\A p \in Producers : read'[p].state = "ended")
    BY <1>1, <1>3, <1>6
  <2> QED
    BY <1>3, <1>4, <2>2, <2>3, <2>4 DEF ProducePhase
<1> QED
  BY <1>7, <1>8, <1>9, <1>10, <1>11 DEF IInv, PhaseOK

(* A relation that is refused fails the query and nothing else. *)
LEMMA ReadFailsKeeps ==
  ASSUME IInv, NEW t \in Temp, NEW sh \in Shard, ReadFails(t, sh)
  PROVE  IInv'
<1>1. /\ phase' = "failed" /\ error' = "read"
      /\ UNCHANGED <<given, sinking, disk, sdk, sweeps, splitVars, read>>
  BY DEF ReadFails
<1>2. /\ UNCHANGED <<setting, input, taken, holding, ran, sinkFiles, shardFiles, handle>>
      /\ UNCHANGED <<store, counts, losses, sweeps, shards, expect, at, cursor, accum, read>>
  BY <1>1 DEF given, sinking, disk, sdk, splitVars
<1>3. Names' = Names /\ \A r : OfInput(r)' = OfInput(r)
  BY <1>2, GivenSame
<1>4. TypeOK'
  BY <1>1, <1>2, <1>3 DEF IInv, TypeOK
<1>5. OwnRecords'
  BY <1>2, <1>3 DEF IInv, OwnRecords
<1>6. OwnShares' /\ AccumOK' /\ Unsplit' /\ IdleShards'
  BY <1>1, <1>2, ShardsFramed
<1>7. PhaseOK'
  BY <1>1, <1>2, <1>6, PhasesFramed
<1> QED
  BY <1>4, <1>5, <1>6, <1>7 DEF IInv

(* What the end of a producer does: it leaves nothing of its own behind.    *)
EndFacts(t, sh) ==
  /\ phase = "produce" /\ sh \in Producers /\ read[sh].state = "ok"
  /\ UNCHANGED <<setting, input, error, taken, holding, ran, store, counts, losses>>
  /\ UNCHANGED <<sweeps, shards, expect, at, cursor, accum>>
  /\ read' \in [Shard -> [state : {"none", "ok", "ended"}, rows : Seq(Nat \X Nat)]]
  /\ \A p \in Shard : /\ read'[p].rows = read[p].rows
                      /\ read'[p].state = IF p = sh THEN "ended" ELSE read[p].state
  /\ sinkFiles' \in [Temp -> [Names -> Seq(RecordType)]]
  /\ shardFiles' \in [Temp -> [Shard -> Seq(RecordType)]]
  /\ handle' \in [Worker -> {"closed", "open", "orphan"}]
  /\ \A u \in Temp : \A n \in Names :
       sinkFiles'[u][n] = IF u = t /\ ~Sharded THEN <<>> ELSE sinkFiles[u][n]
  /\ \A u \in Temp : \A p \in Shard :
       shardFiles'[u][p] = IF u = t /\ (Sharded => p = sh) THEN <<>> ELSE shardFiles[u][p]
  /\ phase' = IF \A p \in Producers : read'[p].state = "ended" THEN "done" ELSE phase

(* The end of a producer does what EndFacts says. *)
LEMMA EndGives ==
  ASSUME IInv, NEW t \in Temp, NEW sh \in Shard, EndOfStream(t, sh)
  PROVE  EndFacts(t, sh)
<1>1. /\ phase = "produce" /\ read[sh].state = "ok"
      /\ read' = [read EXCEPT ![sh].state = "ended"]
      /\ phase' = IF \A p \in Producers : read'[p].state = "ended" THEN "done" ELSE phase
      /\ UNCHANGED <<given, error, sinking, sdk, sweeps, splitVars>>
  BY DEF EndOfStream
<1>2. /\ UNCHANGED <<setting, input, error, taken, holding, ran, store, counts, losses>>
      /\ UNCHANGED <<sweeps, shards, expect, at, cursor, accum>>
  BY <1>1 DEF given, sinking, sdk, splitVars
<1>3. sh \in Producers
  BY <1>1 DEF IInv, PhaseOK, ProducePhase
<1>4. /\ read' \in [Shard -> [state : {"none", "ok", "ended"}, rows : Seq(Nat \X Nat)]]
      /\ \A p \in Shard : /\ read'[p].rows = read[p].rows
                          /\ read'[p].state = IF p = sh THEN "ended" ELSE read[p].state
  BY <1>1 DEF IInv, TypeOK
<1>5. /\ sinkFiles \in [Temp -> [Names -> Seq(RecordType)]]
      /\ shardFiles \in [Temp -> [Shard -> Seq(RecordType)]]
      /\ handle \in [Worker -> {"closed", "open", "orphan"}]
  BY DEF IInv, TypeOK
<1> DEFINE Left ==
      /\ sinkFiles' \in [Temp -> [Names -> Seq(RecordType)]]
      /\ shardFiles' \in [Temp -> [Shard -> Seq(RecordType)]]
      /\ handle' \in [Worker -> {"closed", "open", "orphan"}]
      /\ \A u \in Temp : \A n \in Names :
           sinkFiles'[u][n] = IF u = t /\ ~Sharded THEN <<>> ELSE sinkFiles[u][n]
      /\ \A u \in Temp : \A p \in Shard :
           shardFiles'[u][p] = IF u = t /\ (Sharded => p = sh) THEN <<>> ELSE shardFiles[u][p]
<1>6. Left
  <2>1. CASE Sharded
    <3>1. /\ shardFiles' = [shardFiles EXCEPT ![t][sh] = <<>>]
          /\ sinkFiles' = sinkFiles /\ handle' = handle
      BY <2>1 DEF EndOfStream
    <3>2. <<>> \in Seq(RecordType)
      OBVIOUS
    <3> QED
      BY <1>5, <2>1, <3>1, <3>2, TableUpdate
  <2>2. CASE ~Sharded
    <3>1. /\ sinkFiles' = [sinkFiles EXCEPT ![t] = NoFiles]
          /\ shardFiles' = [shardFiles EXCEPT ![t] = NoShards]
          /\ handle' = Orphaned(t)
      BY <2>2 DEF EndOfStream
    <3> QED
      BY <2>2, <3>1, Unlinked
  <2> QED
    BY <2>1, <2>2
<1> QED
  BY <1>1, <1>2, <1>3, <1>4, <1>6 DEF EndFacts

(* The last producer to end, and no other, finishes the query. *)
LEMMA EndOfStreamKeeps ==
  ASSUME IInv, NEW t \in Temp, NEW sh \in Shard, EndOfStream(t, sh)
  PROVE  IInv'
<1>1. EndFacts(t, sh)
  BY EndGives
<1>2. /\ UNCHANGED <<setting, input, error, taken, holding, ran, store, counts, losses>>
      /\ UNCHANGED <<sweeps, shards, expect, at, cursor, accum>>
      /\ phase = "produce" /\ sh \in Producers
      /\ phase' = IF \A p \in Producers : read'[p].state = "ended" THEN "done" ELSE phase
  BY <1>1 DEF EndFacts
<1>3. /\ Names' = Names /\ Sharded' = Sharded /\ Producers' = Producers
      /\ \A r : OfInput(r)' = OfInput(r)
  BY <1>2, GivenSame
<1>4. TypeOK'
  <2>1. /\ phase' \in {"sink", "split", "produce", "done", "failed"}
        /\ (error # "none" <=> phase' = "failed")
    BY <1>2 DEF IInv, TypeOK
  <2> QED
    BY <1>1, <1>2, <1>3, <2>1 DEF IInv, TypeOK, EndFacts
<1>5. OwnRecords'
  <2>1. \A u \in Temp : \A n \in Names :
          sinkFiles'[u][n] = sinkFiles[u][n] \/ sinkFiles'[u][n] = <<>>
    BY <1>1 DEF EndFacts
  <2> QED
    BY <1>2, <1>3, <2>1, ToSetEmpty DEF IInv, OwnRecords
<1>6. OwnShares' /\ AccumOK' /\ Unsplit' /\ IdleShards'
  <2>1. \A u \in Temp : \A p \in Shard :
          shardFiles'[u][p] = shardFiles[u][p] \/ shardFiles'[u][p] = <<>>
    BY <1>1 DEF EndFacts
  <2> QED
    BY <1>2, <2>1, ShardsFramed DEF given, splitVars
<1>7. SinkPhase' /\ SplitPhase'
  BY <1>2 DEF SinkPhase, SplitPhase
<1>8. ProducePhase'
  <2>1. /\ \A p \in Shard : accum[p] = Empty
        /\ Sharded => (store[at] = <<>> /\ \A n \in Names : sinkFiles[at][n] = <<>>)
        /\ \A p \in Shard \ Producers : read[p].state = "none"
    BY <1>2 DEF IInv, PhaseOK, ProducePhase
  <2>2. \A n \in Names : sinkFiles'[at][n] = sinkFiles[at][n] \/ sinkFiles'[at][n] = <<>>
    BY <1>1 DEF EndFacts, IInv, TypeOK
  <2>3. \A p \in Shard \ Producers : read'[p].state = "none"
    BY <1>1, <1>2, <2>1 DEF EndFacts
  <2>4. (phase' = "done") <=> (\A p \in Producers : read'[p].state = "ended")
    BY <1>2
  <2> QED
    BY <1>2, <1>3, <2>1, <2>2, <2>3, <2>4 DEF ProducePhase
<1> QED
  BY <1>4, <1>5, <1>6, <1>7, <1>8 DEF IInv, PhaseOK

-----------------------------------------------------------------------------
(* Every step keeps it.                                                     *)

(* Every step keeps the invariant. *)
LEMMA StepKeeps == IInv /\ [Next]_vars => IInv'
<1> SUFFICES ASSUME IInv, [Next]_vars
             PROVE  IInv'
  OBVIOUS
<1>1. CASE UNCHANGED vars
  <2>1. /\ UNCHANGED <<setting, input, phase, error, taken, holding, ran, sinkFiles, shardFiles>>
        /\ UNCHANGED <<handle, store, counts, losses, sweeps, shards, expect, at, cursor, accum, read>>
    BY <1>1 DEF vars, spoolVars, given, sinking, disk, sdk, splitVars
  <2>2. /\ UNCHANGED <<given, splitVars, read>>
    BY <2>1 DEF given, splitVars
  <2>3. Names' = Names /\ \A r : OfInput(r)' = OfInput(r)
    BY <2>1, GivenSame
  <2>4. TypeOK'
    BY <2>1, <2>3 DEF IInv, TypeOK
  <2>5. OwnRecords'
    BY <2>1, <2>3 DEF IInv, OwnRecords
  <2>6. OwnShares' /\ AccumOK' /\ Unsplit' /\ IdleShards'
    BY <2>1, <2>2, ShardsFramed
  <2>7. PhaseOK'
    BY <2>1, <2>2, <2>6, PhasesFramed
  <2> QED
    BY <2>4, <2>5, <2>6, <2>7 DEF IInv
<1>2. CASE Sink /\ UNCHANGED <<splitVars, read>>
  BY <1>2, TakeKeeps, AppendSpoolKeeps, AppendStoreKeeps, AppendFailsKeeps, EvictKeeps,
     SweepKeeps, StoreLosesKeeps DEF Sink
<1>3. CASE \E t \in Temp : Combine(t)
  BY <1>3, CombineKeeps
<1>4. CASE SplitRecord \/ SplitEnds \/ SplitFails
  BY <1>4, SplitRecordKeeps, SplitEndsKeeps, SplitFailsKeeps
<1>5. CASE Produce
  BY <1>5, ReadBackKeeps, ReadFailsKeeps, EndOfStreamKeeps DEF Produce
<1> QED
  BY <1>1, <1>2, <1>3, <1>4, <1>5 DEF Next

(* In every deployment, whatever is swept, lost or fails: the files hold    *)
(* batches of the input, a shard gets rows of its own keys only, and the    *)
(* phases of combine, split and produce follow one another.                 *)
THEOREM BufferingInvariant == Spec => []IInv
<1>1. Init => IInv
  BY InitHolds
<1>2. IInv /\ [Next]_vars => IInv'
  BY StepKeeps
<1> QED
  BY <1>1, <1>2, PTL DEF Spec

(* Every variable keeps its type: there are never more than MAX_SHARDS      *)
(* producers, whatever the relation's size and the budget.                  *)
THEOREM BufferingTyped == Spec => []TypeOK
<1>1. IInv => TypeOK
  BY DEF IInv
<1> QED
  BY <1>1, BufferingInvariant, PTL

(* The memory of the split: no shard ever has more waiting than a record    *)
(* (the doc of ACCUM_BUDGET_BYTES).                                         *)
THEOREM SplitMemoryBounded == Spec => []AccumBounded
<1>1. IInv => AccumBounded
  BY DEF IInv, AccumOK, AccumBounded
<1> QED
  BY <1>1, BufferingInvariant, PTL


-----------------------------------------------------------------------------
(* One temp directory: nothing is refused without a loss, nothing is left.  *)

(* The workers and the producers see the same files. *)
OneTemp == \E t \in Temp : Temp = {t}

(* A handle is only open on an unlinked file after a sweep. *)
NoOrphans == phase = "sink" /\ sweeps = 0 => \A w \in Worker : handle[w] # "orphan"

(* The store holds the rows it counted, unless it lost some. *)
CountsOK == losses = 0 => \A t \in Temp : NumRows(store[t]) = Total(counts[t])

(* What a producer is told to expect is what is or will be in its file.     *)
ExpectOK ==
  Sharded /\ sweeps = 0 =>
    \A sh \in Shard : read[sh].state # "ended" =>
      expect[sh] = NumRows(shardFiles[at][sh]) + Len(accum[sh].rows)

(* Once a sink ran there is something to read, until it is discarded.       *)
SunkFound ==
  /\ sweeps = 0 /\ losses = 0 /\ ran # {} /\ phase \in {"sink", "produce"}
  /\ ~Sharded /\ read[0].state # "ended"
  => (store[at] # <<>> \/ \E n \in Names : sinkFiles[at][n] # <<>>)

(* A producer that ended left nothing of its own. *)
CleanedShards ==
  Sharded => \A sh \in Producers : read[sh].state = "ended" =>
               \A t \in Temp : shardFiles[t][sh] = <<>>
CleanedSinks ==
  ~Sharded /\ read[0].state = "ended" =>
    \A t \in Temp : \A n \in Names : sinkFiles[t][n] = <<>>

SpoolInv ==
  NoOrphans /\ CountsOK /\ ExpectOK /\ SunkFound /\ CleanedShards /\ CleanedSinks

(* What was appended to is not empty. *)
LEMMA AppendNotEmpty ==
  ASSUME NEW S, NEW s \in Seq(S), NEW x \in S
  PROVE  Append(s, x) \in Seq(S) /\ Append(s, x) # <<>>
<1>1. Append(s, x) \in Seq(S) /\ Len(Append(s, x)) = Len(s) + 1 /\ Len(s) \in Nat
  OBVIOUS
<1>2. Len(<<>>) = 0
  OBVIOUS
<1>3. Len(Append(s, x)) # Len(<<>>)
  BY <1>1, <1>2
<1> QED
  BY <1>1, <1>3

(* The total of a log that grew by a number. *)
LEMMA TotalAppend ==
  ASSUME NEW s \in Seq(Nat), NEW x \in Nat
  PROVE  Total(Append(s, x)) = Total(s) + x
<1>1. Append(s, x) = s \o <<x>>
  BY AppendIsConcat
<1>2. <<x>> \in Seq(Nat)
  OBVIOUS
<1> QED
  BY <1>1, <1>2, TotalConcat, TotalOne

(* The first shard is always one, and the only one of an unsplit relation.  *)
LEMMA ShardZero ==
  ASSUME TypeOK
  PROVE  /\ 0 \in Shard /\ 0 \in Producers /\ Producers \subseteq Shard
         /\ ~Sharded => \A sh \in Producers : sh = 0
  BY SpoolAssumption, SMTT(30) DEF TypeOK, Shard, Producers, Sharded

(* It holds before anything is sunk. *)
LEMMA SpoolInvInit == Init => SpoolInv
<1> SUFFICES ASSUME Init
             PROVE  SpoolInv
  OBVIOUS
<1>1. /\ handle = [w \in Worker |-> "closed"] /\ ran = {} /\ shards = 1
      /\ store = [t \in Temp |-> <<>>] /\ counts = [t \in Temp |-> <<>>]
      /\ read = [sh \in Shard |-> Unread]
  BY DEF Init, SpoolInit
<1>2. 0 \in Shard /\ ~Sharded /\ Unread.state = "none"
  BY <1>1, SpoolAssumption DEF Shard, Sharded, Unread
<1>3. NumRows(<<>>) = 0 /\ Total(<<>>) = 0
  BY NumRowsOne, TotalOne
<1> QED
  BY <1>1, <1>2, <1>3
     DEF SpoolInv, NoOrphans, CountsOK, ExpectOK, SunkFound, CleanedShards, CleanedSinks

(* A step that writes, loses and discards nothing. *)
LEMMA SpoolFramed ==
  ASSUME IInv, SpoolInv,
         UNCHANGED <<setting, input, shards, at, expect, accum, sinkFiles, shardFiles>>,
         UNCHANGED <<store, counts, sweeps, losses, ran>>,
         phase' \in {phase, "failed"},
         \A w \in Worker : handle'[w] = "orphan" => handle[w] = "orphan",
         \A sh \in Shard : (read'[sh].state = "ended") <=> (read[sh].state = "ended")
  PROVE  SpoolInv'
<1>1. Names' = Names /\ Sharded' = Sharded /\ Producers' = Producers
  BY GivenSame
<1>2. 0 \in Shard /\ Producers \subseteq Shard
  BY ShardZero DEF IInv
<1>3. NoOrphans'
  BY DEF SpoolInv, NoOrphans
<1>4. CountsOK'
  BY DEF SpoolInv, CountsOK
<1>5. ExpectOK'
  BY <1>1 DEF SpoolInv, ExpectOK
<1>6. SunkFound'
  BY <1>1, <1>2 DEF SpoolInv, SunkFound
<1>7. CleanedShards' /\ CleanedSinks'
  BY <1>1, <1>2 DEF SpoolInv, CleanedShards, CleanedSinks
<1> QED
  BY <1>3, <1>4, <1>5, <1>6, <1>7 DEF SpoolInv

(* While the sinks run no producer has ended, and nothing is expected.      *)
LEMMA Sinking ==
  ASSUME IInv, phase = "sink", UNCHANGED <<shards, read>>
  PROVE  /\ ~Sharded /\ ~Sharded' /\ read[0].state = "none" /\ read'[0].state = "none"
         /\ ExpectOK' /\ CleanedShards' /\ CleanedSinks'
<1>1. ~Sharded /\ 0 \in Shard /\ read[0].state = "none"
  BY ShardZero DEF IInv, PhaseOK, SinkPhase
<1>2. ~Sharded'
  BY <1>1 DEF Sharded
<1> QED
  BY <1>1, <1>2 DEF ExpectOK, CleanedShards, CleanedSinks

(* Before any sweep, an append leaves a file that is not empty. *)
LEMMA AppendSpoolFound ==
  ASSUME IInv, SpoolInv, OneTemp, NEW s \in Stream, NEW w \in Worker, AppendSpool(s, w),
         UNCHANGED <<splitVars, read>>
  PROVE  SpoolInv'
<1> DEFINE t == setting.tempOf[w]
            n == setting.fileOf[w]
            r == Record(holding[s], Rows(holding[s]))
<1>1. /\ Processing(s, w) /\ phase = "sink"
      /\ handle' = [handle EXCEPT ![w] = IF @ = "closed" THEN "open" ELSE @]
      /\ sinkFiles' = IF handle[w] = "orphan" THEN sinkFiles
                      ELSE [sinkFiles EXCEPT ![t][n] = Append(sinkFiles[t][n], r)]
      /\ UNCHANGED <<setting, input, phase, store, counts, losses, sweeps, shards, at, read>>
  BY DEF AppendSpool, Processing, given, sdk, splitVars
<1>2. t \in Temp /\ n \in Names /\ r \in RecordType
  BY <1>1, Held
<1>3. at = t /\ Names' = Names
  BY <1>1, <1>2, GivenSame DEF OneTemp, IInv, TypeOK
<1>4. sinkFiles \in [Temp -> [Names -> Seq(RecordType)]] /\ handle \in [Worker -> {"closed", "open", "orphan"}]
  BY DEF IInv, TypeOK
<1>5. NoOrphans'
  BY <1>1, <1>4 DEF SpoolInv, NoOrphans
<1>6. CountsOK'
  BY <1>1 DEF SpoolInv, CountsOK
<1>7. SunkFound'
  <2> SUFFICES ASSUME sweeps' = 0
               PROVE  \E m \in Names : sinkFiles'[at][m] # <<>>
    BY <1>1, <1>3 DEF SunkFound
  <2>1. handle[w] # "orphan"
    BY <1>1 DEF SpoolInv, NoOrphans
  <2> HIDE DEF t, n, r
  <2> DEFINE more == Append(sinkFiles[t][n], r)
  <2>2. more \in Seq(RecordType) /\ more # <<>>
    <3>1. sinkFiles[t][n] \in Seq(RecordType)
      BY <1>2, <1>4
    <3> QED
      BY <1>2, <3>1, AppendNotEmpty
  <2>3. sinkFiles' = [sinkFiles EXCEPT ![t][n] = more]
    BY <1>1, <2>1
  <2> HIDE DEF more
  <2>4. sinkFiles'[t][n] = more
    BY <1>2, <1>4, <2>2, <2>3, TableUpdate
  <2> QED
    BY <1>2, <1>3, <2>2, <2>4
<1> QED
  BY <1>1, <1>5, <1>6, <1>7, Sinking DEF SpoolInv

(* The store counts the rows of every batch it takes. *)
LEMMA AppendStoreFound ==
  ASSUME IInv, SpoolInv, OneTemp, NEW s \in Stream, NEW w \in Worker, AppendStore(s, w),
         UNCHANGED <<splitVars, read>>
  PROVE  SpoolInv'
<1> DEFINE t == setting.tempOf[w]
            r == Record(holding[s], Rows(holding[s]))
            size == Len(Rows(holding[s]))
<1>1. /\ Processing(s, w) /\ phase = "sink"
      /\ store' = [store EXCEPT ![t] = Append(@, r)]
      /\ counts' = [counts EXCEPT ![t] = Append(@, size)]
      /\ UNCHANGED <<setting, input, phase, sinkFiles, handle, losses, sweeps, shards, at, read>>
  BY DEF AppendStore, Processing, given, disk, splitVars
<1>2. t \in Temp /\ r \in RecordType /\ size \in Nat /\ Len(r.rows) = size
  BY <1>1, Held
<1>3. at = t /\ Names' = Names
  BY <1>1, <1>2, GivenSame DEF OneTemp, IInv, TypeOK
<1>4. store \in [Temp -> Seq(RecordType)] /\ counts \in [Temp -> Seq(Nat)]
  BY DEF IInv, TypeOK
<1> HIDE DEF t, r, size
<1>5. NoOrphans'
  BY <1>1 DEF SpoolInv, NoOrphans
<1>6. store'[t] = Append(store[t], r) /\ counts'[t] = Append(counts[t], size)
  BY <1>1, <1>2, <1>4
<1>7. CountsOK'
  <2> SUFFICES ASSUME losses = 0, NEW u \in Temp
               PROVE  NumRows(store'[u]) = Total(counts'[u])
    BY <1>1 DEF CountsOK
  <2>1. NumRows(store[u]) = Total(counts[u])
    BY DEF SpoolInv, CountsOK
  <2>2. CASE u = t
    <3>1. store[t] \in Seq(RecordType) /\ counts[t] \in Seq(Nat)
      BY <1>2, <1>4
    <3>2. NumRows(store'[t]) = NumRows(store[t]) + size
      BY <1>2, <1>6, <3>1, NumRowsAppend
    <3>3. Total(counts'[t]) = Total(counts[t]) + size
      BY <1>2, <1>6, <3>1, TotalAppend
    <3> QED
      BY <2>1, <2>2, <3>2, <3>3
  <2>3. CASE u # t
    BY <1>1, <1>4, <2>1, <2>3
  <2> QED
    BY <2>2, <2>3
<1>8. SunkFound'
  <2>1. store[t] \in Seq(RecordType)
    BY <1>2, <1>4
  <2>2. Append(store[t], r) # <<>>
    BY <1>2, <2>1, AppendNotEmpty
  <2> QED
    BY <1>1, <1>3, <1>6, <2>2 DEF SunkFound
<1> QED
  BY <1>1, <1>5, <1>7, <1>8, Sinking DEF SpoolInv

(* After a sweep nothing is promised but that what ended is gone. *)
LEMMA SweepFound ==
  ASSUME IInv, SpoolInv, NEW t \in Temp, Sweep(t), UNCHANGED <<splitVars, read>>
  PROVE  SpoolInv'
<1>1. /\ sweeps' = sweeps + 1
      /\ sinkFiles' = [sinkFiles EXCEPT ![t] = NoFiles]
      /\ shardFiles' = [shardFiles EXCEPT ![t] = NoShards]
      /\ handle' = Orphaned(t)
      /\ UNCHANGED <<setting, input, store, counts, losses, shards, read>>
  BY DEF Sweep, given, sdk, splitVars
<1>2. /\ Names' = Names /\ Sharded' = Sharded /\ Producers' = Producers
      /\ Producers \subseteq Shard
  BY <1>1, GivenSame, ShardZero DEF IInv
<1>3. sweeps' > 0
  BY <1>1 DEF IInv, TypeOK
<1>4. /\ \A u \in Temp : \A m \in Names :
           sinkFiles'[u][m] = IF u = t THEN <<>> ELSE sinkFiles[u][m]
      /\ \A u \in Temp : \A sh \in Shard :
           shardFiles'[u][sh] = IF u = t THEN <<>> ELSE shardFiles[u][sh]
  BY <1>1, Unlinked
<1>5. NoOrphans' /\ ExpectOK' /\ SunkFound'
  BY <1>3 DEF NoOrphans, ExpectOK, SunkFound
<1>6. CountsOK'
  BY <1>1 DEF SpoolInv, CountsOK
<1>7. CleanedShards'
  BY <1>1, <1>2, <1>4 DEF SpoolInv, CleanedShards
<1>8. CleanedSinks'
  BY <1>1, <1>2, <1>4 DEF SpoolInv, CleanedSinks
<1> QED
  BY <1>5, <1>6, <1>7, <1>8 DEF SpoolInv

(* After a loss the store is no longer counted on. *)
LEMMA StoreLosesFound ==
  ASSUME IInv, SpoolInv, NEW t \in Temp, StoreLoses(t), UNCHANGED <<splitVars, read>>
  PROVE  SpoolInv'
<1>1. /\ phase = "sink" /\ losses' = losses + 1
      /\ UNCHANGED <<phase, handle, sweeps, shards, read>>
  BY DEF StoreLoses, disk, splitVars
<1>2. losses' > 0
  BY <1>1 DEF IInv, TypeOK
<1>3. NoOrphans'
  BY <1>1 DEF SpoolInv, NoOrphans
<1>4. CountsOK' /\ SunkFound'
  BY <1>2 DEF CountsOK, SunkFound
<1> QED
  BY <1>1, <1>3, <1>4, Sinking DEF SpoolInv

(* The shards of a split are among those there may be. *)
LEMMA RangeKept ==
  ASSUME NEW n \in 1 .. MaxShards
  PROVE  0 \in 0 .. MaxShards - 1 /\ 0 .. n - 1 \subseteq 0 .. MaxShards - 1
  BY SpoolAssumption

(* combine starts every shard with nothing expected and nothing there. *)
LEMMA CombineFound ==
  ASSUME IInv, SpoolInv, OneTemp, NEW t \in Temp, Combine(t)
  PROVE  SpoolInv'
<1>1. /\ phase = "sink"
      /\ phase' = IF Splits(t) THEN "split" ELSE "produce"
      /\ shards' = IF Splits(t) THEN ShardCount(NumRows(SinkRecords(t))) ELSE 1
      /\ at' = t
      /\ UNCHANGED <<setting, input, ran, sinkFiles, shardFiles, handle, store, counts, losses>>
      /\ UNCHANGED <<sweeps, expect, cursor, accum, read>>
  BY DEF Combine, Sunk, given, sinking, disk, sdk
<1>2. at = t
  BY DEF OneTemp, IInv, TypeOK
<1>3. Names' = Names
  BY <1>1 DEF Names
<1>4. /\ ~Sharded
      /\ \A sh \in Shard : /\ accum[sh] = Empty /\ expect[sh] = 0 /\ read[sh].state = "none"
                           /\ shardFiles[t][sh] = <<>>
  BY <1>1 DEF IInv, PhaseOK, SinkPhase, Unsplit
<1>5. 0 \in Shard /\ Producers' \subseteq Shard
  <2>1. shards' \in 1 .. MaxShards
    <3>1. TypeOK'
      BY CombineKeeps DEF IInv
    <3> QED
      BY <3>1 DEF TypeOK
  <2> QED
    BY <2>1, RangeKept DEF Shard, Producers
<1>6. NoOrphans' /\ CountsOK'
  BY <1>1 DEF SpoolInv, NoOrphans, CountsOK
<1>7. ExpectOK'
  <2>1. NumRows(<<>>) = 0 /\ Len(Empty.rows) = 0
    BY NumRowsOne DEF Empty
  <2> QED
    BY <1>1, <1>4, <2>1 DEF ExpectOK
<1>8. SunkFound'
  BY <1>1, <1>2, <1>3, <1>4, <1>5 DEF SpoolInv, SunkFound
<1>9. CleanedShards' /\ CleanedSinks'
  BY <1>1, <1>4, <1>5 DEF CleanedShards, CleanedSinks
<1> QED
  BY <1>6, <1>7, <1>8, <1>9 DEF SpoolInv


(* The split expects of a shard what it gave to it. *)
LEMMA SplitRecordFound ==
  ASSUME IInv, SpoolInv, SplitRecord
  PROVE  SpoolInv'
<1>1. SplitRecordFacts
  BY SplitRecordGives
<1>2. /\ phase = "split"
      /\ UNCHANGED <<setting, input, phase, ran, handle, store, counts, losses>>
      /\ UNCHANGED <<sweeps, shards, at, read>>
      /\ \A sh \in Shard : Given(sh, HeadOf(Pick), OfShard(HeadOf(Pick).rows, sh))
  BY <1>1 DEF SplitRecordFacts
<1>3. Sharded' = Sharded /\ Producers' = Producers /\ Producers \subseteq Shard
  BY <1>2, GivenSame, ShardZero DEF IInv
<1>4. Sharded /\ (\A sh \in Shard : read[sh].state = "none") /\ at \in Temp
  BY <1>2 DEF IInv, TypeOK, PhaseOK, SplitPhase
<1>5. NoOrphans' /\ SunkFound' /\ CleanedShards' /\ CleanedSinks'
  BY <1>2, <1>3, <1>4 DEF NoOrphans, SunkFound, CleanedShards, CleanedSinks
<1>6. CountsOK'
  BY <1>2 DEF SpoolInv, CountsOK
<1>7. ExpectOK'
  <2> SUFFICES ASSUME sweeps = 0, NEW sh \in Shard
               PROVE  expect'[sh] = NumRows(shardFiles'[at][sh]) + Len(accum'[sh].rows)
    BY <1>2 DEF ExpectOK
  <2> DEFINE rows == OfShard(HeadOf(Pick).rows, sh)
             file == shardFiles[at][sh]
             first == FirstOf(sh, HeadOf(Pick))
             old == accum[sh].rows
             new == Record(first, old \o rows)
  <2>1. /\ expect'[sh] = expect[sh] + Len(rows)
        /\ \/ accum'[sh].rows = old \o rows /\ shardFiles'[at][sh] = file
           \/ /\ accum'[sh] = Empty /\ first \in Nat \ {0}
              /\ shardFiles'[at][sh] = Append(file, new)
    <3>1. Given(sh, HeadOf(Pick), rows)
      BY <1>2
    <3> QED
      BY <3>1 DEF Given
  <2>2. rows \in Seq(Nat \X Nat)
    <3>1. Pick \in Live /\ HeadOf(Pick) \in RecordType
      BY <1>1, PickLive DEF SplitRecordFacts
    <3> QED
      BY <1>2, <3>1, HeadShares
  <2>3. old \in Seq(Nat \X Nat) /\ file \in Seq(RecordType) /\ expect[sh] \in Nat
    BY <1>4 DEF IInv, TypeOK
  <2>4. expect[sh] = NumRows(file) + Len(old)
    BY <1>4 DEF SpoolInv, ExpectOK
  <2> HIDE DEF rows, old, file, first
  <2>5. /\ old \o rows \in Seq(Nat \X Nat)
        /\ Len(old \o rows) = Len(old) + Len(rows)
        /\ Len(old) \in Nat /\ Len(rows) \in Nat /\ NumRows(file) \in Nat
    BY <2>2, <2>3, ConcatProperties, SizesTyped
  <2>6. Len(Empty.rows) = 0
    BY DEF Empty
  <2>7. CASE accum'[sh].rows = old \o rows /\ shardFiles'[at][sh] = file
    BY <2>1, <2>4, <2>5, <2>7
  <2>8. CASE accum'[sh] = Empty /\ first \in Nat \ {0} /\ shardFiles'[at][sh] = Append(file, new)
    <3>1. new \in RecordType /\ new.rows = old \o rows
      BY <2>5, <2>8, RecordFields
    <3> HIDE DEF new
    <3>2. NumRows(Append(file, new)) = NumRows(file) + Len(old \o rows)
      BY <2>3, <3>1, NumRowsAppend
    <3> QED
      BY <2>1, <2>4, <2>5, <2>6, <2>8, <3>2
  <2> QED
    BY <2>1, <2>7, <2>8
<1> QED
  BY <1>5, <1>6, <1>7 DEF SpoolInv

(* What waited is in the file at the end of the split. *)
LEMMA SplitEndsFound ==
  ASSUME IInv, SpoolInv, SplitEnds
  PROVE  SpoolInv'
<1>1. SplitEndsFacts
  BY SplitEndsGives
<1>2. /\ phase = "split" /\ phase' = "produce"
      /\ UNCHANGED <<setting, input, ran, sinkFiles, handle, store, counts, losses>>
      /\ UNCHANGED <<sweeps, shards, expect, at, read>>
      /\ accum' = [sh \in Shard |-> Empty]
  BY <1>1 DEF SplitEndsFacts
<1>3. Sharded' = Sharded /\ Producers' = Producers /\ Producers \subseteq Shard
  BY <1>2, GivenSame, ShardZero DEF IInv
<1>4. Sharded /\ (\A sh \in Shard : read[sh].state = "none") /\ at \in Temp
  BY <1>2 DEF IInv, TypeOK, PhaseOK, SplitPhase
<1>5. NoOrphans' /\ SunkFound' /\ CleanedShards' /\ CleanedSinks'
  BY <1>2, <1>3, <1>4 DEF NoOrphans, SunkFound, CleanedShards, CleanedSinks
<1>6. CountsOK'
  BY <1>2 DEF SpoolInv, CountsOK
<1>7. ExpectOK'
  <2> SUFFICES ASSUME sweeps = 0, NEW sh \in Shard
               PROVE  expect[sh] = NumRows(shardFiles'[at][sh]) + Len(accum'[sh].rows)
    BY <1>2 DEF ExpectOK
  <2> DEFINE file == shardFiles[at][sh]
             old == accum[sh].rows
             new == Record(accum[sh].first, old)
  <2>1. \/ old = <<>> /\ shardFiles'[at][sh] = file
        \/ accum[sh].first \in Nat \ {0} /\ shardFiles'[at][sh] = Append(file, new)
    BY <1>1 DEF SplitEndsFacts
  <2>2. old \in Seq(Nat \X Nat) /\ file \in Seq(RecordType)
    BY <1>4 DEF IInv, TypeOK
  <2>3. expect[sh] = NumRows(file) + Len(old)
    BY <1>4 DEF SpoolInv, ExpectOK
  <2>4. accum'[sh].rows = <<>> /\ Len(<<>>) = 0
    BY <1>2 DEF Empty
  <2> HIDE DEF old, file
  <2>5. NumRows(file) \in Nat /\ Len(old) \in Nat
    BY <2>2, SizesTyped
  <2>6. CASE old = <<>> /\ shardFiles'[at][sh] = file
    BY <2>3, <2>4, <2>5, <2>6
  <2>7. CASE accum[sh].first \in Nat \ {0} /\ shardFiles'[at][sh] = Append(file, new)
    <3>1. new \in RecordType /\ new.rows = old
      BY <2>2, <2>7, RecordFields
    <3> HIDE DEF new
    <3>2. NumRows(Append(file, new)) = NumRows(file) + Len(old)
      BY <2>2, <3>1, NumRowsAppend
    <3> QED
      BY <2>3, <2>4, <2>5, <2>7, <3>2
  <2> QED
    BY <2>1, <2>6, <2>7
<1> QED
  BY <1>5, <1>6, <1>7 DEF SpoolInv

(* A producer that ends discards its own files only. *)
LEMMA EndOfStreamFound ==
  ASSUME IInv, SpoolInv, OneTemp, NEW t \in Temp, NEW sh \in Shard, EndOfStream(t, sh)
  PROVE  SpoolInv'
<1>1. EndFacts(t, sh)
  BY EndGives
<1>2. /\ phase = "produce" /\ phase' \in {"produce", "done"} /\ sh \in Producers
      /\ UNCHANGED <<setting, input, ran, store, counts, losses, sweeps, shards, expect, at, accum>>
      /\ \A p \in Shard : read'[p].state = IF p = sh THEN "ended" ELSE read[p].state
      /\ \A u \in Temp : \A n \in Names :
           sinkFiles'[u][n] = IF u = t /\ ~Sharded THEN <<>> ELSE sinkFiles[u][n]
      /\ \A u \in Temp : \A p \in Shard :
           shardFiles'[u][p] = IF u = t /\ (Sharded => p = sh) THEN <<>> ELSE shardFiles[u][p]
  BY <1>1 DEF EndFacts
<1>3. /\ Names' = Names /\ Sharded' = Sharded /\ Producers' = Producers
      /\ 0 \in Shard /\ Producers \subseteq Shard /\ (~Sharded => sh = 0)
  BY <1>2, GivenSame, ShardZero DEF IInv
<1>4. at \in Temp /\ \A u \in Temp : u = t
  BY DEF OneTemp, IInv, TypeOK
<1>5. NoOrphans' /\ SunkFound'
  BY <1>2, <1>3 DEF NoOrphans, SunkFound
<1>6. CountsOK'
  BY <1>2 DEF SpoolInv, CountsOK
<1>7. ExpectOK'
  <2> SUFFICES ASSUME Sharded, sweeps = 0, NEW p \in Shard, read'[p].state # "ended"
               PROVE  expect[p] = NumRows(shardFiles'[at][p]) + Len(accum[p].rows)
    BY <1>2, <1>3 DEF ExpectOK
  <2>1. p # sh /\ read[p].state # "ended" /\ shardFiles'[at][p] = shardFiles[at][p]
    BY <1>2, <1>4
  <2> QED
    BY <2>1 DEF SpoolInv, ExpectOK
<1>8. CleanedShards'
  <2> SUFFICES ASSUME Sharded, NEW p \in Producers, read'[p].state = "ended", NEW u \in Temp
               PROVE  shardFiles'[u][p] = <<>>
    BY <1>3 DEF CleanedShards
  <2> QED
    BY <1>2, <1>3, <1>4 DEF SpoolInv, CleanedShards
<1>9. CleanedSinks'
  BY <1>2, <1>3, <1>4 DEF CleanedSinks
<1> QED
  BY <1>5, <1>6, <1>7, <1>8, <1>9 DEF SpoolInv

(* Every step keeps what one temp directory promises. *)
LEMMA SpoolStep ==
  ASSUME IInv, SpoolInv, OneTemp, [Next]_vars
  PROVE  SpoolInv'
<1>1. CASE UNCHANGED vars
  <2>1. /\ UNCHANGED <<setting, input, shards, at, expect, accum, sinkFiles, shardFiles>>
        /\ UNCHANGED <<store, counts, sweeps, losses, ran, phase, handle, read>>
    BY <1>1 DEF vars, spoolVars, given, sinking, disk, sdk, splitVars
  <2> QED
    BY <2>1, SpoolFramed
<1>2. CASE Sink /\ UNCHANGED <<splitVars, read>>
  <2>1. UNCHANGED <<shards, at, expect, accum, read>>
    BY <1>2 DEF splitVars
  <2>2. ASSUME NEW s \in Stream, Take(s)
        PROVE  SpoolInv'
    BY <2>1, <2>2, SpoolFramed DEF Take, given, disk, sdk
  <2>3. ASSUME NEW s \in Stream, NEW w \in Worker, AppendFails(s, w)
        PROVE  SpoolInv'
    BY <2>1, <2>3, SpoolFramed DEF AppendFails, given, sinking, disk, sdk
  <2>4. ASSUME NEW w \in Worker, Evict(w)
        PROVE  SpoolInv'
    <3>1. /\ handle' = [handle EXCEPT ![w] = "closed"]
          /\ UNCHANGED <<setting, input, sinkFiles, shardFiles, store, counts, sweeps, losses>>
          /\ UNCHANGED <<ran, phase>>
      BY <2>4 DEF Evict, given, sinking, sdk
    <3>2. \A v \in Worker : handle'[v] = "orphan" => handle[v] = "orphan"
      BY <3>1 DEF IInv, TypeOK
    <3> QED
      BY <2>1, <3>1, <3>2, SpoolFramed
  <2> QED
    BY <1>2, <2>2, <2>3, <2>4, AppendSpoolFound, AppendStoreFound, SweepFound, StoreLosesFound
       DEF Sink
<1>3. CASE \E t \in Temp : Combine(t)
  BY <1>3, CombineFound
<1>4. CASE SplitRecord \/ SplitEnds
  BY <1>4, SplitRecordFound, SplitEndsFound
<1>5. CASE SplitFails
  BY <1>5, SpoolFramed DEF SplitFails, given, sinking, disk, sdk, splitVars
<1>6. CASE Produce
  <2>1. ASSUME NEW t \in Temp, NEW sh \in Shard, ReadBack(t, sh)
        PROVE  SpoolInv'
    <3>1. /\ read[sh].state # "ended"
          /\ read' = [read EXCEPT ![sh] = [state |-> "ok", rows |-> RowsOf(Buffered(t, sh))]]
          /\ UNCHANGED <<setting, input, shards, at, expect, accum, sinkFiles, shardFiles>>
          /\ UNCHANGED <<store, counts, sweeps, losses, ran, phase, handle>>
      BY <2>1 DEF ReadBack, spoolVars, given, sinking, disk, sdk, splitVars
    <3>2. \A p \in Shard : (read'[p].state = "ended") <=> (read[p].state = "ended")
      BY <3>1 DEF IInv, TypeOK
    <3> QED
      BY <3>1, <3>2, SpoolFramed
  <2>2. ASSUME NEW t \in Temp, NEW sh \in Shard, ReadFails(t, sh)
        PROVE  SpoolInv'
    BY <2>2, SpoolFramed DEF ReadFails, given, sinking, disk, sdk, splitVars
  <2> QED
    BY <1>6, <2>1, <2>2, EndOfStreamFound DEF Produce
<1> QED
  BY <1>1, <1>2, <1>3, <1>4, <1>5, <1>6 DEF Next

(* A relation that is whole passes the checks of read_batches. *)
LEMMA WholeIsIntact ==
  ASSUME IInv, SpoolInv, OneTemp, phase = "produce", sweeps = 0, losses = 0,
         NEW t \in Temp, NEW sh \in Producers, read[sh].state # "ended"
  PROVE  Intact(t, sh)
<1>1. t = at /\ sh \in Shard /\ (~Sharded => sh = 0)
  BY ShardZero DEF OneTemp, IInv, TypeOK
<1>2. /\ Spooled(t, sh) \in Seq(RecordType) /\ store[t] \in Seq(RecordType)
      /\ NumRows(Collected(t, sh)) = NumRows(Spooled(t, sh)) + NumRows(store[t])
  BY <1>1, CollectedTyped
<1>3. NumRows(Spooled(t, sh)) \in Nat
  BY <1>2, SizesTyped
<1>4. CASE Sharded
  <2>1. store[t] = <<>> /\ accum[sh] = Empty /\ Spooled(t, sh) = shardFiles[at][sh]
    BY <1>1, <1>4 DEF Spooled, IInv, PhaseOK, ProducePhase
  <2>2. expect[sh] = NumRows(Spooled(t, sh)) + Len(Empty.rows)
    BY <1>1, <1>4, <2>1 DEF SpoolInv, ExpectOK
  <2>3. NumRows(store[t]) = 0 /\ Len(Empty.rows) = 0
    BY <2>1, NumRowsOne DEF Empty
  <2> QED
    BY <1>2, <1>3, <1>4, <2>2, <2>3 DEF Intact
<1>5. CASE ~Sharded
  <2>1. NumRows(store[t]) = Total(counts[t])
    BY DEF SpoolInv, CountsOK
  <2>2. ASSUME ran # {}
        PROVE  Collected(t, sh) # <<>>
    <3>1. store[at] # <<>> \/ \E n \in Names : sinkFiles[at][n] # <<>>
      BY <1>1, <1>5, <2>2 DEF SpoolInv, SunkFound
    <3>2. \E r : r \in ToSet(Spooled(t, sh)) \/ r \in ToSet(store[t])
      <4>1. CASE store[at] # <<>>
        <5>1. store[t][1] \in ToSet(store[t])
          BY <1>1, <1>2, <4>1 DEF ToSet
        <5> QED
          BY <5>1
      <4>2. CASE \E n \in Names : sinkFiles[at][n] # <<>>
        <5>1. PICK n \in Names : sinkFiles[t][n] # <<>>
          BY <1>1, <4>2
        <5>2. sinkFiles[t] \in [Names -> Seq(RecordType)] /\ Names \in SUBSET Nat
          BY SettingFields DEF IInv, TypeOK
        <5>3. sinkFiles[t][n][1] \in ToSet(sinkFiles[t][n])
          BY <5>1, <5>2 DEF ToSet
        <5>4. sinkFiles[t][n][1] \in ToSet(SinkRecords(t))
          BY <5>2, <5>3, SinkRecordsMembers
        <5> QED
          BY <1>5, <5>4 DEF Spooled
      <4> QED
        BY <3>1, <4>1, <4>2
    <3>3. \E r : r \in ToSet(Spooled(t, sh) \o store[t])
      BY <1>2, <3>2, ToSetConcat
    <3> QED
      BY <3>3, ToSetEmpty DEF Collected
  <2>3. NumRows(Collected(t, sh)) = ExpectedRows(t, sh)
    BY <1>2, <2>1 DEF ExpectedRows
  <2> QED
    BY <1>5, <2>2, <2>3 DEF Intact
<1> QED
  BY <1>4, <1>5

(* One more of either is more than none of both. *)
LEMMA OneMore ==
  ASSUME NEW a \in Nat, NEW b \in Nat
  PROVE  (a + 1) + b > 0 /\ a + (b + 1) > 0
  OBVIOUS

(* The checks of read_batches never refuse a relation that is whole, on one *)
(* temp directory: however the batches were spread over spool files and the *)
(* store, and whatever the split made of them, a producer that is refused   *)
(* has lost rows to a sweep or to the store.                                *)
THEOREM NeverRefusedWhole ==
  ASSUME OneTemp
  PROVE  Spec => []NoSpuriousFailure
<1> DEFINE Inv == IInv /\ SpoolInv /\ NoSpuriousFailure
<1>1. ASSUME Init
      PROVE  Inv
  <2>1. error = "none"
    BY <1>1 DEF Init, SpoolInit
  <2> QED
    BY <1>1, <2>1, InitHolds, SpoolInvInit DEF NoSpuriousFailure
<1>2. ASSUME Inv, [Next]_vars
      PROVE  Inv'
  <2>1. IInv' /\ SpoolInv'
    BY <1>2, StepKeeps, SpoolStep
  <2>2. /\ sweeps \in Nat /\ losses \in Nat /\ sweeps' \in Nat /\ losses' \in Nat
    <3>1. TypeOK /\ TypeOK'
      BY <1>2, <2>1 DEF IInv
    <3> QED
      BY <3>1 DEF TypeOK
  <2> SUFFICES NoSpuriousFailure'
    BY <2>1
  <2>3. CASE UNCHANGED <<error, sweeps, losses>>
    BY <1>2, <2>3 DEF NoSpuriousFailure
  <2>4. CASE error' # "read"
    BY <2>4 DEF NoSpuriousFailure
  <2>5. ASSUME NEW t \in Temp, NEW sh \in Shard, ReadFails(t, sh)
        PROVE  NoSpuriousFailure'
    <3>1. /\ phase = "produce" /\ sh \in Producers /\ read[sh].state # "ended" /\ ~Intact(t, sh)
          /\ UNCHANGED <<sweeps, losses>>
      BY <2>5 DEF ReadFails, sdk
    <3>2. ~(sweeps = 0 /\ losses = 0)
      BY <1>2, <3>1, WholeIsIntact
    <3> QED
      BY <2>2, <3>1, <3>2 DEF NoSpuriousFailure
  <2>6. ASSUME NEW t \in Temp, Sweep(t) \/ StoreLoses(t)
        PROVE  NoSpuriousFailure'
    <3>1. sweeps' + losses' > 0
      <4>1. CASE Sweep(t)
        <5>1. sweeps' = sweeps + 1
          BY <4>1 DEF Sweep
        <5> QED
          BY <2>2, <5>1, OneMore
      <4>2. CASE StoreLoses(t)
        <5>1. losses' = losses + 1
          BY <4>2 DEF StoreLoses
        <5> QED
          BY <2>2, <5>1, OneMore
      <4> QED
        BY <2>6, <4>1, <4>2
    <3> QED
      BY <3>1 DEF NoSpuriousFailure
  <2>7. \/ UNCHANGED <<error, sweeps, losses>>
        \/ error' # "read"
        \/ \E t \in Temp, sh \in Shard : ReadFails(t, sh)
        \/ \E t \in Temp : Sweep(t) \/ StoreLoses(t)
    <3>1. CASE UNCHANGED vars
      BY <3>1 DEF vars, spoolVars, sdk
    <3>2. CASE Sink
      BY <3>2 DEF Sink, Take, AppendSpool, AppendStore, AppendFails, Evict, sdk
    <3>3. CASE \E t \in Temp : Combine(t)
      BY <3>3 DEF Combine, sdk
    <3>4. CASE SplitRecord \/ SplitEnds \/ SplitFails
      BY <3>4 DEF SplitRecord, SplitEnds, SplitFails, sdk
    <3>5. CASE Produce
      BY <3>5 DEF Produce, ReadBack, EndOfStream, spoolVars, sdk
    <3> QED
      BY <1>2, <3>1, <3>2, <3>3, <3>4, <3>5 DEF Next
  <2> QED
    BY <2>1, <2>3, <2>4, <2>5, <2>6, <2>7
<1>3. Inv => NoSpuriousFailure
  OBVIOUS
<1> HIDE DEF Inv
<1> QED
  BY <1>1, <1>2, <1>3, PTL DEF Spec

(* One temp directory: the spool's own invariant. *)
LEMMA SpoolInvariant ==
  ASSUME OneTemp
  PROVE  Spec => [](IInv /\ SpoolInv)
<1>1. Init => IInv /\ SpoolInv
  BY InitHolds, SpoolInvInit
<1>2. (IInv /\ SpoolInv) /\ [Next]_vars => (IInv /\ SpoolInv)'
  BY StepKeeps, SpoolStep
<1> QED
  BY <1>1, <1>2, PTL DEF Spec

(* On one temp directory a query that ended well leaves no spool file and   *)
(* no shard file, whichever of its producers ended first, and also if the   *)
(* spool was swept under it.                                                *)
THEOREM LeavesNothing ==
  ASSUME OneTemp
  PROVE  Spec => []CleansUp
<1>1. ASSUME IInv, SpoolInv
      PROVE  CleansUp
  <2> SUFFICES ASSUME phase = "done", NEW t \in Temp
               PROVE  sinkFiles[t] = NoFiles /\ shardFiles[t] = NoShards
    BY DEF CleansUp
  <2>1. /\ \A p \in Producers : read[p].state = "ended"
        /\ Sharded => \A n \in Names : sinkFiles[at][n] = <<>>
    BY <1>1 DEF IInv, PhaseOK, ProducePhase
  <2>2. at = t /\ 0 \in Producers
    BY <1>1, ShardZero DEF OneTemp, IInv, TypeOK
  <2>3. /\ sinkFiles[t] \in [Names -> Seq(RecordType)]
        /\ shardFiles[t] \in [Shard -> Seq(RecordType)]
    BY <1>1 DEF IInv, TypeOK
  <2>4. \A n \in Names : sinkFiles[t][n] = <<>>
    BY <1>1, <2>1, <2>2 DEF SpoolInv, CleanedSinks
  <2>5. \A sh \in Shard : shardFiles[t][sh] = <<>>
    <3>1. CASE Sharded
      BY <1>1, <2>1, <3>1 DEF SpoolInv, CleanedShards, IInv, PhaseOK, IdleShards
    <3>2. CASE ~Sharded
      BY <1>1, <3>2 DEF IInv, PhaseOK, Unsplit
    <3> QED
      BY <3>1, <3>2
  <2> QED
    BY <2>3, <2>4, <2>5 DEF NoFiles, NoShards
<1> QED
  BY <1>1, SpoolInvariant, PTL


-----------------------------------------------------------------------------
(* Never a short answer: where each row is, from the sinks to the answer.   *)

(* Deployments in which nothing is lost unseen: the spool is not swept      *)
(* while it is written, nor at all where sinks may use the store; and the   *)
(* store of a relation that may be split loses nothing.  Each of the three  *)
(* is needed: the checks of read_batches cannot see what is lost without it.*)
Accountable ==
  \A c \in Setting :
    /\ "sink" \notin c.sweepPhases
    /\ c.mayFallBack => c.sweepPhases = {} /\ (c.maxLosses = 0 \/ ~c.partitioned)

(* Only sinks that fall back use the store. *)
StoreUsed == losses > 0 \/ (\E t \in Temp : store[t] # <<>>) => setting.mayFallBack
(* Only the spool of sinks that do not is swept, and only under producers.  *)
Swept == sweeps > 0 => phase \notin {"sink", "split"} /\ ~setting.mayFallBack
StoreShort == NumRows(store[at]) <= Total(counts[at])

Batch(k) == Record(k, Rows(k))
(* A batch the store lost is missing from what it counted. *)
Missed(k) == losses > 0 /\ NumRows(store[at]) + Len(Rows(k)) <= Total(counts[at])
Kept(k) ==
  \/ \E n \in Names : Batch(k) \in ToSet(sinkFiles[at][n])
  \/ Batch(k) \in ToSet(store[at])
  \/ Missed(k)

(* A batch taken from the source is held, kept, or known to be missing.     *)
SinkPlaces ==
  phase = "sink" =>
    \A k \in 1 .. taken : (\E s \in Stream : holding[s] = k) \/ (ran # {} /\ Kept(k))

(* What a sole producer may still read. *)
WholePlaces ==
  phase = "produce" /\ ~Sharded /\ read[0].state # "ended" =>
    /\ sweeps > 0 => \A n \in Names : sinkFiles[at][n] = <<>>
    /\ \A k \in 1 .. Len(input) : ran # {} /\ (sweeps = 0 => Kept(k))

UnreadRow(row) ==
  \E n \in Names : \E i \in 1 .. Len(sinkFiles[at][n]) :
    cursor[n] < i /\ row \in ToSet(sinkFiles[at][n][i].rows)
MovedRow(sh, row) ==
  \/ row \in ToSet(accum[sh].rows)
  \/ \E r \in ToSet(shardFiles[at][sh]) : row \in ToSet(r.rows)

(* A row is unread, or was handed to its shard, which then expects rows:    *)
(* should the shard's file be swept, it is known to be missing.             *)
HandedRow(sh, row) ==
  /\ expect[sh] > 0
  /\ MovedRow(sh, row) \/ (sweeps > 0 /\ shardFiles[at][sh] = <<>>)
SplitPlaces ==
  Sharded /\ phase \in {"split", "produce"} =>
    \A sh \in Shard : read[sh].state # "ended" => \A row \in Share(sh) :
      (phase = "split" /\ UnreadRow(row)) \/ HandedRow(sh, row)

PlacesInv == StoreUsed /\ Swept /\ StoreShort /\ SinkPlaces /\ WholePlaces /\ SplitPlaces

(* It holds before anything is sunk. *)
LEMMA PlacesInit == Init => PlacesInv
<1> SUFFICES ASSUME Init
             PROVE  PlacesInv
  OBVIOUS
<1>1. /\ phase = "sink" /\ taken = 0 /\ sweeps = 0 /\ losses = 0 /\ at \in Temp
      /\ store = [t \in Temp |-> <<>>] /\ counts = [t \in Temp |-> <<>>]
  BY DEF Init, SpoolInit
<1>2. NumRows(<<>>) = 0 /\ Total(<<>>) = 0
  BY NumRowsOne, TotalOne
<1>3. StoreUsed /\ Swept /\ StoreShort
  BY <1>1, <1>2 DEF StoreUsed, Swept, StoreShort
<1>4. SinkPlaces
  <2>1. 1 .. taken = {}
    BY <1>1
  <2> QED
    BY <2>1 DEF SinkPlaces
<1>5. WholePlaces /\ SplitPlaces
  BY <1>1 DEF WholePlaces, SplitPlaces
<1> QED
  BY <1>3, <1>4, <1>5 DEF PlacesInv

(* A batch of the input: what it holds, and that it stays what it is.       *)
LEMMA BatchFields ==
  ASSUME TypeOK, NEW k \in 1 .. Len(input)
  PROVE  /\ Batch(k) \in RecordType /\ Batch(k).rows = Rows(k)
         /\ Rows(k) \in Seq(Nat \X Nat) /\ Len(Rows(k)) \in Nat
         /\ UNCHANGED input => Batch(k)' = Batch(k) /\ Len(Rows(k))' = Len(Rows(k))
<1>1. /\ Batch(k) \in RecordType /\ Batch(k).rows = Rows(k) /\ Rows(k) \in Seq(Nat \X Nat)
  BY InputFields DEF TypeOK, Batch
<1>2. Len(Rows(k)) \in Nat
  BY <1>1
<1>3. UNCHANGED input => Batch(k)' = Batch(k) /\ Len(Rows(k))' = Len(Rows(k))
  BY DEF Batch, Record, Rows
<1> QED
  BY <1>1, <1>2, <1>3

(* A batch that is kept stays kept when no file and no log gets shorter.    *)
LEMMA KeptStays ==
  ASSUME TypeOK, UNCHANGED <<setting, input, at, losses>>, NEW k \in 1 .. Len(input), Kept(k),
         \A n \in Names : \A r \in ToSet(sinkFiles[at][n]) : r \in ToSet(sinkFiles'[at][n]),
         \A r \in ToSet(store[at]) : r \in ToSet(store'[at]),
         \A x \in Nat : NumRows(store[at]) + x <= Total(counts[at])
                          => NumRows(store'[at]) + x <= Total(counts'[at])
  PROVE  Kept(k)'
<1>1. /\ Batch(k)' = Batch(k) /\ Len(Rows(k))' = Len(Rows(k)) /\ Len(Rows(k)) \in Nat
  BY BatchFields
<1>2. Names' = Names
  BY DEF Names
<1>3. CASE \E n \in Names : Batch(k) \in ToSet(sinkFiles[at][n])
  BY <1>1, <1>2, <1>3 DEF Kept
<1>4. CASE Batch(k) \in ToSet(store[at])
  BY <1>1, <1>4 DEF Kept
<1>5. CASE Missed(k)
  <2>1. losses > 0 /\ NumRows(store'[at]) + Len(Rows(k)) <= Total(counts'[at])
    BY <1>1, <1>5 DEF Missed
  <2>2. Missed(k)'
    BY <1>1, <2>1 DEF Missed
  <2> QED
    BY <2>2 DEF Kept
<1> QED
  BY <1>3, <1>4, <1>5 DEF Kept

(* A step that moves no row. *)
LEMMA PlacesFramed ==
  ASSUME IInv, PlacesInv,
         UNCHANGED <<setting, input, shards, at, cursor, expect, accum, sinkFiles, shardFiles>>,
         UNCHANGED <<store, counts, sweeps, losses, ran>>,
         phase' \in {phase, "failed"},
         \A sh \in Shard : (read'[sh].state = "ended") <=> (read[sh].state = "ended"),
         UNCHANGED <<taken, holding>> \/ phase' # "sink"
  PROVE  PlacesInv'
<1>1. /\ Names' = Names /\ Sharded' = Sharded /\ \A sh : Share(sh)' = Share(sh)
      /\ 0 \in Shard
  BY GivenSame, ShardZero DEF IInv
<1>2. StoreUsed' /\ StoreShort'
  BY DEF PlacesInv, StoreUsed, StoreShort
<1>3. Swept'
  BY DEF PlacesInv, Swept
<1>4. ASSUME NEW k
      PROVE  Kept(k)' = Kept(k)
  BY <1>1 DEF Kept, Missed, Batch, Record, Rows
<1>5. SinkPlaces'
  BY <1>4 DEF PlacesInv, SinkPlaces
<1>6. WholePlaces'
  BY <1>1, <1>4 DEF PlacesInv, WholePlaces
<1>7. ASSUME NEW sh, NEW row
      PROVE  UnreadRow(row)' = UnreadRow(row) /\ HandedRow(sh, row)' = HandedRow(sh, row)
  BY <1>1 DEF UnreadRow, HandedRow, MovedRow
<1>8. SplitPlaces'
  BY <1>1, <1>7 DEF PlacesInv, SplitPlaces
<1> QED
  BY <1>2, <1>3, <1>5, <1>6, <1>8 DEF PlacesInv

(* A batch that is taken is held. *)
LEMMA TakePlaces ==
  ASSUME IInv, PlacesInv, NEW s \in Stream, Take(s), UNCHANGED <<splitVars, read>>
  PROVE  PlacesInv'
<1>1. /\ phase = "sink" /\ phase' = "sink" /\ holding[s] = 0
      /\ taken' = taken + 1 /\ holding' = [holding EXCEPT ![s] = taken + 1]
      /\ UNCHANGED <<setting, input, ran, sinkFiles, shardFiles, store, counts, losses, sweeps>>
      /\ UNCHANGED <<shards, at, read>>
  BY DEF Take, given, disk, sdk, splitVars, Idle
<1>2. Names' = Names
  BY <1>1 DEF Names
<1>3. ASSUME NEW k
      PROVE  Kept(k)' = Kept(k)
  BY <1>1, <1>2 DEF Kept, Missed, Batch, Record, Rows
<1>4. StoreUsed' /\ StoreShort' /\ Swept'
  BY <1>1 DEF PlacesInv, StoreUsed, StoreShort, Swept
<1>5. SinkPlaces'
  <2>1. taken \in Nat /\ holding \in [Stream -> 0 .. Len(input)]
    BY InputFields DEF IInv, TypeOK
  <2>2. ASSUME NEW k \in 1 .. taken + 1
        PROVE  (\E q \in Stream : holding'[q] = k) \/ (ran # {} /\ Kept(k))
    <3>1. CASE k = taken + 1
      BY <1>1, <2>1, <3>1
    <3>2. CASE k # taken + 1
      <4>1. k \in 1 .. taken /\ k # 0
        BY <2>1, <3>2
      <4>2. CASE ran # {} /\ Kept(k)
        BY <4>2
      <4>3. CASE \E q \in Stream : holding[q] = k
        <5>1. PICK q \in Stream : holding[q] = k
          BY <4>3
        <5>2. holding'[q] = k
          BY <1>1, <2>1, <4>1, <5>1
        <5> QED
          BY <5>2
      <4> QED
        BY <1>1, <4>1, <4>2, <4>3 DEF PlacesInv, SinkPlaces
    <3> QED
      BY <3>1, <3>2
  <2> QED
    BY <1>1, <1>3, <2>2 DEF SinkPlaces
<1>6. WholePlaces' /\ SplitPlaces'
  BY <1>1 DEF WholePlaces, SplitPlaces
<1> QED
  BY <1>4, <1>5, <1>6 DEF PlacesInv

(* A batch is sunk: it is kept, and so are those kept before it.            *)
LEMMA SunkKept ==
  ASSUME IInv, PlacesInv, NEW s \in Stream, NEW w \in Worker, Processing(s, w), Processed(s),
         UNCHANGED <<phase, input, taken>>, NEW held, held = holding[s], Kept(held)',
         \A k \in 1 .. Len(input) : Kept(k) => Kept(k)'
  PROVE  SinkPlaces'
<1>1. /\ phase = "sink" /\ holding' = [holding EXCEPT ![s] = 0] /\ ran' = ran \cup {s}
      /\ ran' # {}
  BY DEF Processing, Processed, Idle
<1>2. /\ holding \in [Stream -> 0 .. Len(input)] /\ taken \in 0 .. Len(input)
      /\ Len(input) \in Nat
  BY InputFields DEF IInv, TypeOK
<1>3. ASSUME NEW k \in 1 .. taken
      PROVE  (\E q \in Stream : holding'[q] = k) \/ (ran' # {} /\ Kept(k)')
  <2>1. k \in 1 .. Len(input)
    BY <1>2
  <2>2. CASE Kept(k)
    BY <1>1, <2>1, <2>2
  <2>3. CASE \E q \in Stream : holding[q] = k
    <3>1. PICK q \in Stream : holding[q] = k
      BY <2>3
    <3>2. CASE q = s
      <4>1. k = held
        BY <3>1, <3>2
      <4> QED
        BY <1>1, <4>1
    <3>3. CASE q # s
      BY <1>1, <1>2, <3>1, <3>3
    <3> QED
      BY <3>2, <3>3
  <2> QED
    BY <1>1, <2>2, <2>3 DEF PlacesInv, SinkPlaces
<1> QED
  BY <1>3 DEF SinkPlaces


(* A batch in a spool file is kept: its handle is not on an unlinked file. *)
LEMMA AppendSpoolPlaces ==
  ASSUME IInv, SpoolInv, PlacesInv, OneTemp, NEW s \in Stream, NEW w \in Worker,
         AppendSpool(s, w), UNCHANGED <<splitVars, read>>
  PROVE  PlacesInv'
<1> DEFINE t == setting.tempOf[w]
            n == setting.fileOf[w]
            r == Record(holding[s], Rows(holding[s]))
<1>1. /\ Processing(s, w) /\ Processed(s) /\ phase = "sink" /\ phase' = "sink"
      /\ sinkFiles' = IF handle[w] = "orphan" THEN sinkFiles
                      ELSE [sinkFiles EXCEPT ![t][n] = Append(sinkFiles[t][n], r)]
      /\ UNCHANGED <<setting, input, phase, taken, store, counts, losses, sweeps, shards, at, read>>
  BY DEF AppendSpool, Processing, given, sdk, splitVars
<1>2. t \in Temp /\ n \in Names /\ r \in RecordType /\ holding[s] \in 1 .. Len(input)
  BY <1>1, Held
<1>3. at = t
  BY <1>2 DEF OneTemp, IInv, TypeOK
<1>4. handle[w] # "orphan"
  <2>1. sweeps = 0
    BY <1>1 DEF PlacesInv, Swept, IInv, TypeOK
  <2> QED
    BY <1>1, <2>1 DEF SpoolInv, NoOrphans
<1>5. PICK held \in 1 .. Len(input) : held = holding[s]
  BY <1>2
<1>6. r = Batch(held)
  BY <1>5 DEF Batch
<1>7. TypeOK /\ sinkFiles \in [Temp -> [Names -> Seq(RecordType)]]
  BY DEF IInv, TypeOK
<1> HIDE DEF t, n, r
<1> DEFINE more == Append(sinkFiles[t][n], r)
<1>8. more \in Seq(RecordType) /\ \A y : y \in ToSet(more) <=> y \in ToSet(sinkFiles[t][n]) \/ y = r
  <2>1. sinkFiles[t][n] \in Seq(RecordType)
    BY <1>2, <1>7
  <2> QED
    BY <1>2, <2>1, ToSetAppend
<1>9. sinkFiles' = [sinkFiles EXCEPT ![t][n] = more]
  BY <1>1, <1>4
<1> HIDE DEF more
<1>10. \A u \in Temp, m \in Names :
         sinkFiles'[u][m] = IF u = t /\ m = n THEN more ELSE sinkFiles[u][m]
  BY <1>2, <1>7, <1>8, <1>9, TableUpdate
<1>11. ASSUME NEW k \in 1 .. Len(input), Kept(k)
       PROVE  Kept(k)'
  <2>1. \A m \in Names : \A x \in ToSet(sinkFiles[at][m]) : x \in ToSet(sinkFiles'[at][m])
    BY <1>2, <1>3, <1>8, <1>10
  <2> QED
    BY <1>1, <1>7, <1>11, <2>1, KeptStays
<1>12. Kept(held)'
  <2>1. Batch(held)' = r /\ Names' = Names
    BY <1>1, <1>6, <1>7, BatchFields DEF Names
  <2>2. r \in ToSet(sinkFiles'[at][n])
    BY <1>2, <1>3, <1>8, <1>10
  <2>3. at' = at
    BY <1>1
  <2> QED
    BY <1>2, <2>1, <2>2, <2>3 DEF Kept
<1>13. SinkPlaces'
  BY <1>1, <1>5, <1>11, <1>12, SunkKept
<1>14. StoreUsed' /\ StoreShort' /\ Swept'
  BY <1>1 DEF PlacesInv, StoreUsed, StoreShort, Swept
<1>15. WholePlaces' /\ SplitPlaces'
  BY <1>1 DEF WholePlaces, SplitPlaces
<1> QED
  BY <1>13, <1>14, <1>15 DEF PlacesInv

(* A batch in the store is kept. *)
LEMMA AppendStorePlaces ==
  ASSUME IInv, PlacesInv, OneTemp, NEW s \in Stream, NEW w \in Worker,
         AppendStore(s, w), UNCHANGED <<splitVars, read>>
  PROVE  PlacesInv'
<1> DEFINE t == setting.tempOf[w]
            r == Record(holding[s], Rows(holding[s]))
            size == Len(Rows(holding[s]))
<1>1. /\ Processing(s, w) /\ Processed(s) /\ phase = "sink" /\ phase' = "sink"
      /\ setting.mayFallBack
      /\ store' = [store EXCEPT ![t] = Append(@, r)]
      /\ counts' = [counts EXCEPT ![t] = Append(@, size)]
      /\ UNCHANGED <<setting, input, phase, taken, sinkFiles, losses, sweeps, shards, at, read>>
  BY DEF AppendStore, Processing, given, disk, splitVars
<1>2. /\ t \in Temp /\ r \in RecordType /\ size \in Nat /\ Len(r.rows) = size
      /\ holding[s] \in 1 .. Len(input)
  BY <1>1, Held
<1>3. at = t
  BY <1>2 DEF OneTemp, IInv, TypeOK
<1>4. PICK held \in 1 .. Len(input) : held = holding[s]
  BY <1>2
<1>5. r = Batch(held)
  BY <1>4 DEF Batch
<1>6. TypeOK /\ store \in [Temp -> Seq(RecordType)] /\ counts \in [Temp -> Seq(Nat)]
  BY DEF IInv, TypeOK
<1> HIDE DEF t, r, size
<1>7. store'[at] = Append(store[at], r) /\ counts'[at] = Append(counts[at], size)
  BY <1>1, <1>2, <1>3, <1>6
<1>8. store[at] \in Seq(RecordType) /\ counts[at] \in Seq(Nat)
  BY <1>2, <1>3, <1>6
<1>9. \A y : y \in ToSet(store'[at]) <=> y \in ToSet(store[at]) \/ y = r
  BY <1>2, <1>7, <1>8, ToSetAppend
<1>10. /\ NumRows(store'[at]) = NumRows(store[at]) + size
       /\ Total(counts'[at]) = Total(counts[at]) + size
       /\ NumRows(store[at]) \in Nat /\ Total(counts[at]) \in Nat
  <2>1. NumRows(store'[at]) = NumRows(store[at]) + size
    BY <1>2, <1>7, <1>8, NumRowsAppend
  <2>2. Total(counts'[at]) = Total(counts[at]) + size
    BY <1>2, <1>7, <1>8, TotalAppend
  <2> QED
    BY <1>8, <2>1, <2>2, SizesTyped, TotalBounds
<1>11. \A x \in Nat : NumRows(store[at]) + x <= Total(counts[at])
                        => NumRows(store'[at]) + x <= Total(counts'[at])
  <2>1. ASSUME NEW a \in Nat, NEW b \in Nat, NEW x \in Nat, a + x <= b
        PROVE  (a + size) + x <= b + size
    BY <1>2, <2>1
  <2> QED
    BY <1>10, <2>1
<1>12. ASSUME NEW k \in 1 .. Len(input), Kept(k)
       PROVE  Kept(k)'
  BY <1>1, <1>6, <1>9, <1>11, <1>12, KeptStays
<1>13. Kept(held)'
  <2>1. Batch(held)' = r /\ at' = at
    BY <1>1, <1>5, <1>6, BatchFields
  <2> QED
    BY <1>9, <2>1 DEF Kept
<1>14. SinkPlaces'
  BY <1>1, <1>4, <1>12, <1>13, SunkKept
<1>15. StoreUsed' /\ Swept'
  BY <1>1 DEF PlacesInv, StoreUsed, Swept
<1>16. StoreShort'
  <2>1. NumRows(store[at]) <= Total(counts[at])
    BY DEF PlacesInv, StoreShort
  <2>2. ASSUME NEW a \in Nat, NEW b \in Nat, a <= b
        PROVE  a + size <= b + size
    BY <1>2, <2>2
  <2>3. NumRows(store[at]) + size <= Total(counts[at]) + size
    BY <1>10, <2>1, <2>2
  <2> QED
    BY <1>1, <1>10, <2>3 DEF StoreShort
<1>17. WholePlaces' /\ SplitPlaces'
  BY <1>1 DEF WholePlaces, SplitPlaces
<1> QED
  BY <1>14, <1>15, <1>16, <1>17 DEF PlacesInv

(* A batch the store loses is missing from what it counted. *)
LEMMA StoreLosesPlaces ==
  ASSUME IInv, PlacesInv, OneTemp, NEW t \in Temp, StoreLoses(t), UNCHANGED <<splitVars, read>>
  PROVE  PlacesInv'
<1>1. PICK j \in 1 .. Len(store[t]) : store' = [store EXCEPT ![t] = RemoveAt(store[t], j)]
  BY DEF StoreLoses
<1>2. /\ phase = "sink" /\ phase' = "sink" /\ losses' = losses + 1
      /\ UNCHANGED <<setting, input, taken, holding, ran, sinkFiles, counts, sweeps>>
      /\ UNCHANGED <<shards, at, read>>
  BY DEF StoreLoses, given, sinking, disk, splitVars
<1>3. /\ at = t /\ TypeOK /\ store \in [Temp -> Seq(RecordType)] /\ counts \in [Temp -> Seq(Nat)]
      /\ losses \in Nat
  BY DEF OneTemp, IInv, TypeOK
<1> DEFINE old == store[at]
            left == RemoveAt(store[at], j)
            lost == store[at][j]
<1>4. store'[at] = left
  BY <1>1, <1>3
<1>5. old \in Seq(RecordType) /\ counts[at] \in Seq(Nat) /\ j \in 1 .. Len(old) /\ lost \in RecordType
  BY <1>1, <1>3
<1>6. Removed(old, j, left)
  BY <1>5, RemoveAtProperties
<1> HIDE DEF left
<1>7. /\ left \in Seq(RecordType)
      /\ NumRows(old) = NumRows(left) + Len(lost.rows)
      /\ \A i \in 1 .. Len(old) : i # j => old[i] \in ToSet(left)
  BY <1>6 DEF Removed
<1> HIDE DEF old, lost
<1>8. /\ NumRows(old) \in Nat /\ NumRows(left) \in Nat /\ Total(counts[at]) \in Nat
      /\ Len(lost.rows) \in Nat /\ NumRows(left) <= NumRows(old)
  <2>1. NumRows(old) \in Nat /\ NumRows(left) \in Nat /\ Total(counts[at]) \in Nat
    BY <1>5, <1>7, SizesTyped, TotalBounds
  <2>2. Len(lost.rows) \in Nat
    BY <1>5, RecordFields
  <2> QED
    BY <1>7, <2>1, <2>2
<1>9. NumRows(old) <= Total(counts[at])
  BY DEF PlacesInv, StoreShort, old
<1>10. losses' > 0
  BY <1>2, <1>3
<1>11. ASSUME NEW k \in 1 .. Len(input), Kept(k)
       PROVE  Kept(k)'
  <2>1. /\ Batch(k)' = Batch(k) /\ Len(Rows(k))' = Len(Rows(k)) /\ Len(Rows(k)) \in Nat
        /\ Batch(k).rows = Rows(k) /\ Names' = Names
    BY <1>2, <1>3, BatchFields DEF Names
  <2>2. CASE \E n \in Names : Batch(k) \in ToSet(sinkFiles[at][n])
    BY <1>2, <2>1, <2>2 DEF Kept
  <2>3. CASE Batch(k) \in ToSet(store[at])
    <3>1. PICK i \in 1 .. Len(old) : Batch(k) = old[i]
      BY <1>5, <2>3 DEF ToSet, old
    <3>2. CASE i = j
      <4>1. Len(Rows(k)) = Len(lost.rows)
        BY <2>1, <3>1, <3>2 DEF lost, old
      <4>2. NumRows(left) + Len(Rows(k)) <= Total(counts[at])
        BY <1>7, <1>8, <1>9, <4>1
      <4>3. Missed(k)'
        BY <1>2, <1>4, <1>10, <2>1, <4>2 DEF Missed
      <4> QED
        BY <4>3 DEF Kept
    <3>3. CASE i # j
      BY <1>2, <1>4, <1>7, <2>1, <3>1, <3>3 DEF Kept
    <3> QED
      BY <3>2, <3>3
  <2>4. CASE Missed(k)
    <3>1. NumRows(old) + Len(Rows(k)) <= Total(counts[at])
      BY <2>4 DEF Missed, old
    <3>2. ASSUME NEW a \in Nat, NEW b \in Nat, NEW c \in Nat, NEW x \in Nat, a + x <= c, b <= a
          PROVE  b + x <= c
      BY <3>2
    <3>3. NumRows(left) + Len(Rows(k)) <= Total(counts[at])
      BY <1>8, <2>1, <3>1, <3>2
    <3>4. Missed(k)'
      BY <1>2, <1>4, <1>10, <2>1, <3>3 DEF Missed
    <3> QED
      BY <3>4 DEF Kept
  <2> QED
    BY <1>11, <2>2, <2>3, <2>4 DEF Kept
<1>12. SinkPlaces'
  <2>1. taken <= Len(input) /\ taken \in Nat /\ Len(input) \in Nat
    BY InputFields DEF IInv, TypeOK
  <2>2. \A k \in 1 .. taken : k \in 1 .. Len(input)
    BY <2>1
  <2>3. \A k \in 1 .. taken : (\E s \in Stream : holding[s] = k) \/ (ran # {} /\ Kept(k))
    BY <1>2 DEF PlacesInv, SinkPlaces
  <2> QED
    BY <1>2, <1>11, <2>2, <2>3 DEF SinkPlaces
<1>13. StoreUsed'
  <2>1. store[t] # <<>>
    BY <1>1, <1>3
  <2> QED
    BY <1>2, <2>1 DEF PlacesInv, StoreUsed
<1>14. StoreShort'
  <2>1. NumRows(left) <= Total(counts[at])
    BY <1>8, <1>9
  <2> QED
    BY <1>2, <1>4, <2>1 DEF StoreShort
<1>15. Swept'
  BY <1>2 DEF PlacesInv, Swept
<1>16. WholePlaces' /\ SplitPlaces'
  BY <1>2 DEF WholePlaces, SplitPlaces
<1> QED
  BY <1>12, <1>13, <1>14, <1>15, <1>16 DEF PlacesInv

(* What a sweep takes from the producers is known to be missing. *)
LEMMA SweepPlaces ==
  ASSUME IInv, PlacesInv, OneTemp, Accountable, NEW t \in Temp, Sweep(t),
         UNCHANGED <<splitVars, read>>
  PROVE  PlacesInv'
<1>1. /\ phase \in setting.sweepPhases /\ phase' = phase
      /\ sweeps' = sweeps + 1
      /\ sinkFiles' = [sinkFiles EXCEPT ![t] = NoFiles]
      /\ shardFiles' = [shardFiles EXCEPT ![t] = NoShards]
      /\ handle' = Orphaned(t)
      /\ UNCHANGED <<setting, input, ran, store, counts, losses>>
      /\ UNCHANGED <<shards, expect, at, cursor, accum, read>>
  BY DEF Sweep, given, sinking, sdk, splitVars
<1>2. phase = "produce" /\ ~setting.mayFallBack
  <2>1. setting \in Setting /\ setting.sweepPhases \subseteq {"sink", "produce"}
    BY SpoolAssumption DEF IInv, TypeOK, SettingType
  <2> QED
    BY <1>1, <2>1 DEF Accountable
<1>3. /\ at = t /\ at \in Temp /\ sweeps' > 0 /\ 0 \in Shard
      /\ Names' = Names /\ Sharded' = Sharded /\ \A sh : Share(sh)' = Share(sh)
  BY <1>1, GivenSame, ShardZero DEF OneTemp, IInv, TypeOK
<1>4. /\ \A m \in Names : sinkFiles'[at][m] = <<>>
      /\ \A sh \in Shard : shardFiles'[at][sh] = <<>>
  BY <1>1, <1>3, Unlinked
<1>5. StoreUsed' /\ StoreShort'
  BY <1>1 DEF PlacesInv, StoreUsed, StoreShort
<1>6. Swept' /\ SinkPlaces'
  BY <1>1, <1>2 DEF Swept, SinkPlaces
<1>7. WholePlaces'
  <2>1. ~(sweeps' = 0)
    BY <1>3
  <2> QED
    BY <1>1, <1>2, <1>3, <1>4, <2>1 DEF PlacesInv, WholePlaces
<1>8. SplitPlaces'
  <2> SUFFICES ASSUME Sharded, NEW sh \in Shard, read[sh].state # "ended", NEW row \in Share(sh)
               PROVE  HandedRow(sh, row)'
    BY <1>1, <1>3 DEF SplitPlaces
  <2>1. expect[sh] > 0
    BY <1>2 DEF PlacesInv, SplitPlaces, HandedRow
  <2> QED
    BY <1>1, <1>3, <1>4, <2>1 DEF HandedRow
<1> QED
  BY <1>5, <1>6, <1>7, <1>8 DEF PlacesInv


(* Where nothing is lost unseen, a relation that is split is in the spool.  *)
LEMMA SplitsSpooled ==
  ASSUME IInv, PlacesInv, Accountable, NEW t \in Temp, Splits(t)
  PROVE  losses = 0
<1>1. setting.partitioned
  BY DEF Splits, ShardCount
<1>2. setting \in Setting /\ losses \in 0 .. setting.maxLosses /\ setting.maxLosses \in Nat
  BY SettingFields DEF IInv, TypeOK
<1>3. losses > 0 => setting.mayFallBack
  BY DEF PlacesInv, StoreUsed
<1> QED
  BY <1>1, <1>2, <1>3 DEF Accountable

(* combine finds every batch where the sinks left it. *)
LEMMA CombinePlaces ==
  ASSUME IInv, PlacesInv, OneTemp, Accountable, NEW t \in Temp, Combine(t)
  PROVE  PlacesInv'
<1>1. /\ phase = "sink" /\ taken = Len(input) /\ \A s \in Stream : holding[s] = 0
      /\ phase' = IF Splits(t) THEN "split" ELSE "produce"
      /\ Sharded' => Splits(t)
      /\ at' = t
      /\ UNCHANGED <<setting, input, ran, sinkFiles, store, counts, losses>>
      /\ UNCHANGED <<sweeps, cursor, read>>
  BY DEF Combine, Sunk, given, sinking, disk, sdk, Idle, Sharded
<1>2. /\ at = t /\ at \in Temp /\ Names' = Names /\ TypeOK /\ Len(input) \in Nat
      /\ sinkFiles \in [Temp -> [Names -> Seq(RecordType)]]
  BY <1>1, InputFields DEF OneTemp, IInv, TypeOK, Names
<1>3. sweeps = 0 /\ \A n \in Names : cursor[n] = 0
  BY <1>1 DEF PlacesInv, Swept, IInv, TypeOK, PhaseOK, SinkPhase
<1>4. ASSUME NEW k \in 1 .. Len(input)
      PROVE  ran # {} /\ Kept(k)
  <2>1. k # 0
    BY <1>2
  <2> QED
    BY <1>1, <2>1 DEF PlacesInv, SinkPlaces
<1>5. StoreUsed' /\ StoreShort'
  BY <1>1, <1>2 DEF PlacesInv, StoreUsed, StoreShort
<1>6. Swept' /\ SinkPlaces'
  BY <1>1, <1>3 DEF Swept, SinkPlaces
<1>7. WholePlaces'
  <2>1. ASSUME NEW k \in 1 .. Len(input)
        PROVE  Kept(k)' = Kept(k)
    BY <1>1, <1>2 DEF Kept, Missed, Batch, Record, Rows
  <2> QED
    BY <1>1, <1>3, <1>4, <2>1 DEF WholePlaces
<1>8. SplitPlaces'
  <2> SUFFICES ASSUME Sharded', phase' = "split", NEW sh \in Shard, NEW row \in Share(sh)'
               PROVE  UnreadRow(row)'
    BY <1>1 DEF SplitPlaces
  <2>1. Splits(t) /\ losses = 0
    BY <1>1, SplitsSpooled
  <2>2. PICK k \in 1 .. Len(input) : row \in ToSet(Rows(k))
    BY <1>1 DEF Share, Rows
  <2>3. store[at] = <<>>
    BY <1>2, <2>1 DEF Splits
  <2>4. ~Missed(k)
    BY <2>1 DEF Missed
  <2>5. PICK n \in Names : Batch(k) \in ToSet(sinkFiles[at][n])
    BY <1>4, <2>3, <2>4, ToSetEmpty DEF Kept
  <2>6. sinkFiles[at][n] \in Seq(RecordType)
    BY <1>2
  <2>7. PICK i \in 1 .. Len(sinkFiles[at][n]) : Batch(k) = sinkFiles[at][n][i]
    BY <2>5, <2>6 DEF ToSet
  <2>8. row \in ToSet(sinkFiles[at][n][i].rows)
    BY <1>2, <2>2, <2>7, BatchFields
  <2>9. cursor[n] < i
    BY <1>3, <2>6
  <2> QED
    BY <1>1, <1>2, <2>8, <2>9 DEF UnreadRow
<1> QED
  BY <1>5, <1>6, <1>7, <1>8 DEF PlacesInv

(* A row that a shard was given is in its accumulator or in its file.       *)
LEMMA GivenMoves ==
  ASSUME IInv, NEW sh \in Shard, NEW record \in RecordType, NEW rows \in Seq(Nat \X Nat),
         Given(sh, record, rows), UNCHANGED at,
         NEW row, row \in ToSet(rows) \/ MovedRow(sh, row)
  PROVE  MovedRow(sh, row)'
<1> DEFINE old == accum[sh].rows
            file == shardFiles[at][sh]
            new == Record(FirstOf(sh, record), old \o rows)
<1>1. old \in Seq(Nat \X Nat) /\ file \in Seq(RecordType)
  BY DEF IInv, TypeOK
<1>2. \/ accum'[sh].rows = old \o rows /\ shardFiles'[at][sh] = file
      \/ FirstOf(sh, record) \in Nat \ {0} /\ shardFiles'[at][sh] = Append(file, new)
  BY DEF Given
<1>3. \/ row \in ToSet(rows) \/ row \in ToSet(old)
      \/ \E r \in ToSet(file) : row \in ToSet(r.rows)
  BY DEF MovedRow
<1> HIDE DEF old, file
<1>4. /\ old \o rows \in Seq(Nat \X Nat)
      /\ \A y : y \in ToSet(old \o rows) <=> y \in ToSet(old) \/ y \in ToSet(rows)
  BY <1>1, ToSetConcat
<1>5. CASE accum'[sh].rows = old \o rows /\ shardFiles'[at][sh] = file
  BY <1>3, <1>4, <1>5 DEF MovedRow
<1>6. CASE FirstOf(sh, record) \in Nat \ {0} /\ shardFiles'[at][sh] = Append(file, new)
  <2>1. new \in RecordType /\ new.rows = old \o rows
    BY <1>4, <1>6, RecordFields
  <2> HIDE DEF new
  <2>2. \A y : y \in ToSet(Append(file, new)) <=> y \in ToSet(file) \/ y = new
    BY <1>1, <2>1, ToSetAppend
  <2>3. \E r \in ToSet(Append(file, new)) : row \in ToSet(r.rows)
    BY <1>3, <1>4, <2>1, <2>2
  <2> QED
    BY <1>6, <2>3 DEF MovedRow
<1> QED
  BY <1>2, <1>5, <1>6

(* A row that is read goes to its shard; the others stay unread. *)
LEMMA SplitRecordPlaces ==
  ASSUME IInv, PlacesInv, SplitRecord
  PROVE  PlacesInv'
<1> DEFINE n == Pick
            record == HeadOf(n)
<1>1. SplitRecordFacts
  BY SplitRecordGives
<1>2. /\ phase = "split" /\ phase' = "split" /\ n \in Live /\ ReadOn(n)
      /\ UNCHANGED <<setting, input, store, counts, losses, sweeps, shards, at, read>>
      /\ \A sh \in Shard : Given(sh, record, OfShard(record.rows, sh))
  BY <1>1 DEF SplitRecordFacts
<1>3. Names' = Names /\ Sharded' = Sharded /\ \A sh : Share(sh)' = Share(sh)
  BY <1>2, GivenSame
<1>4. /\ n \in Names /\ record \in RecordType /\ record.rows \in Seq(Nat \X Nat)
      /\ record = sinkFiles[at][n][cursor[n] + 1]
  BY <1>2, PickLive, RecordFields DEF HeadOf
<1>5. /\ sweeps = 0 /\ Sharded /\ (\A sh \in Shard : read[sh].state = "none")
      /\ at \in Temp /\ cursor \in [Names -> Nat] /\ expect \in [Shard -> Nat]
      /\ sinkFiles \in [Temp -> [Names -> Seq(RecordType)]]
  BY <1>2 DEF PlacesInv, Swept, IInv, TypeOK, PhaseOK, SplitPhase
<1>6. ASSUME NEW sh \in Shard
      PROVE  OfShard(record.rows, sh) \in Seq(Nat \X Nat)
  BY <1>2, <1>4, HeadShares
<1> HIDE DEF n, record
<1>7. StoreUsed' /\ StoreShort'
  BY <1>2 DEF PlacesInv, StoreUsed, StoreShort
<1>8. Swept' /\ SinkPlaces' /\ WholePlaces'
  BY <1>2, <1>5 DEF Swept, SinkPlaces, WholePlaces
<1>9. SplitPlaces'
  <2> SUFFICES ASSUME NEW sh \in Shard, NEW row \in Share(sh)
               PROVE  UnreadRow(row)' \/ HandedRow(sh, row)'
    BY <1>2, <1>3 DEF SplitPlaces
  <2> DEFINE mine == OfShard(record.rows, sh)
  <2>1. /\ mine \in Seq(Nat \X Nat) /\ Given(sh, record, mine)
        /\ expect'[sh] = expect[sh] + Len(mine) /\ Len(mine) \in Nat /\ expect[sh] \in Nat
    <3>1. Given(sh, record, mine) /\ mine \in Seq(Nat \X Nat)
      BY <1>2, <1>6
    <3> HIDE DEF mine
    <3>2. expect'[sh] = expect[sh] + Len(mine)
      BY <3>1, Zenon DEF Given
    <3>3. Len(mine) \in Nat
      BY <3>1
    <3> QED
      BY <1>5, <3>1, <3>2, <3>3
  <2>2. row \in ToSet(record.rows) => row \in ToSet(mine)
    <3>1. ShardOf(row) = sh
      BY <1>5 DEF Share
    <3>2. record.rows \in Seq(Nat \X Nat)
      BY <1>4
    <3>3. row \in ToSet(mine) <=> row \in ToSet(record.rows) /\ ShardOf(row) = sh
      BY <3>2, OfShardProperties
    <3> QED
      BY <3>1, <3>3
  <2> HIDE DEF mine
  <2>3. ASSUME row \in ToSet(mine)
        PROVE  HandedRow(sh, row)'
    <3>1. Len(mine) > 0
      BY <2>1, <2>3 DEF ToSet
    <3>2. expect'[sh] > 0
      BY <2>1, <3>1
    <3>3. MovedRow(sh, row)'
      BY <1>2, <1>4, <2>1, <2>3, GivenMoves
    <3> QED
      BY <3>2, <3>3 DEF HandedRow
  <2>4. CASE HandedRow(sh, row)
    <3>1. expect[sh] > 0 /\ MovedRow(sh, row)
      BY <1>5, <2>4 DEF HandedRow
    <3>2. expect'[sh] > 0
      BY <2>1, <3>1
    <3>3. MovedRow(sh, row)'
      BY <1>2, <1>4, <2>1, <3>1, GivenMoves
    <3> QED
      BY <3>2, <3>3 DEF HandedRow
  <2>5. CASE UnreadRow(row)
    <3> PICK m \in Names : \E i \in 1 .. Len(sinkFiles[at][m]) :
            cursor[m] < i /\ row \in ToSet(sinkFiles[at][m][i].rows)
      BY <2>5 DEF UnreadRow
    <3>1. PICK i \in 1 .. Len(sinkFiles[at][m]) :
            cursor[m] < i /\ row \in ToSet(sinkFiles[at][m][i].rows)
      OBVIOUS
    <3>2. CASE m # n
      BY <1>2, <1>3, <3>1, <3>2 DEF UnreadRow, ReadOn
    <3>3. CASE m = n /\ i = cursor[n] + 1
      BY <1>4, <2>2, <2>3, <3>1, <3>3
    <3>4. CASE m = n /\ i # cursor[n] + 1
      <4>1. cursor[n] \in Nat /\ Len(sinkFiles[at][n]) \in Nat /\ sinkFiles[at][n] \in Seq(RecordType)
        BY <1>4, <1>5
      <4>2. cursor[n] + 1 < i /\ cursor[n] + 1 # Len(sinkFiles[at][n])
        BY <3>1, <3>4, <4>1
      <4>3. cursor'[n] = cursor[n] + 1 /\ sinkFiles'[at][n] = sinkFiles[at][n]
        BY <1>2, <4>2 DEF ReadOn
      <4> QED
        BY <1>2, <1>3, <1>4, <3>1, <3>4, <4>2, <4>3 DEF UnreadRow
    <3> QED
      BY <3>2, <3>3, <3>4
  <2>6. UnreadRow(row) \/ HandedRow(sh, row)
    BY <1>2, <1>5 DEF PlacesInv, SplitPlaces
  <2> QED
    BY <2>4, <2>5, <2>6
<1> QED
  BY <1>7, <1>8, <1>9 DEF PlacesInv

(* At the end of the split every row is in the file of its shard. *)
LEMMA SplitEndsPlaces ==
  ASSUME IInv, PlacesInv, SplitEnds
  PROVE  PlacesInv'
<1>1. SplitEndsFacts
  BY SplitEndsGives
<1>2. /\ phase = "split" /\ phase' = "produce"
      /\ UNCHANGED <<setting, input, store, counts, losses, sweeps, shards, expect, at, read>>
      /\ \A n \in Names : sinkFiles[at][n] = <<>>
  BY <1>1 DEF SplitEndsFacts
<1>3. Sharded' = Sharded /\ \A sh : Share(sh)' = Share(sh)
  BY <1>2, GivenSame
<1>4. /\ sweeps = 0 /\ Sharded /\ (\A sh \in Shard : read[sh].state = "none")
      /\ at \in Temp /\ expect \in [Shard -> Nat]
  BY <1>2 DEF PlacesInv, Swept, IInv, TypeOK, PhaseOK, SplitPhase
<1>5. StoreUsed' /\ StoreShort'
  BY <1>2 DEF PlacesInv, StoreUsed, StoreShort
<1>6. Swept' /\ SinkPlaces' /\ WholePlaces'
  BY <1>2, <1>3, <1>4 DEF Swept, SinkPlaces, WholePlaces
<1>7. SplitPlaces'
  <2> SUFFICES ASSUME NEW sh \in Shard, NEW row \in Share(sh)
               PROVE  HandedRow(sh, row)'
    BY <1>2, <1>3 DEF SplitPlaces
  <2> DEFINE file == shardFiles[at][sh]
             old == accum[sh].rows
             new == Record(accum[sh].first, old)
  <2>1. ~UnreadRow(row)
    <3>1. \A n \in Names : 1 .. Len(sinkFiles[at][n]) = {}
      BY <1>2
    <3> QED
      BY <3>1 DEF UnreadRow
  <2>2. expect[sh] > 0 /\ MovedRow(sh, row)
    BY <1>2, <1>4, <2>1 DEF PlacesInv, SplitPlaces, HandedRow
  <2>3. \/ old = <<>> /\ shardFiles'[at][sh] = file
        \/ accum[sh].first \in Nat \ {0} /\ shardFiles'[at][sh] = Append(file, new)
    BY <1>1 DEF SplitEndsFacts
  <2>4. old \in Seq(Nat \X Nat) /\ file \in Seq(RecordType)
    BY <1>4 DEF IInv, TypeOK
  <2>5. row \in ToSet(old) \/ \E r \in ToSet(file) : row \in ToSet(r.rows)
    BY <2>2 DEF MovedRow
  <2> HIDE DEF old, file
  <2>6. \E r \in ToSet(shardFiles'[at][sh]) : row \in ToSet(r.rows)
    <3>1. CASE old = <<>> /\ shardFiles'[at][sh] = file
      BY <2>5, <3>1, ToSetEmpty
    <3>2. CASE accum[sh].first \in Nat \ {0} /\ shardFiles'[at][sh] = Append(file, new)
      <4>1. new \in RecordType /\ new.rows = old
        BY <2>4, <3>2, RecordFields
      <4> HIDE DEF new
      <4>2. \A y : y \in ToSet(Append(file, new)) <=> y \in ToSet(file) \/ y = new
        BY <2>4, <4>1, ToSetAppend
      <4> QED
        BY <2>5, <3>2, <4>1, <4>2
    <3> QED
      BY <2>3, <3>1, <3>2
  <2>7. MovedRow(sh, row)'
    BY <1>2, <2>6 DEF MovedRow
  <2> QED
    BY <1>2, <2>2, <2>7 DEF HandedRow
<1> QED
  BY <1>5, <1>6, <1>7 DEF PlacesInv

(* A producer that ends takes no row from another. *)
LEMMA EndOfStreamPlaces ==
  ASSUME IInv, PlacesInv, NEW t \in Temp, NEW sh \in Shard, EndOfStream(t, sh)
  PROVE  PlacesInv'
<1>1. EndFacts(t, sh)
  BY EndGives
<1>2. /\ phase = "produce" /\ phase' \in {"produce", "done"} /\ sh \in Producers
      /\ UNCHANGED <<setting, input, store, counts, losses, sweeps, shards, expect, at, cursor, accum>>
      /\ \A p \in Shard : read'[p].state = IF p = sh THEN "ended" ELSE read[p].state
      /\ \A u \in Temp : \A p \in Shard :
           shardFiles'[u][p] = IF u = t /\ (Sharded => p = sh) THEN <<>> ELSE shardFiles[u][p]
  BY <1>1 DEF EndFacts
<1>3. /\ Sharded' = Sharded /\ (\A p : Share(p)' = Share(p)) /\ at \in Temp
      /\ 0 \in Shard /\ (~Sharded => sh = 0)
  BY <1>2, GivenSame, ShardZero DEF IInv, TypeOK
<1>4. StoreUsed' /\ StoreShort'
  BY <1>2 DEF PlacesInv, StoreUsed, StoreShort
<1>5. Swept' /\ SinkPlaces'
  BY <1>2 DEF PlacesInv, Swept, SinkPlaces
<1>6. WholePlaces'
  BY <1>2, <1>3 DEF WholePlaces
<1>7. SplitPlaces'
  <2> SUFFICES ASSUME Sharded, NEW p \in Shard, read'[p].state # "ended", NEW row \in Share(p)
               PROVE  HandedRow(p, row)'
    BY <1>2, <1>3 DEF SplitPlaces
  <2>1. p # sh /\ read[p].state # "ended" /\ shardFiles'[at][p] = shardFiles[at][p]
    BY <1>2, <1>3
  <2>2. HandedRow(p, row)
    BY <1>2, <2>1 DEF PlacesInv, SplitPlaces
  <2> QED
    BY <1>2, <2>1, <2>2 DEF HandedRow, MovedRow
<1> QED
  BY <1>4, <1>5, <1>6, <1>7 DEF PlacesInv


(* Every step keeps account of every row. *)
LEMMA PlacesStep ==
  ASSUME IInv, SpoolInv, PlacesInv, OneTemp, Accountable, [Next]_vars
  PROVE  PlacesInv'
<1>1. CASE UNCHANGED vars
  <2>1. /\ UNCHANGED <<setting, input, shards, at, cursor, expect, accum, sinkFiles, shardFiles>>
        /\ UNCHANGED <<store, counts, sweeps, losses, ran, phase, taken, holding, read>>
    BY <1>1 DEF vars, spoolVars, given, sinking, disk, sdk, splitVars
  <2> QED
    BY <2>1, PlacesFramed
<1>2. CASE Sink /\ UNCHANGED <<splitVars, read>>
  <2>1. UNCHANGED <<shards, at, cursor, expect, accum, read>>
    BY <1>2 DEF splitVars
  <2>2. ASSUME NEW s \in Stream, NEW w \in Worker, AppendFails(s, w)
        PROVE  PlacesInv'
    BY <2>1, <2>2, PlacesFramed DEF AppendFails, given, sinking, disk, sdk
  <2>3. ASSUME NEW w \in Worker, Evict(w)
        PROVE  PlacesInv'
    BY <2>1, <2>3, PlacesFramed DEF Evict, given, sinking, sdk
  <2> QED
    BY <1>2, <2>2, <2>3, TakePlaces, AppendSpoolPlaces, AppendStorePlaces, SweepPlaces,
       StoreLosesPlaces DEF Sink
<1>3. CASE \E t \in Temp : Combine(t)
  BY <1>3, CombinePlaces
<1>4. CASE SplitRecord \/ SplitEnds
  BY <1>4, SplitRecordPlaces, SplitEndsPlaces
<1>5. CASE SplitFails
  BY <1>5, PlacesFramed DEF SplitFails, given, sinking, disk, sdk, splitVars
<1>6. CASE Produce
  <2>1. ASSUME NEW t \in Temp, NEW sh \in Shard, ReadBack(t, sh)
        PROVE  PlacesInv'
    <3>1. /\ read[sh].state # "ended"
          /\ read' = [read EXCEPT ![sh] = [state |-> "ok", rows |-> RowsOf(Buffered(t, sh))]]
          /\ UNCHANGED <<setting, input, shards, at, cursor, expect, accum, sinkFiles, shardFiles>>
          /\ UNCHANGED <<store, counts, sweeps, losses, ran, phase, taken, holding>>
      BY <2>1 DEF ReadBack, spoolVars, given, sinking, disk, sdk, splitVars
    <3>2. \A p \in Shard : (read'[p].state = "ended") <=> (read[p].state = "ended")
      BY <3>1 DEF IInv, TypeOK
    <3> QED
      BY <3>1, <3>2, PlacesFramed
  <2>2. ASSUME NEW t \in Temp, NEW sh \in Shard, ReadFails(t, sh)
        PROVE  PlacesInv'
    BY <2>2, PlacesFramed DEF ReadFails, given, sinking, disk, sdk, splitVars
  <2> QED
    BY <1>6, <2>1, <2>2, EndOfStreamPlaces DEF Produce
<1> QED
  BY <1>1, <1>2, <1>3, <1>4, <1>5, <1>6 DEF Next

(* What passes the checks of read_batches is a producer's whole share.      *)
LEMMA IntactIsWhole ==
  ASSUME IInv, PlacesInv, OneTemp, phase = "produce",
         NEW t \in Temp, NEW sh \in Producers, read[sh].state # "ended", Intact(t, sh)
  PROVE  Share(sh) \subseteq ToSet(RowsOf(Buffered(t, sh)))
<1>1. t = at /\ sh \in Shard /\ (~Sharded => sh = 0) /\ TypeOK
  <2>1. TypeOK
    BY DEF IInv
  <2> QED
    BY <2>1, ShardZero DEF OneTemp, TypeOK
<1>2. /\ Spooled(t, sh) \in Seq(RecordType) /\ store[t] \in Seq(RecordType)
      /\ NumRows(Collected(t, sh)) = NumRows(Spooled(t, sh)) + NumRows(store[t])
      /\ \A x : x \in ToSet(RowsOf(Buffered(t, sh)))
                  <=> \E r \in ToSet(Spooled(t, sh)) \cup ToSet(store[t]) : x \in ToSet(r.rows)
  BY <1>1, CollectedTyped
<1> SUFFICES ASSUME NEW row \in Share(sh)
             PROVE  \E r \in ToSet(Spooled(t, sh)) \cup ToSet(store[t]) : row \in ToSet(r.rows)
  BY <1>2
<1>3. NumRows(Spooled(t, sh)) \in Nat /\ NumRows(store[t]) \in Nat
  BY <1>2, SizesTyped
<1>4. CASE Sharded
  <2>1. store[t] = <<>> /\ accum[sh] = Empty /\ Spooled(t, sh) = shardFiles[t][sh]
    BY <1>1, <1>4 DEF Spooled, IInv, PhaseOK, ProducePhase
  <2>2. HandedRow(sh, row)
    BY <1>1, <1>4 DEF PlacesInv, SplitPlaces
  <2>3. NumRows(Spooled(t, sh)) = expect[sh]
    <3>1. NumRows(store[t]) = 0
      BY <2>1, NumRowsOne
    <3> QED
      BY <1>2, <1>3, <1>4, <3>1 DEF Intact
  <2>4. shardFiles[at][sh] # <<>>
    <3>1. NumRows(<<>>) = 0
      BY NumRowsOne
    <3>2. expect[sh] > 0
      BY <2>2 DEF HandedRow
    <3> QED
      BY <1>1, <2>1, <2>3, <3>1, <3>2
  <2>5. row \notin ToSet(accum[sh].rows)
    BY <2>1, ToSetEmpty DEF Empty
  <2> QED
    BY <1>1, <2>1, <2>2, <2>4, <2>5 DEF HandedRow, MovedRow
<1>5. CASE ~Sharded
  <2>1. PICK k \in 1 .. Len(input) : row \in ToSet(Rows(k))
    BY DEF Share, Rows
  <2>2. /\ sweeps > 0 => \A n \in Names : sinkFiles[at][n] = <<>>
        /\ ran # {} /\ (sweeps = 0 => Kept(k))
    BY <1>1, <1>5 DEF PlacesInv, WholePlaces
  <2>3. /\ Collected(t, sh) # <<>>
        /\ NumRows(Spooled(t, sh)) + NumRows(store[t]) = NumRows(Spooled(t, sh)) + Total(counts[t])
        /\ Spooled(t, sh) = SinkRecords(t)
    BY <1>2, <1>5, <2>2 DEF Intact, ExpectedRows, Spooled
  <2>4. sinkFiles[t] \in [Names -> Seq(RecordType)] /\ Names \in SUBSET Nat /\ counts[t] \in Seq(Nat)
    BY <1>1, SettingFields DEF TypeOK
  <2>5. \A r : r \in ToSet(SinkRecords(t)) <=> \E n \in Names : r \in ToSet(sinkFiles[t][n])
    BY <2>4, SinkRecordsMembers
  <2>6. sweeps = 0
    <3> SUFFICES ASSUME sweeps > 0
                 PROVE  FALSE
      BY <1>1 DEF TypeOK
    <3>1. store[t] = <<>>
      BY DEF PlacesInv, Swept, StoreUsed
    <3>2. \A r : r \notin ToSet(SinkRecords(t))
      BY <1>1, <2>2, <2>5, ToSetEmpty
    <3>3. SinkRecords(t) = <<>>
      <4>1. SinkRecords(t) # <<>> => SinkRecords(t)[1] \in ToSet(SinkRecords(t))
        BY <1>2, <2>3 DEF ToSet
      <4> QED
        BY <3>2, <4>1
    <3>4. <<>> \o <<>> = <<>>
      OBVIOUS
    <3> QED
      BY <2>3, <3>1, <3>3, <3>4 DEF Collected
  <2>7. Kept(k) /\ Batch(k).rows = Rows(k) /\ Rows(k) \in Seq(Nat \X Nat)
    BY <1>1, <2>2, <2>6, BatchFields
  <2>8. ~Missed(k)
    <3>1. Len(Rows(k)) \in Nat /\ Len(Rows(k)) > 0
      BY <2>1, <2>7 DEF ToSet
    <3>2. NumRows(store[t]) = Total(counts[t]) /\ Total(counts[t]) \in Nat
      <4>1. Total(counts[t]) \in Nat
        BY <2>4, TotalBounds
      <4>2. ASSUME NEW a \in Nat, NEW b \in Nat, NEW c \in Nat, a + b = a + c
            PROVE  b = c
        BY <4>2
      <4> QED
        BY <1>3, <2>3, <4>1, <4>2
    <3> QED
      BY <1>1, <1>3, <3>1, <3>2 DEF Missed
  <2>9. \/ Batch(k) \in ToSet(store[t])
        \/ Batch(k) \in ToSet(Spooled(t, sh))
    BY <1>1, <2>3, <2>5, <2>7, <2>8 DEF Kept
  <2> QED
    BY <2>1, <2>7, <2>9
<1> QED
  BY <1>4, <1>5

(* So no producer is ever given less than its share. *)
LEMMA NeverShortStep ==
  ASSUME IInv, PlacesInv, OneTemp, NeverShort, [Next]_vars
  PROVE  NeverShort'
<1>1. ASSUME UNCHANGED <<input, shards>>,
             \A sh \in Producers : read'[sh].rows = read[sh].rows,
             \A sh \in Producers : read'[sh].state # "none" => read[sh].state # "none"
      PROVE  NeverShort'
  <2>1. /\ Producers' = Producers
        /\ \A sh : Share(sh)' = Share(sh)
    BY <1>1 DEF Producers, Share, Rows, Sharded, ShardOf, KeyOf
  <2> QED
    BY <1>1, <2>1 DEF NeverShort
<1>2. CASE UNCHANGED <<input, shards, read>>
  BY <1>1, <1>2
<1>3. ASSUME NEW t \in Temp, Combine(t)
      PROVE  NeverShort'
  <2>1. phase = "sink" /\ UNCHANGED read
    BY <1>3 DEF Combine, Sunk
  <2>2. Producers' \subseteq Shard
    <3>1. TypeOK'
      BY <1>3, CombineKeeps DEF IInv
    <3>2. shards' \in 1 .. MaxShards
      BY <3>1 DEF TypeOK
    <3> QED
      BY <3>2, RangeKept DEF Producers, Shard
  <2> QED
    BY <2>1, <2>2 DEF NeverShort, IInv, PhaseOK, SinkPhase
<1>4. ASSUME NEW t \in Temp, NEW sh \in Shard, ReadBack(t, sh)
      PROVE  NeverShort'
  <2> DEFINE rows == RowsOf(Buffered(t, sh))
  <2>1. /\ phase = "produce" /\ sh \in Producers /\ read[sh].state # "ended" /\ Intact(t, sh)
        /\ read' = [read EXCEPT ![sh] = [state |-> "ok", rows |-> rows]]
        /\ UNCHANGED <<setting, input, shards>>
    BY <1>4 DEF ReadBack, spoolVars, given, splitVars
  <2>2. Share(sh) \subseteq ToSet(rows)
    BY <2>1, IntactIsWhole
  <2> HIDE DEF rows
  <2>3. /\ Producers' = Producers /\ (\A p : Share(p)' = Share(p)) /\ Producers \subseteq Shard
    BY <2>1, GivenSame, ShardZero DEF IInv
  <2>4. \A p \in Producers : read'[p] = IF p = sh THEN [state |-> "ok", rows |-> rows] ELSE read[p]
    BY <2>1, <2>3 DEF IInv, TypeOK
  <2> QED
    BY <2>2, <2>3, <2>4 DEF NeverShort
<1>5. ASSUME NEW t \in Temp, NEW sh \in Shard, EndOfStream(t, sh)
      PROVE  NeverShort'
  <2>1. EndFacts(t, sh)
    BY <1>5, EndGives
  <2>2. read[sh].state = "ok" /\ Producers \subseteq Shard
    BY <2>1, ShardZero DEF EndFacts, IInv
  <2> QED
    BY <1>1, <2>1, <2>2 DEF EndFacts
<1>6. CASE UNCHANGED vars
  BY <1>2, <1>6 DEF vars, spoolVars, given, splitVars
<1>7. CASE Sink /\ UNCHANGED <<splitVars, read>>
  <2>1. UNCHANGED input
    BY <1>7 DEF Sink, Take, AppendSpool, AppendStore, AppendFails, Evict, Sweep, StoreLoses, given
  <2> QED
    BY <1>2, <1>7, <2>1 DEF splitVars
<1>8. CASE SplitRecord \/ SplitEnds \/ SplitFails
  BY <1>2, <1>8 DEF SplitRecord, SplitEnds, SplitFails, given, splitVars
<1>9. CASE Produce
  <2>1. ASSUME NEW t \in Temp, NEW sh \in Shard, ReadFails(t, sh)
        PROVE  NeverShort'
    BY <1>2, <2>1 DEF ReadFails, given, splitVars
  <2> QED
    BY <1>4, <1>5, <1>9, <2>1 DEF Produce
<1> QED
  BY <1>3, <1>6, <1>7, <1>8, <1>9 DEF Next

(* "Never a short answer" (README.md, and the docs of read_batches): on one *)
(* temp directory and where nothing is lost unseen, a producer that reads   *)
(* its part of the relation back has every row of its share, whichever      *)
(* threads sank them, however the relation was split, and however often the *)
(* producer is rebuilt while the spool is swept under it.                   *)
THEOREM NeverShortAnswer ==
  ASSUME OneTemp, Accountable
  PROVE  Spec => []NeverShort
<1> DEFINE Inv == IInv /\ SpoolInv /\ PlacesInv /\ NeverShort
<1>1. Init => Inv
  <2> SUFFICES ASSUME Init
               PROVE  NeverShort
    BY InitHolds, SpoolInvInit, PlacesInit
  <2>1. read = [sh \in Shard |-> Unread] /\ shards = 1
    BY DEF Init
  <2>2. 0 .. 0 \subseteq Shard /\ Unread.state = "none"
    BY SpoolAssumption DEF Shard, Unread
  <2> QED
    BY <2>1, <2>2 DEF NeverShort, Producers
<1>2. Inv /\ [Next]_vars => Inv'
  BY StepKeeps, SpoolStep, PlacesStep, NeverShortStep
<1>3. Inv => NeverShort
  OBVIOUS
<1> HIDE DEF Inv
<1> QED
  BY <1>1, <1>2, <1>3, PTL DEF Spec

-----------------------------------------------------------------------------
(* Where each row is, and in what order: every batch is sunk once and every *)
(* row handed to its shard once, a shard is written in input order, and     *)
(* what a producer reads back is in input order.                            *)

-----------------------------------------------------------------------------
(* The input order of what the producers read back.                        *)

(* Streams that share a sink file are one: then the batches of a file       *)
(* ascend.  Only a query that may be split needs it.                        *)
Orderly ==
  \A c \in Setting : c.partitioned =>
    \A s, q \in Stream : \A w \in c.serves[s], v \in c.serves[q] :
      c.tempOf[w] = c.tempOf[v] /\ c.fileOf[w] = c.fileOf[v] => s = q

InOrder(rows) == \A i, j \in 1 .. Len(rows) : i < j => Before(rows[i], rows[j])
AllBefore(A, B) == \A x \in A, y \in B : Before(x, y)

(* Sequences in order, each before the next, are in order when joined.      *)
LEMMA JoinInOrder ==
  ASSUME NEW S, NEW n \in Nat, NEW ss \in [1 .. n -> Seq(S)], Len(ss) = n,
         \A k \in 1 .. n : InOrder(ss[k]),
         \A k, l \in 1 .. n : k < l => AllBefore(ToSet(ss[k]), ToSet(ss[l]))
  PROVE  InOrder(FlattenSeq(ss))
<1> DEFINE flat == FlattenSeq(ss)
            off == Offsets(ss)
            len == Lengths(ss)
<1>1. len \in [1 .. n -> Nat] /\ IsOffsets(n, len, off)
  BY FlattenProperties
<1>2. \A k \in 1 .. n : len[k] = Len(ss[k])
  BY DEF Lengths
<1>3. ASSUME NEW r \in 1 .. Len(flat)
      PROVE  \E k \in 1 .. n : \E i \in 1 .. Len(ss[k]) : r = off[k - 1] + i /\ flat[r] = ss[k][i]
  <2>1. StandsAt(r, ss)
    BY FlattenPlaces
  <2> QED
    BY <2>1 DEF StandsAt
<1> HIDE DEF flat, off, len
<1>4. \A j, k \in 0 .. n : j <= k => off[j] <= off[k]
  BY <1>1, OffsetsGrow
<1>5. /\ \A k \in 0 .. n : off[k] \in Nat
      /\ \A k \in 1 .. n : off[k] = off[k - 1] + len[k]
  BY <1>1 DEF IsOffsets
<1> SUFFICES ASSUME NEW p \in 1 .. Len(flat), NEW q \in 1 .. Len(flat), p < q
             PROVE  Before(flat[p], flat[q])
  BY DEF InOrder, flat
<1>6. PICK k \in 1 .. n : \E i \in 1 .. Len(ss[k]) : p = off[k - 1] + i /\ flat[p] = ss[k][i]
  BY <1>3
<1>7. PICK i \in 1 .. Len(ss[k]) : p = off[k - 1] + i /\ flat[p] = ss[k][i]
  BY <1>6
<1>8. PICK l \in 1 .. n : \E j \in 1 .. Len(ss[l]) : q = off[l - 1] + j /\ flat[q] = ss[l][j]
  BY <1>3
<1>9. PICK j \in 1 .. Len(ss[l]) : q = off[l - 1] + j /\ flat[q] = ss[l][j]
  BY <1>8
<1>10. /\ k - 1 \in 0 .. n /\ l - 1 \in 0 .. n /\ l \in 0 .. n
       /\ off[k - 1] \in Nat /\ off[l - 1] \in Nat /\ off[l] \in Nat
       /\ off[l] = off[l - 1] + Len(ss[l])
       /\ i \in Nat /\ j \in Nat /\ j <= Len(ss[l]) /\ i >= 1 /\ Len(ss[l]) \in Nat
  <2>1. k - 1 \in 0 .. n /\ l - 1 \in 0 .. n /\ l \in 0 .. n
    OBVIOUS
  <2>2. off[k - 1] \in Nat /\ off[l - 1] \in Nat /\ off[l] \in Nat
    BY <1>5, <2>1
  <2>3. off[l] = off[l - 1] + Len(ss[l])
    BY <1>2, <1>5
  <2>4. Len(ss[l]) \in Nat
    OBVIOUS
  <2>5. i \in Nat /\ j \in Nat /\ j <= Len(ss[l]) /\ i >= 1
    <3>1. Len(ss[k]) \in Nat
      OBVIOUS
    <3> QED
      BY <2>4, <3>1
  <2> QED
    BY <2>1, <2>2, <2>3, <2>4, <2>5
<1>11. CASE k < l
  <2>1. flat[p] \in ToSet(ss[k]) /\ flat[q] \in ToSet(ss[l])
    <3>1. ss[k] \in Seq(S) /\ ss[l] \in Seq(S)
      OBVIOUS
    <3>2. ss[k][i] \in ToSet(ss[k]) /\ ss[l][j] \in ToSet(ss[l])
      BY <3>1, StandsIn
    <3> QED
      BY <1>7, <1>9, <3>2
  <2>2. AllBefore(ToSet(ss[k]), ToSet(ss[l]))
    BY <1>11
  <2> QED
    BY <2>1, <2>2, Zenon DEF AllBefore
<1>12. CASE k = l
  <2>1. i < j
    <3>1. ASSUME NEW a \in Nat, a + i < a + j
          PROVE  i < j
      BY <1>10, <3>1
    <3>2. off[k - 1] + i < off[k - 1] + j
      BY <1>7, <1>9, <1>12
    <3> QED
      BY <1>10, <3>1, <3>2
  <2>2. InOrder(ss[k]) /\ j \in 1 .. Len(ss[k]) /\ flat[q] = ss[k][j]
    BY <1>9, <1>12
  <2> QED
    BY <1>7, <2>1, <2>2, Zenon DEF InOrder
<1>13. CASE l < k
  <2>1. l <= k - 1
    BY <1>13
  <2>2. off[l] <= off[k - 1]
    BY <1>4, <1>10, <2>1
  <2>3. ASSUME NEW a \in Nat, NEW b \in Nat, NEW c \in Nat, NEW d \in Nat,
               d = a + Len(ss[l]), d <= c
        PROVE  ~(c + i < a + j)
    BY <1>10, <2>3
  <2> QED
    BY <1>7, <1>9, <1>10, <2>2, <2>3
<1> QED
  BY <1>11, <1>12, <1>13

(* So are two of them. *)
LEMMA ConcatInOrder ==
  ASSUME NEW S, NEW a \in Seq(S), NEW b \in Seq(S), InOrder(a), InOrder(b),
         AllBefore(ToSet(a), ToSet(b))
  PROVE  InOrder(a \o b)
<1>1. /\ Len(a \o b) = Len(a) + Len(b)
      /\ \A i \in 1 .. Len(a) + Len(b) : (a \o b)[i] = IF i <= Len(a) THEN a[i] ELSE b[i - Len(a)]
  BY ConcatProperties
<1> DEFINE ab == a \o b
<1>2. Len(a) \in Nat /\ Len(b) \in Nat
  OBVIOUS
<1> HIDE DEF ab
<1> SUFFICES ASSUME NEW i \in 1 .. Len(a) + Len(b), NEW j \in 1 .. Len(a) + Len(b), i < j
             PROVE  Before(ab[i], ab[j])
  BY <1>1 DEF InOrder, ab
<1>3. /\ ab[i] = IF i <= Len(a) THEN a[i] ELSE b[i - Len(a)]
      /\ ab[j] = IF j <= Len(a) THEN a[j] ELSE b[j - Len(a)]
  BY <1>1 DEF ab
<1>4. CASE j <= Len(a)
  <2>1. i \in 1 .. Len(a) /\ j \in 1 .. Len(a) /\ i <= Len(a)
    BY <1>2, <1>4
  <2> QED
    BY <1>3, <1>4, <2>1 DEF InOrder
<1>5. CASE i <= Len(a) /\ ~(j <= Len(a))
  <2>1. i \in 1 .. Len(a) /\ j - Len(a) \in 1 .. Len(b)
    BY <1>2, <1>5
  <2>2. ab[i] \in ToSet(a) /\ ab[j] \in ToSet(b)
    BY <1>3, <1>5, <2>1 DEF ToSet
  <2> QED
    BY <2>2 DEF AllBefore
<1>6. CASE ~(i <= Len(a))
  <2>1. /\ i - Len(a) \in 1 .. Len(b) /\ j - Len(a) \in 1 .. Len(b)
        /\ i - Len(a) < j - Len(a) /\ ~(j <= Len(a))
    BY <1>2, <1>6
  <2> QED
    BY <1>3, <1>6, <2>1 DEF InOrder
<1> QED
  BY <1>4, <1>5, <1>6

(* The rows of a batch are in order and carry its number. *)
LEMMA RowsInOrder ==
  ASSUME input \in Inputs, NEW k \in 1 .. Len(input)
  PROVE  InOrder(Rows(k)) /\ \A x \in ToSet(Rows(k)) : x[1] = k
<1>1. Len(input[k]) \in Nat
  <2>1. input \in Seq(Seq(DOMAIN Hash))
    BY BufferingAssumption
  <2>2. input[k] \in Seq(DOMAIN Hash)
    BY <2>1
  <2> QED
    BY <2>2
<1>2. Rows(k) = [j \in 1 .. Len(input[k]) |-> <<k, j>>] /\ Len(Rows(k)) = Len(input[k])
  BY <1>1 DEF Rows
<1>3. \A j \in 1 .. Len(Rows(k)) : Rows(k)[j] = <<k, j>>
  BY <1>2
<1> QED
  BY <1>3 DEF InOrder, Before, ToSet

(* A shard's rows keep their order. *)
LEMMA OfShardInOrder ==
  ASSUME NEW S, NEW rows \in Seq(S), InOrder(rows), NEW sh
  PROVE  InOrder(OfShard(rows, sh))
<1> DEFINE mine == OfShard(rows, sh)
<1>1. \A i, j \in 1 .. Len(mine) : i < j =>
        \E a, b \in 1 .. Len(rows) : a < b /\ mine[i] = rows[a] /\ mine[j] = rows[b]
  BY OfShardProperties
<1> HIDE DEF mine
<1>2. InOrder(mine)
  BY <1>1 DEF InOrder
<1> QED
  BY <1>2 DEF mine

(* No two records have the same index. *)
Apart(records) ==
  \A i, j \in 1 .. Len(records) : records[i].index = records[j].index => i = j

(* Records that, sorted by index, are in input order.                       *)
Sortable(records) ==
  /\ Apart(records)
  /\ \A i \in 1 .. Len(records) : InOrder(records[i].rows)
  /\ \A i, j \in 1 .. Len(records) :
       records[i].index < records[j].index =>
         AllBefore(ToSet(records[i].rows), ToSet(records[j].rows))

(* The sort of the read-back puts them so. *)
LEMMA SortedInOrder ==
  ASSUME NEW records \in Seq(RecordType), Sortable(records)
  PROVE  InOrder(RowsOf(ByIndex(records)))
<1> DEFINE n == Len(records)
            sorted == ByIndex(records)
            ss == [k \in 1 .. Len(sorted) |-> sorted[k].rows]
<1>1. PICK order : SortsBy(order, records, sorted)
  BY ByIndexSorts
<1>2. /\ sorted \in Seq(RecordType) /\ Len(sorted) = n /\ n \in Nat
      /\ \A p \in 1 .. n : order[p] \in 1 .. n /\ sorted[p] = records[order[p]]
      /\ \A p, q \in 1 .. n : p < q => Earlier(records, order[p], order[q])
  <2>1. n \in Nat
    OBVIOUS
  <2> HIDE DEF sorted
  <2>2. \A p \in 1 .. n : order[p] \in 1 .. n
    BY <1>1 DEF SortsBy
  <2> QED
    BY <1>1, <2>1, <2>2 DEF SortsBy
<1> HIDE DEF sorted
<1>3. /\ ss \in [1 .. n -> Seq(Nat \X Nat)] /\ Len(ss) = n
      /\ RowsOf(sorted) = FlattenSeq(ss)
      /\ \A k \in 1 .. n : ss[k] = sorted[k].rows
  BY <1>2, RecordFields DEF RowsOf
<1> HIDE DEF ss, n
<1>4. ASSUME NEW k \in 1 .. n
      PROVE  InOrder(ss[k])
  <2>1. order[k] \in 1 .. Len(records) /\ ss[k] = records[order[k]].rows
    BY <1>2, <1>3 DEF n
  <2> QED
    BY <2>1 DEF Sortable
<1>5. ASSUME NEW k \in 1 .. n, NEW l \in 1 .. n, k < l
      PROVE  AllBefore(ToSet(ss[k]), ToSet(ss[l]))
  <2> DEFINE a == order[k]
             b == order[l]
  <2>1. /\ a \in 1 .. Len(records) /\ b \in 1 .. Len(records)
        /\ ss[k] = records[a].rows /\ ss[l] = records[b].rows /\ Earlier(records, a, b)
    BY <1>2, <1>3, <1>5 DEF n
  <2> HIDE DEF a, b
  <2>2. records[a].index < records[b].index
    <3>1. records[a].index = records[b].index => a = b
      BY <2>1 DEF Sortable, Apart
    <3>2. ~(a < a)
      BY <2>1
    <3> QED
      BY <2>1, <3>1, <3>2 DEF Earlier
  <2> QED
    BY <2>1, <2>2 DEF Sortable
<1>6. InOrder(FlattenSeq(ss))
  <2>1. n \in Nat
    BY <1>2
  <2> HIDE DEF InOrder, AllBefore
  <2> QED
    BY <1>3, <1>4, <1>5, <2>1, JoinInOrder
<1> QED
  BY <1>3, <1>6 DEF sorted

(* No two records of the sink files of a directory have the same index. *)
FilesApart(t) ==
  \A n, m \in Names : \A i \in 1 .. Len(sinkFiles[t][n]), j \in 1 .. Len(sinkFiles[t][m]) :
    sinkFiles[t][n][i].index = sinkFiles[t][m][j].index => n = m /\ i = j

(* Then no two of what is read of them have. *)
LEMMA SinkRecordsApart ==
  ASSUME NEW t \in Temp, Names \in SUBSET Nat, sinkFiles[t] \in [Names -> Seq(RecordType)],
         FilesApart(t)
  PROVE  Apart(SinkRecords(t))
<1> DEFINE c == Cardinality(Names)
            ss == [j \in 1 .. c |-> sinkFiles[t][Nth(Names, j)]]
<1>0. \A i, j \in 1 .. c : i < j => Nth(Names, i) < Nth(Names, j)
  BY NamesFinite, NthProperties
<1>1. c \in Nat /\ \A j \in 1 .. c : Nth(Names, j) \in Names
  BY NamesFinite, NthProperties
<1> HIDE DEF c
<1>2. ss \in [1 .. c -> Seq(RecordType)] /\ Len(ss) = c
  <2>1. ASSUME NEW j \in 1 .. c
        PROVE  sinkFiles[t][Nth(Names, j)] \in Seq(RecordType)
    BY <1>1
  <2> QED
    BY <1>1, <2>1
<1>3. SinkRecords(t) = FlattenSeq(ss)
  BY DEF SinkRecords, c
<1>4. \A j \in 1 .. c : ss[j] = sinkFiles[t][Nth(Names, j)]
  OBVIOUS
<1> HIDE DEF ss
<1> DEFINE flat == FlattenSeq(ss)
<1>5. ASSUME NEW p \in 1 .. Len(flat)
      PROVE  StandsAt(p, ss)
  BY <1>1, <1>2, FlattenPlaces
<1> HIDE DEF flat
<1> SUFFICES ASSUME NEW p \in 1 .. Len(flat), NEW q \in 1 .. Len(flat),
                    flat[p].index = flat[q].index
             PROVE  p = q
  BY <1>3 DEF Apart, flat
<1>6. PICK k \in 1 .. c : \E i \in 1 .. Len(ss[k]) : p = Offsets(ss)[k - 1] + i /\ flat[p] = ss[k][i]
  BY <1>2, <1>5 DEF StandsAt, flat
<1>7. PICK i \in 1 .. Len(ss[k]) : p = Offsets(ss)[k - 1] + i /\ flat[p] = ss[k][i]
  BY <1>6
<1>8. PICK l \in 1 .. c : \E j \in 1 .. Len(ss[l]) : q = Offsets(ss)[l - 1] + j /\ flat[q] = ss[l][j]
  BY <1>2, <1>5 DEF StandsAt, flat
<1>9. PICK j \in 1 .. Len(ss[l]) : q = Offsets(ss)[l - 1] + j /\ flat[q] = ss[l][j]
  BY <1>8
<1>10. Nth(Names, k) = Nth(Names, l) /\ i = j
  <2> DEFINE a == Nth(Names, k)
             b == Nth(Names, l)
  <2>1. a \in Names /\ b \in Names /\ ss[k] = sinkFiles[t][a] /\ ss[l] = sinkFiles[t][b]
    BY <1>1, <1>4
  <2> HIDE DEF a, b
  <2>2. /\ i \in 1 .. Len(sinkFiles[t][a]) /\ j \in 1 .. Len(sinkFiles[t][b])
        /\ sinkFiles[t][a][i].index = sinkFiles[t][b][j].index
    BY <1>7, <1>9, <2>1
  <2>3. \A x \in 1 .. Len(sinkFiles[t][a]), y \in 1 .. Len(sinkFiles[t][b]) :
          sinkFiles[t][a][x].index = sinkFiles[t][b][y].index => a = b /\ x = y
    BY <2>1, Zenon DEF FilesApart
  <2>4. a = b /\ i = j
    BY <2>2, <2>3, Zenon
  <2> QED
    BY <2>4 DEF a, b
<1>11. k = l
  <2>1. Nth(Names, k) \in Nat /\ Nth(Names, l) \in Nat
    BY <1>1
  <2>2. ~(k < l) /\ ~(l < k)
    BY <1>0, <1>10, <2>1
  <2> QED
    BY <1>1, <2>2
<1> QED
  BY <1>7, <1>9, <1>10, <1>11

-----------------------------------------------------------------------------
(* Every batch is sunk once.                                                *)

(* A stream holds a batch that was taken, and no other stream does. *)
HeldOnce ==
  \A s \in Stream :
    /\ holding[s] <= taken
    /\ \A q \in Stream : holding[s] # Idle /\ holding[s] = holding[q] => s = q

(* What is in the files and the store was taken and is no longer held. *)
Done(k) == k <= taken /\ \A s \in Stream : holding[s] # k
OnlyDone ==
  \A t \in Temp :
    /\ \A n \in Names : \A r \in ToSet(sinkFiles[t][n]) : Done(r.index)
    /\ \A r \in ToSet(store[t]) : Done(r.index)

(* And it is there once. *)
StoreApart(t) ==
  /\ Apart(store[t])
  /\ \A n \in Names : \A r \in ToSet(sinkFiles[t][n]), u \in ToSet(store[t]) : r.index # u.index
SunkOnce == \A t \in Temp : FilesApart(t) /\ StoreApart(t)

SinksInv == HeldOnce /\ OnlyDone /\ SunkOnce

(* The places of a sequence that grew by one. *)
LEMMA AppendPlaces ==
  ASSUME NEW S, NEW s \in Seq(S), NEW x \in S
  PROVE  /\ Append(s, x) \in Seq(S) /\ Len(Append(s, x)) = Len(s) + 1
         /\ \A i \in 1 .. Len(s) : i \in 1 .. Len(Append(s, x)) /\ Append(s, x)[i] = s[i]
         /\ \A i \in 1 .. Len(Append(s, x)) :
              \/ i \in 1 .. Len(s) /\ Append(s, x)[i] = s[i] /\ s[i] \in ToSet(s)
              \/ i = Len(s) + 1 /\ Append(s, x)[i] = x
<1>1. /\ Append(s, x) \in Seq(S) /\ Len(Append(s, x)) = Len(s) + 1
      /\ \A i \in 1 .. Len(s) : Append(s, x)[i] = s[i]
      /\ Append(s, x)[Len(s) + 1] = x
  BY AppendProperties
<1> DEFINE more == Append(s, x)
<1>2. Len(s) \in Nat
  OBVIOUS
<1> HIDE DEF more
<1>3. \A i \in 1 .. Len(s) : i \in 1 .. Len(s) + 1
  BY <1>2
<1>4. \A i \in 1 .. Len(s) + 1 : i \in 1 .. Len(s) \/ i = Len(s) + 1
  BY <1>2
<1>5. \A i \in 1 .. Len(s) : s[i] \in ToSet(s)
  BY DEF ToSet
<1> QED
  BY <1>1, <1>3, <1>4, <1>5

(* It holds before anything is sunk. *)
LEMMA SinksInit == Init => SinksInv
<1> SUFFICES ASSUME Init
             PROVE  SinksInv
  OBVIOUS
<1>1. /\ setting \in Setting /\ taken = 0 /\ holding = [s \in Stream |-> 0]
      /\ sinkFiles = [t \in Temp |-> NoFiles] /\ store = [t \in Temp |-> <<>>]
  BY DEF Init, SpoolInit, Idle
<1>2. \A t \in Temp : \A n \in Names : sinkFiles[t][n] = <<>> /\ 1 .. Len(sinkFiles[t][n]) = {}
  BY <1>1 DEF NoFiles
<1>3. \A t \in Temp : store[t] = <<>> /\ 1 .. Len(store[t]) = {}
  BY <1>1
<1>4. HeldOnce
  BY <1>1 DEF HeldOnce, Idle
<1>5. OnlyDone
  BY <1>2, <1>3, ToSetEmpty DEF OnlyDone
<1>6. SunkOnce
  BY <1>2, <1>3, ToSetEmpty DEF SunkOnce, FilesApart, StoreApart, Apart
<1> QED
  BY <1>4, <1>5, <1>6 DEF SinksInv

(* A step that appends nothing: files are left alone or emptied.            *)
LEMMA SinksFramed ==
  ASSUME IInv, SinksInv, UNCHANGED <<setting, taken, holding, store>>,
         \A t \in Temp : \A n \in Names :
           sinkFiles'[t][n] = sinkFiles[t][n] \/ sinkFiles'[t][n] = <<>>
  PROVE  SinksInv'
<1>1. Names' = Names
  BY DEF Names
<1>2. HeldOnce'
  BY DEF SinksInv, HeldOnce
<1>3. ASSUME NEW t \in Temp, NEW n \in Names, NEW r \in ToSet(sinkFiles'[t][n])
      PROVE  r \in ToSet(sinkFiles[t][n])
  BY <1>3, ToSetEmpty
<1>4. ASSUME NEW t \in Temp, NEW n \in Names, NEW i \in 1 .. Len(sinkFiles'[t][n])
      PROVE  i \in 1 .. Len(sinkFiles[t][n]) /\ sinkFiles'[t][n][i] = sinkFiles[t][n][i]
  <2>1. 1 .. Len(<<>>) = {}
    OBVIOUS
  <2> QED
    BY <1>4, <2>1
<1>5. OnlyDone'
  BY <1>1, <1>3 DEF SinksInv, OnlyDone, Done
<1>6. ASSUME NEW t \in Temp
      PROVE  FilesApart(t)'
  <2>1. FilesApart(t)
    BY DEF SinksInv, SunkOnce
  <2>2. ASSUME NEW n \in Names, NEW m \in Names,
               NEW i \in 1 .. Len(sinkFiles'[t][n]), NEW j \in 1 .. Len(sinkFiles'[t][m]),
               sinkFiles'[t][n][i].index = sinkFiles'[t][m][j].index
        PROVE  n = m /\ i = j
    <3>1. /\ i \in 1 .. Len(sinkFiles[t][n]) /\ j \in 1 .. Len(sinkFiles[t][m])
          /\ sinkFiles[t][n][i].index = sinkFiles[t][m][j].index
      BY <1>4, <2>2
    <3> QED
      BY <2>1, <3>1 DEF FilesApart
  <2> QED
    BY <1>1, <2>2 DEF FilesApart
<1>7. ASSUME NEW t \in Temp
      PROVE  StoreApart(t)'
  BY <1>1, <1>3 DEF SinksInv, SunkOnce, StoreApart, Apart
<1> QED
  BY <1>2, <1>5, <1>6, <1>7 DEF SinksInv, SunkOnce

(* A batch that is taken is held by the stream that took it.                *)
LEMMA TakeSinks ==
  ASSUME IInv, SinksInv, NEW s \in Stream, Take(s)
  PROVE  SinksInv'
<1>1. /\ taken' = taken + 1 /\ holding[s] = 0
      /\ holding' = [holding EXCEPT ![s] = taken + 1]
      /\ UNCHANGED <<setting, sinkFiles, store>>
  BY DEF Take, given, disk, sdk, Idle
<1>2. /\ holding \in [Stream -> 0 .. Len(input)] /\ taken \in 0 .. Len(input)
      /\ Len(input) \in Nat
  BY InputFields DEF IInv, TypeOK
<1>3. taken \in Nat /\ \A q \in Stream : holding[q] \in Nat /\ holding[q] <= taken
  BY <1>2 DEF SinksInv, HeldOnce
<1>4. \A q \in Stream : holding'[q] = IF q = s THEN taken + 1 ELSE holding[q]
  BY <1>1, <1>2
<1>5. HeldOnce'
  <2> SUFFICES ASSUME NEW p \in Stream
               PROVE  /\ holding'[p] <= taken + 1
                      /\ \A q \in Stream : holding'[p] # 0 /\ holding'[p] = holding'[q] => p = q
    BY <1>1 DEF HeldOnce, Idle
  <2>1. holding'[p] <= taken + 1
    BY <1>3, <1>4
  <2>2. ASSUME NEW q \in Stream, holding'[p] # 0, holding'[p] = holding'[q]
        PROVE  p = q
    <3>1. p # s /\ q # s => p = q
      BY <1>4, <2>2 DEF SinksInv, HeldOnce, Idle
    <3>2. ASSUME NEW u \in Stream, u # s
          PROVE  holding'[u] # taken + 1
      BY <1>3, <1>4, <3>2
    <3> QED
      BY <1>4, <2>2, <3>1, <3>2
  <2> QED
    BY <2>1, <2>2
<1>6. ASSUME NEW k \in Nat, Done(k)
      PROVE  Done(k)'
  <2>1. k <= taken /\ k <= taken + 1 /\ k # taken + 1
    BY <1>3, <1>6 DEF Done
  <2> QED
    BY <1>1, <1>4, <1>6, <2>1 DEF Done
<1>7. Names' = Names
  BY <1>1 DEF Names
<1>8. OnlyDone'
  <2>1. ASSUME NEW S, NEW f \in Seq(RecordType), NEW r \in ToSet(f)
        PROVE  r.index \in Nat
    BY <2>1, RecordFields DEF ToSet
  <2>2. \A t \in Temp : store[t] \in Seq(RecordType) /\ \A n \in Names : sinkFiles[t][n] \in Seq(RecordType)
    BY DEF IInv, TypeOK
  <2> QED
    BY <1>1, <1>6, <1>7, <2>1, <2>2 DEF SinksInv, OnlyDone
<1>9. SunkOnce'
  BY <1>1, <1>7 DEF SinksInv, SunkOnce, FilesApart, StoreApart
<1> QED
  BY <1>5, <1>8, <1>9 DEF SinksInv

(* A batch that was sunk is held no more, and was in no file before.        *)
LEMMA ProcessedSinks ==
  ASSUME IInv, SinksInv, NEW s \in Stream, NEW w \in Worker, Processing(s, w), Processed(s),
         UNCHANGED <<setting, taken>>, NEW held, held = holding[s]
  PROVE  /\ HeldOnce' /\ Done(held)' /\ ~Done(held)
         /\ \A k \in Nat \ {0} : Done(k) => Done(k)'
<1>1. holding' = [holding EXCEPT ![s] = 0] /\ holding[s] # 0
  BY DEF Processing, Processed, Idle
<1>2. /\ holding \in [Stream -> 0 .. Len(input)] /\ taken \in Nat /\ taken >= 0
      /\ Len(input) \in Nat
  BY InputFields DEF IInv, TypeOK
<1>3. \A q \in Stream : holding'[q] = IF q = s THEN 0 ELSE holding[q]
  BY <1>1, <1>2
<1>4. HeldOnce'
  BY <1>2, <1>3 DEF SinksInv, HeldOnce, Idle
<1>5. holding[s] <= taken /\ \A q \in Stream : q # s => holding[q] # holding[s]
  BY <1>1 DEF SinksInv, HeldOnce, Idle
<1>6. held <= taken /\ \A q \in Stream : holding'[q] # held
  BY <1>1, <1>3, <1>5
<1>7. Done(held)' /\ ~Done(held)
  BY <1>6 DEF Done
<1>8. ASSUME NEW k \in Nat \ {0}, Done(k)
      PROVE  Done(k)'
  BY <1>3, <1>8 DEF Done
<1> QED
  BY <1>4, <1>7, <1>8

(* A sink file grew by a batch, unless its handle is on an unlinked file.   *)
SpoolGrew(w, held) ==
  \A t \in Temp : \A n \in Names :
    \/ sinkFiles'[t][n] = sinkFiles[t][n]
    \/ /\ t = setting.tempOf[w] /\ n = setting.fileOf[w]
       /\ sinkFiles'[t][n] = Append(sinkFiles[t][n], Batch(held))

(* Place i of file n is an old one, or that of the batch. *)
OldPlace(t, n, i) ==
  /\ i \in 1 .. Len(sinkFiles[t][n]) /\ sinkFiles'[t][n][i] = sinkFiles[t][n][i]
  /\ sinkFiles[t][n][i] \in ToSet(sinkFiles[t][n]) /\ sinkFiles[t][n][i] \in RecordType
NewPlace(t, n, i, w, held) ==
  /\ t = setting.tempOf[w] /\ n = setting.fileOf[w]
  /\ i = Len(sinkFiles[t][n]) + 1 /\ sinkFiles'[t][n][i] = Batch(held)

(* What an append to a spool file does. *)
LEMMA AppendSpoolGives ==
  ASSUME IInv, NEW s \in Stream, NEW w \in Worker, AppendSpool(s, w),
         NEW held, held = holding[s]
  PROVE  /\ Processing(s, w) /\ Processed(s) /\ SpoolGrew(w, held)
         /\ UNCHANGED <<setting, input, phase, taken, shardFiles, store>>
         /\ held \in Nat \ {0} /\ held \in 1 .. Len(input)
         /\ Batch(held) \in RecordType /\ Batch(held).index = held
         /\ setting.tempOf[w] \in Temp /\ setting.fileOf[w] \in Names
<1> DEFINE t == setting.tempOf[w]
           n == setting.fileOf[w]
           r == Batch(held)
<1>1. /\ Processing(s, w) /\ Processed(s)
      /\ \/ sinkFiles' = sinkFiles
         \/ sinkFiles' = [sinkFiles EXCEPT ![t][n] = Append(sinkFiles[t][n], r)]
      /\ UNCHANGED <<given, phase, taken, shardFiles, sdk>>
  BY DEF AppendSpool, Batch
<1>2. t \in Temp /\ n \in Names /\ r \in RecordType /\ held \in 1 .. Len(input)
  BY <1>1, Held DEF Batch
<1>3. held \in Nat \ {0} /\ Batch(held).index = held
  <2>1. Len(input) \in Nat
    BY InputFields DEF IInv, TypeOK
  <2> QED
    BY <1>2, <2>1 DEF Batch, Record
<1> HIDE DEF t, n, r
<1>4. sinkFiles \in [Temp -> [Names -> Seq(RecordType)]]
  BY DEF IInv, TypeOK
<1>5. ASSUME NEW u \in Temp, NEW m \in Names
      PROVE  \/ sinkFiles'[u][m] = sinkFiles[u][m]
             \/ u = t /\ m = n /\ sinkFiles'[u][m] = Append(sinkFiles[u][m], r)
  BY <1>1, <1>2, <1>4
<1>6. SpoolGrew(w, held)
  BY <1>5 DEF SpoolGrew, t, n, r
<1>7. UNCHANGED <<setting, input, phase, taken, shardFiles, store>>
  BY <1>1 DEF given, sdk
<1> QED
  BY <1>1, <1>2, <1>3, <1>6, <1>7 DEF t, n, r

(* What then stands where. *)
LEMMA GrewPlaces ==
  ASSUME IInv, NEW w \in Worker, NEW held, SpoolGrew(w, held), Batch(held) \in RecordType,
         NEW t \in Temp, NEW n \in Names
  PROVE  /\ \A i \in 1 .. Len(sinkFiles'[t][n]) : OldPlace(t, n, i) \/ NewPlace(t, n, i, w, held)
         /\ \A r \in ToSet(sinkFiles'[t][n]) : r \in ToSet(sinkFiles[t][n]) \/ r = Batch(held)
<1> DEFINE f == sinkFiles[t][n]
           g == sinkFiles'[t][n]
           b == Batch(held)
<1>1. f \in Seq(RecordType) /\ b \in RecordType
  BY DEF IInv, TypeOK
<1>2. g = f \/ (t = setting.tempOf[w] /\ n = setting.fileOf[w] /\ g = Append(f, b))
  BY DEF SpoolGrew
<1> HIDE DEF f, g, b
<1>3. \A i \in 1 .. Len(f) : f[i] \in ToSet(f) /\ f[i] \in RecordType
  BY <1>1 DEF ToSet
<1>4. ASSUME NEW i \in 1 .. Len(g)
      PROVE  \/ i \in 1 .. Len(f) /\ g[i] = f[i]
             \/ /\ t = setting.tempOf[w] /\ n = setting.fileOf[w]
                /\ i = Len(f) + 1 /\ g[i] = b
  <2>1. CASE g = f
    BY <1>4, <2>1
  <2>2. CASE t = setting.tempOf[w] /\ n = setting.fileOf[w] /\ g = Append(f, b)
    <3>1. \A j \in 1 .. Len(Append(f, b)) :
            \/ j \in 1 .. Len(f) /\ Append(f, b)[j] = f[j] /\ f[j] \in ToSet(f)
            \/ j = Len(f) + 1 /\ Append(f, b)[j] = b
      BY <1>1, AppendPlaces
    <3> DEFINE h == Append(f, b)
    <3> HIDE DEF h
    <3>2. g = h /\ i \in 1 .. Len(h)
      BY <1>4, <2>2 DEF h
    <3> QED
      BY <2>2, <3>1, <3>2 DEF h
  <2> QED
    BY <1>2, <2>1, <2>2
<1>5. \A r \in ToSet(g) : r \in ToSet(f) \/ r = b
  <2>1. \A r : r \in ToSet(Append(f, b)) <=> r \in ToSet(f) \/ r = b
    BY <1>1, ToSetAppend
  <2> QED
    BY <1>2, <2>1
<1> QED
  BY <1>3, <1>4, <1>5 DEF OldPlace, NewPlace, f, g, b

(* A batch in a spool file is there once. *)
LEMMA AppendSpoolSinks ==
  ASSUME IInv, SinksInv, NEW s \in Stream, NEW w \in Worker, AppendSpool(s, w)
  PROVE  SinksInv'
<1>1. PICK held : held = holding[s]
  OBVIOUS
<1>2. /\ Processing(s, w) /\ Processed(s) /\ SpoolGrew(w, held)
      /\ UNCHANGED <<setting, taken, store>>
      /\ held \in Nat \ {0} /\ Batch(held) \in RecordType /\ Batch(held).index = held
  BY <1>1, AppendSpoolGives
<1>3. /\ HeldOnce' /\ Done(held)' /\ ~Done(held)
      /\ \A k \in Nat \ {0} : Done(k) => Done(k)'
  BY <1>1, <1>2, ProcessedSinks
<1>4. Names' = Names
  BY <1>2 DEF Names
<1>5. ASSUME NEW t \in Temp, NEW n \in Names, NEW r \in ToSet(sinkFiles'[t][n])
      PROVE  \/ r \in ToSet(sinkFiles[t][n]) /\ Done(r.index) /\ r.index \in Nat \ {0}
             \/ r.index = held
  <2>1. r \in ToSet(sinkFiles[t][n]) \/ r = Batch(held)
    BY <1>2, <1>5, GrewPlaces
  <2>2. sinkFiles[t][n] \in Seq(RecordType)
    BY DEF IInv, TypeOK
  <2>3. r \in ToSet(sinkFiles[t][n]) => r.index \in Nat \ {0}
    BY <2>2, RecordFields DEF ToSet
  <2> QED
    BY <1>2, <2>1, <2>3 DEF SinksInv, OnlyDone
<1>6. ASSUME NEW t \in Temp, NEW r \in ToSet(store[t])
      PROVE  r.index \in Nat \ {0} /\ Done(r.index) /\ r.index # held
  <2>1. store[t] \in Seq(RecordType)
    BY DEF IInv, TypeOK
  <2>2. r.index \in Nat \ {0}
    BY <2>1, RecordFields DEF ToSet
  <2>3. Done(r.index)
    BY DEF SinksInv, OnlyDone
  <2> QED
    BY <1>3, <2>2, <2>3
<1>7. OnlyDone'
  <2>1. ASSUME NEW t \in Temp, NEW n \in Names, NEW r \in ToSet(sinkFiles'[t][n])
        PROVE  Done(r.index)'
    <3>1. r.index = held \/ (Done(r.index) /\ r.index \in Nat \ {0})
      BY <1>5
    <3> QED
      BY <1>3, <3>1
  <2> QED
    BY <1>2, <1>3, <1>4, <1>6, <2>1 DEF OnlyDone
<1>8. ASSUME NEW t \in Temp
      PROVE  FilesApart(t)'
  <2>1. ASSUME NEW n \in Names, NEW m \in Names,
               NEW i \in 1 .. Len(sinkFiles'[t][n]), NEW j \in 1 .. Len(sinkFiles'[t][m]),
               sinkFiles'[t][n][i].index = sinkFiles'[t][m][j].index
        PROVE  n = m /\ i = j
    <3>1. OldPlace(t, n, i) \/ NewPlace(t, n, i, w, held)
      BY <1>2, GrewPlaces
    <3>2. OldPlace(t, m, j) \/ NewPlace(t, m, j, w, held)
      BY <1>2, GrewPlaces
    <3>3. ASSUME NEW u \in Names, NEW p, OldPlace(t, u, p)
          PROVE  sinkFiles'[t][u][p].index # held
      <4>1. Done(sinkFiles[t][u][p].index)
        BY <3>3 DEF OldPlace, SinksInv, OnlyDone
      <4> QED
        BY <1>3, <3>3, <4>1 DEF OldPlace
    <3>4. CASE OldPlace(t, n, i) /\ OldPlace(t, m, j)
      <4>1. FilesApart(t)
        BY DEF SinksInv, SunkOnce
      <4>2. /\ i \in 1 .. Len(sinkFiles[t][n]) /\ j \in 1 .. Len(sinkFiles[t][m])
            /\ sinkFiles[t][n][i].index = sinkFiles[t][m][j].index
        BY <2>1, <3>4 DEF OldPlace
      <4> QED
        BY <4>1, <4>2 DEF FilesApart
    <3>5. CASE NewPlace(t, n, i, w, held) /\ NewPlace(t, m, j, w, held)
      BY <3>5 DEF NewPlace
    <3>6. CASE OldPlace(t, n, i) /\ NewPlace(t, m, j, w, held)
      BY <1>2, <2>1, <3>3, <3>6 DEF NewPlace
    <3>7. CASE NewPlace(t, n, i, w, held) /\ OldPlace(t, m, j)
      BY <1>2, <2>1, <3>3, <3>7 DEF NewPlace
    <3> QED
      BY <3>1, <3>2, <3>4, <3>5, <3>6, <3>7
  <2> QED
    BY <1>4, <2>1 DEF FilesApart
<1>9. ASSUME NEW t \in Temp
      PROVE  StoreApart(t)'
  <2>1. StoreApart(t)
    BY DEF SinksInv, SunkOnce
  <2>2. \A n \in Names : \A r \in ToSet(sinkFiles'[t][n]), u \in ToSet(store[t]) : r.index # u.index
    <3> SUFFICES ASSUME NEW n \in Names, NEW r \in ToSet(sinkFiles'[t][n]), NEW u \in ToSet(store[t])
                 PROVE  r.index # u.index
      OBVIOUS
    <3>1. r \in ToSet(sinkFiles[t][n]) \/ r.index = held
      BY <1>5
    <3> QED
      BY <1>6, <2>1, <3>1 DEF StoreApart
  <2> QED
    BY <1>2, <1>4, <2>1, <2>2 DEF StoreApart, Apart
<1> QED
  BY <1>3, <1>7, <1>8, <1>9 DEF SinksInv, SunkOnce

(* So is one in the store. *)
LEMMA AppendStoreSinks ==
  ASSUME IInv, SinksInv, NEW s \in Stream, NEW w \in Worker, AppendStore(s, w)
  PROVE  SinksInv'
<1> DEFINE t == setting.tempOf[w]
<1>1. PICK held : held = holding[s]
  OBVIOUS
<1>2. /\ Processing(s, w) /\ Processed(s)
      /\ store' = [store EXCEPT ![t] = Append(@, Batch(held))]
      /\ UNCHANGED <<setting, taken, sinkFiles>>
  BY <1>1 DEF AppendStore, Batch, given, disk
<1>3. t \in Temp /\ Batch(held) \in RecordType /\ held \in 1 .. Len(input)
  BY <1>1, <1>2, Held DEF Batch
<1>4. held \in Nat \ {0} /\ Batch(held).index = held
  <2>1. Len(input) \in Nat
    BY InputFields DEF IInv, TypeOK
  <2> QED
    BY <1>3, <2>1 DEF Batch, Record
<1>5. /\ HeldOnce' /\ Done(held)' /\ ~Done(held)
      /\ \A k \in Nat \ {0} : Done(k) => Done(k)'
  BY <1>1, <1>2, ProcessedSinks
<1>6. Names' = Names
  BY <1>2 DEF Names
<1> HIDE DEF t
<1>7. store \in [Temp -> Seq(RecordType)]
  BY DEF IInv, TypeOK
<1>8. ASSUME NEW u \in Temp
      PROVE  store'[u] = store[u] \/ store'[u] = Append(store[u], Batch(held))
  BY <1>2, <1>3, <1>7
<1>9. ASSUME NEW u \in Temp
      PROVE  /\ \A i \in 1 .. Len(store'[u]) :
                  \/ i \in 1 .. Len(store[u]) /\ store'[u][i] = store[u][i]
                     /\ store[u][i] \in ToSet(store[u])
                  \/ i = Len(store[u]) + 1 /\ store'[u][i] = Batch(held)
             /\ \A r \in ToSet(store'[u]) : r \in ToSet(store[u]) \/ r = Batch(held)
  <2> DEFINE f == store[u]
             g == store'[u]
             b == Batch(held)
  <2>1. f \in Seq(RecordType) /\ b \in RecordType /\ (g = f \/ g = Append(f, b))
    BY <1>3, <1>7, <1>8
  <2> HIDE DEF f, g, b
  <2>2. \A j \in 1 .. Len(Append(f, b)) :
          \/ j \in 1 .. Len(f) /\ Append(f, b)[j] = f[j] /\ f[j] \in ToSet(f)
          \/ j = Len(f) + 1 /\ Append(f, b)[j] = b
    BY <2>1, AppendPlaces
  <2>3. \A r : r \in ToSet(Append(f, b)) <=> r \in ToSet(f) \/ r = b
    BY <2>1, ToSetAppend
  <2>4. \A i \in 1 .. Len(f) : f[i] \in ToSet(f)
    BY DEF ToSet
  <2> DEFINE h == Append(f, b)
  <2> HIDE DEF h
  <2>5. g = f \/ g = h
    BY <2>1 DEF h
  <2>6. \A i \in 1 .. Len(g) : \/ i \in 1 .. Len(f) /\ g[i] = f[i] /\ f[i] \in ToSet(f)
                               \/ i = Len(f) + 1 /\ g[i] = b
    BY <2>2, <2>4, <2>5 DEF h
  <2>7. \A r \in ToSet(g) : r \in ToSet(f) \/ r = b
    BY <2>3, <2>5 DEF h
  <2> QED
    BY <2>6, <2>7 DEF f, g, b
<1>10. ASSUME NEW u \in Temp
       PROVE  /\ \A r \in ToSet(store[u]) : r.index # held /\ Done(r.index)'
              /\ \A n \in Names : \A r \in ToSet(sinkFiles[u][n]) : r.index # held /\ Done(r.index)'
  <2>1. store[u] \in Seq(RecordType) /\ \A n \in Names : sinkFiles[u][n] \in Seq(RecordType)
    BY DEF IInv, TypeOK
  <2>2. ASSUME NEW f \in Seq(RecordType), NEW r \in ToSet(f)
        PROVE  r.index \in Nat \ {0}
    BY <2>2, RecordFields DEF ToSet
  <2>3. ASSUME NEW k \in Nat \ {0}, Done(k)
        PROVE  k # held /\ Done(k)'
    BY <1>5, <2>3
  <2>4. ASSUME NEW r \in ToSet(store[u])
        PROVE  r.index # held /\ Done(r.index)'
    <3>1. r.index \in Nat \ {0} /\ Done(r.index)
      BY <2>1, <2>2 DEF SinksInv, OnlyDone
    <3> QED
      BY <2>3, <3>1
  <2>5. ASSUME NEW n \in Names, NEW r \in ToSet(sinkFiles[u][n])
        PROVE  r.index # held /\ Done(r.index)'
    <3>1. r.index \in Nat \ {0} /\ Done(r.index)
      BY <2>1, <2>2 DEF SinksInv, OnlyDone
    <3> QED
      BY <2>3, <3>1
  <2> QED
    BY <2>4, <2>5
<1>11. OnlyDone'
  <2>1. ASSUME NEW u \in Temp, NEW r \in ToSet(store'[u])
        PROVE  Done(r.index)'
    <3>1. r \in ToSet(store[u]) \/ r.index = held
      BY <1>4, <1>9
    <3> QED
      BY <1>5, <1>10, <3>1
  <2> QED
    BY <1>2, <1>6, <1>10, <2>1 DEF OnlyDone
<1>12. ASSUME NEW u \in Temp
       PROVE  StoreApart(u)'
  <2>1. StoreApart(u)
    BY DEF SinksInv, SunkOnce
  <2>2. ASSUME NEW i \in 1 .. Len(store'[u]), NEW j \in 1 .. Len(store'[u]),
               store'[u][i].index = store'[u][j].index
        PROVE  i = j
    <3>1. \/ i \in 1 .. Len(store[u]) /\ store'[u][i] = store[u][i] /\ store[u][i].index # held
          \/ i = Len(store[u]) + 1 /\ store'[u][i].index = held
      BY <1>4, <1>9, <1>10
    <3>2. \/ j \in 1 .. Len(store[u]) /\ store'[u][j] = store[u][j] /\ store[u][j].index # held
          \/ j = Len(store[u]) + 1 /\ store'[u][j].index = held
      BY <1>4, <1>9, <1>10
    <3> QED
      BY <2>1, <2>2, <3>1, <3>2 DEF StoreApart, Apart
  <2>3. ASSUME NEW n \in Names, NEW r \in ToSet(sinkFiles[u][n]), NEW x \in ToSet(store'[u])
        PROVE  r.index # x.index
    <3>1. x \in ToSet(store[u]) \/ x.index = held
      BY <1>4, <1>9
    <3> QED
      BY <1>10, <2>1, <3>1 DEF StoreApart
  <2> QED
    BY <1>2, <1>6, <2>2, <2>3 DEF StoreApart, Apart
<1>13. SunkOnce'
  BY <1>2, <1>6, <1>12 DEF SinksInv, SunkOnce, FilesApart
<1> QED
  BY <1>5, <1>11, <1>13 DEF SinksInv

(* What the store still holds it holds once. *)
LEMMA StoreLosesSinks ==
  ASSUME IInv, SinksInv, NEW t \in Temp, StoreLoses(t)
  PROVE  SinksInv'
<1>1. PICK k \in 1 .. Len(store[t]) : store' = [store EXCEPT ![t] = RemoveAt(store[t], k)]
  BY DEF StoreLoses
<1>2. UNCHANGED <<setting, taken, holding, sinkFiles>>
  BY DEF StoreLoses, given, sinking, disk
<1>3. store \in [Temp -> Seq(RecordType)] /\ store[t] \in Seq(RecordType)
  BY DEF IInv, TypeOK
<1>4. Removed(store[t], k, RemoveAt(store[t], k))
  BY <1>3, RemoveAtProperties
<1> DEFINE left == RemoveAt(store[t], k)
<1>5. /\ left \in Seq(RecordType) /\ ToSet(left) \subseteq ToSet(store[t])
      /\ Len(left) = Len(store[t]) - 1
      /\ \A i \in 1 .. Len(store[t]) - 1 : left[i] = IF i < k THEN store[t][i] ELSE store[t][i + 1]
  BY <1>4 DEF Removed
<1> HIDE DEF left
<1>6. \A u \in Temp : store'[u] = IF u = t THEN left ELSE store[u]
  BY <1>1, <1>3 DEF left
<1>7. \A u \in Temp : ToSet(store'[u]) \subseteq ToSet(store[u])
  BY <1>5, <1>6
<1>8. Names' = Names
  BY <1>2 DEF Names
<1>9. HeldOnce' /\ OnlyDone'
  BY <1>2, <1>7, <1>8 DEF SinksInv, HeldOnce, OnlyDone, Done
<1>10. ASSUME NEW u \in Temp
       PROVE  Apart(store'[u])
  <2>1. Apart(store[u]) /\ Apart(store[t])
    BY DEF SinksInv, SunkOnce, StoreApart
  <2>2. ASSUME NEW i \in 1 .. Len(left), NEW j \in 1 .. Len(left), left[i].index = left[j].index
        PROVE  i = j
    <3> DEFINE a == IF i < k THEN i ELSE i + 1
               b == IF j < k THEN j ELSE j + 1
               m == Len(store[t])
    <3>1. m \in Nat /\ Len(left) = m - 1
      BY <1>3, <1>5
    <3>2. left[i] = store[t][a] /\ left[j] = store[t][b]
      BY <1>5
    <3>3. a \in 1 .. m /\ b \in 1 .. m /\ (a = b => i = j)
      BY <3>1
    <3> HIDE DEF a, b
    <3> QED
      BY <2>1, <2>2, <3>2, <3>3 DEF Apart
  <2> QED
    BY <1>6, <2>1, <2>2 DEF Apart
<1>11. ASSUME NEW u \in Temp
       PROVE  FilesApart(u)' /\ StoreApart(u)'
  <2>1. FilesApart(u) /\ StoreApart(u)
    BY DEF SinksInv, SunkOnce
  <2>2. FilesApart(u)'
    BY <1>2, <1>8, <2>1 DEF FilesApart
  <2>3. ASSUME NEW m \in Names, NEW r \in ToSet(sinkFiles[u][m]), NEW v \in ToSet(store'[u])
        PROVE  r.index # v.index
    <3>1. v \in ToSet(store[u])
      BY <1>7
    <3> QED
      BY <2>1, <3>1 DEF StoreApart
  <2>4. StoreApart(u)'
    BY <1>2, <1>8, <1>10, <2>3 DEF StoreApart
  <2> QED
    BY <2>2, <2>4
<1>12. SunkOnce'
  BY <1>11 DEF SunkOnce
<1> QED
  BY <1>9, <1>12 DEF SinksInv

(* Every step keeps it: only a sink adds a batch, and one that was not sunk. *)
LEMMA SinksStep ==
  ASSUME IInv, SinksInv, [Next]_vars
  PROVE  SinksInv'
<1>1. CASE UNCHANGED vars
  BY <1>1, SinksFramed DEF vars, spoolVars, given, sinking, disk, sdk
<1>2. CASE Sink /\ UNCHANGED <<splitVars, read>>
  <2>1. ASSUME NEW s \in Stream, NEW w \in Worker, AppendFails(s, w)
        PROVE  SinksInv'
    BY <2>1, SinksFramed DEF AppendFails, given, sinking, disk, sdk
  <2>2. ASSUME NEW w \in Worker, Evict(w)
        PROVE  SinksInv'
    BY <2>2, SinksFramed DEF Evict, given, sinking, sdk
  <2>3. ASSUME NEW t \in Temp, Sweep(t)
        PROVE  SinksInv'
    <3>1. \A u \in Temp : \A m \in Names :
            sinkFiles'[u][m] = IF u = t THEN <<>> ELSE sinkFiles[u][m]
      BY <2>3, Unlinked DEF Sweep
    <3> QED
      BY <2>3, <3>1, SinksFramed DEF Sweep, given, sinking, sdk
  <2> QED
    BY <1>2, <2>1, <2>2, <2>3, TakeSinks, AppendSpoolSinks, AppendStoreSinks, StoreLosesSinks
    DEF Sink
<1>3. ASSUME NEW t \in Temp, Combine(t)
      PROVE  SinksInv'
  BY <1>3, SinksFramed DEF Combine, given, sinking, disk, sdk
<1>4. CASE SplitRecord
  <2>1. SplitRecordFacts
    BY <1>4, SplitRecordGives
  <2>2. ASSUME NEW t \in Temp, NEW n \in Names
        PROVE  sinkFiles'[t][n] = sinkFiles[t][n] \/ sinkFiles'[t][n] = <<>>
    BY <2>1 DEF SplitRecordFacts, ReadOn
  <2> QED
    BY <2>1, <2>2, SinksFramed DEF SplitRecordFacts
<1>5. CASE SplitEnds
  BY <1>5, SinksFramed DEF SplitEnds, given, sinking, sdk
<1>6. CASE SplitFails
  BY <1>6, SinksFramed DEF SplitFails, given, sinking, disk, sdk
<1>7. CASE Produce
  <2>1. ASSUME NEW t \in Temp, NEW sh \in Shard, ReadBack(t, sh) \/ ReadFails(t, sh)
        PROVE  SinksInv'
    BY <2>1, SinksFramed DEF ReadBack, ReadFails, spoolVars, given, sinking, disk, sdk
  <2>2. ASSUME NEW t \in Temp, NEW sh \in Shard, EndOfStream(t, sh)
        PROVE  SinksInv'
    <3>1. EndFacts(t, sh)
      BY <2>2, EndGives
    <3>2. ASSUME NEW u \in Temp, NEW n \in Names
          PROVE  sinkFiles'[u][n] = sinkFiles[u][n] \/ sinkFiles'[u][n] = <<>>
      BY <3>1 DEF EndFacts
    <3> QED
      BY <3>1, <3>2, SinksFramed DEF EndFacts
  <2> QED
    BY <1>7, <2>1, <2>2 DEF Produce
<1> QED
  BY <1>1, <1>2, <1>3, <1>4, <1>5, <1>6, <1>7 DEF Next

-----------------------------------------------------------------------------
(* The batches of a sink file ascend where streams do not share files.      *)

Ascends(f) == \A i, j \in 1 .. Len(f) : i < j => f[i].index < f[j].index

(* What a stream is sinking comes after what its workers wrote. *)
Trails(s, w) ==
  holding[s] # Idle =>
    \A r \in ToSet(sinkFiles[setting.tempOf[w]][setting.fileOf[w]]) : r.index < holding[s]

FilesAscend ==
  setting.partitioned =>
    /\ \A t \in Temp : \A n \in Names : Ascends(sinkFiles[t][n])
    /\ \A s \in Stream : \A w \in setting.serves[s] : Trails(s, w)

(* It holds before anything is sunk. *)
LEMMA FilesAscendInit == Init => FilesAscend
<1> SUFFICES ASSUME Init
             PROVE  FilesAscend
  OBVIOUS
<1>1. /\ holding = [s \in Stream |-> Idle] /\ sinkFiles = [t \in Temp |-> NoFiles]
  BY DEF Init, SpoolInit
<1>2. \A t \in Temp : \A n \in Names : 1 .. Len(sinkFiles[t][n]) = {}
  BY <1>1 DEF NoFiles
<1> QED
  BY <1>1, <1>2 DEF FilesAscend, Ascends, Trails

(* A step that takes and appends nothing. *)
LEMMA AscendFramed ==
  ASSUME IInv, FilesAscend, UNCHANGED <<setting, holding>>,
         \A t \in Temp : \A n \in Names :
           sinkFiles'[t][n] = sinkFiles[t][n] \/ sinkFiles'[t][n] = <<>>
  PROVE  FilesAscend'
<1> SUFFICES ASSUME setting.partitioned
             PROVE  /\ \A t \in Temp : \A n \in Names : Ascends(sinkFiles'[t][n])
                    /\ \A s \in Stream : \A w \in setting.serves[s] : Trails(s, w)'
  BY DEF FilesAscend, Names
<1>1. Ascends(<<>>)
  BY DEF Ascends
<1>2. \A t \in Temp : \A n \in Names : Ascends(sinkFiles'[t][n])
  BY <1>1 DEF FilesAscend
<1>3. ASSUME NEW s \in Stream, NEW w \in setting.serves[s]
      PROVE  Trails(s, w)'
  <2>1. setting.tempOf[w] \in Temp /\ setting.fileOf[w] \in Names
    BY SettingFields DEF IInv, TypeOK
  <2>2. Trails(s, w)
    BY DEF FilesAscend
  <2> QED
    BY <2>1, <2>2, ToSetEmpty DEF Trails
<1> QED
  BY <1>2, <1>3

(* A batch that is taken comes after all that were sunk. *)
LEMMA TakeAscends ==
  ASSUME IInv, SinksInv, FilesAscend, NEW s \in Stream, Take(s)
  PROVE  FilesAscend'
<1>1. /\ holding' = [holding EXCEPT ![s] = taken + 1] /\ UNCHANGED <<setting, sinkFiles>>
  BY DEF Take, given, disk
<1>2. holding \in [Stream -> 0 .. Len(input)] /\ taken \in Nat /\ Len(input) \in Nat
  BY InputFields DEF IInv, TypeOK
<1> SUFFICES ASSUME setting.partitioned, NEW q \in Stream, NEW w \in setting.serves[q]
             PROVE  Trails(q, w)'
  BY <1>1 DEF FilesAscend, Names
<1>3. setting.tempOf[w] \in Temp /\ setting.fileOf[w] \in Names
  BY SettingFields DEF IInv, TypeOK
<1>4. CASE q # s
  <2>1. holding'[q] = holding[q] /\ Trails(q, w)
    BY <1>1, <1>2, <1>4 DEF FilesAscend
  <2> QED
    BY <1>1, <2>1 DEF Trails
<1>5. CASE q = s
  <2>1. holding'[q] = taken + 1
    BY <1>1, <1>2, <1>5
  <2>2. ASSUME NEW r \in ToSet(sinkFiles[setting.tempOf[w]][setting.fileOf[w]])
        PROVE  r.index < taken + 1
    <3>1. sinkFiles[setting.tempOf[w]][setting.fileOf[w]] \in Seq(RecordType)
      <4>1. sinkFiles \in [Temp -> [Names -> Seq(RecordType)]]
        BY DEF IInv, TypeOK
      <4> QED
        BY <1>3, <4>1
    <3>2. r.index \in Nat
      BY <3>1, RecordFields DEF ToSet
    <3>3. r.index <= taken
      BY <1>3 DEF SinksInv, OnlyDone, Done
    <3> QED
      BY <1>2, <3>2, <3>3
  <2> QED
    BY <1>1, <2>1, <2>2 DEF Trails
<1> QED
  BY <1>4, <1>5

(* A file grows by a batch that comes after all it has. *)
LEMMA AppendSpoolAscends ==
  ASSUME IInv, SinksInv, FilesAscend, Orderly,
         NEW s \in Stream, NEW w \in Worker, AppendSpool(s, w)
  PROVE  FilesAscend'
<1>1. PICK held : held = holding[s]
  OBVIOUS
<1>2. /\ Processing(s, w) /\ Processed(s) /\ SpoolGrew(w, held)
      /\ UNCHANGED setting
      /\ held \in Nat \ {0} /\ Batch(held) \in RecordType /\ Batch(held).index = held
      /\ setting.tempOf[w] \in Temp /\ setting.fileOf[w] \in Names
  BY <1>1, AppendSpoolGives
<1>3. w \in setting.serves[s] /\ holding' = [holding EXCEPT ![s] = 0]
  BY <1>2 DEF Processing, Processed, Idle
<1>4. holding \in [Stream -> 0 .. Len(input)]
  BY DEF IInv, TypeOK
<1>5. Names' = Names
  BY <1>2 DEF Names
<1> SUFFICES ASSUME setting.partitioned
             PROVE  /\ \A t \in Temp : \A n \in Names : Ascends(sinkFiles'[t][n])
                    /\ \A q \in Stream : \A v \in setting.serves[q] : Trails(q, v)'
  BY <1>2, <1>5 DEF FilesAscend
<1>6. \A r \in ToSet(sinkFiles[setting.tempOf[w]][setting.fileOf[w]]) : r.index < held
  BY <1>1, <1>2, <1>3 DEF FilesAscend, Trails, Idle
<1>7. ASSUME NEW t \in Temp, NEW n \in Names
      PROVE  Ascends(sinkFiles'[t][n])
  <2>1. Ascends(sinkFiles[t][n])
    BY DEF FilesAscend
  <2> SUFFICES ASSUME NEW i \in 1 .. Len(sinkFiles'[t][n]), NEW j \in 1 .. Len(sinkFiles'[t][n]),
                      i < j
               PROVE  sinkFiles'[t][n][i].index < sinkFiles'[t][n][j].index
    BY DEF Ascends
  <2>2. OldPlace(t, n, i) \/ NewPlace(t, n, i, w, held)
    BY <1>2, GrewPlaces
  <2>3. OldPlace(t, n, j) \/ NewPlace(t, n, j, w, held)
    BY <1>2, GrewPlaces
  <2>4. CASE OldPlace(t, n, i) /\ OldPlace(t, n, j)
    BY <2>1, <2>4 DEF OldPlace, Ascends
  <2>5. CASE OldPlace(t, n, i) /\ NewPlace(t, n, j, w, held)
    BY <1>2, <1>6, <2>5 DEF OldPlace, NewPlace
  <2>6. CASE NewPlace(t, n, i, w, held)
    <3>1. Len(sinkFiles[t][n]) \in Nat
      BY DEF IInv, TypeOK
    <3>2. i = Len(sinkFiles[t][n]) + 1
      BY <2>6 DEF NewPlace
    <3>3. j <= Len(sinkFiles[t][n]) + 1
      BY <2>3, <3>1 DEF OldPlace, NewPlace
    <3> QED
      BY <3>1, <3>2, <3>3
  <2> QED
    BY <2>2, <2>3, <2>4, <2>5, <2>6
<1>8. ASSUME NEW q \in Stream, NEW v \in setting.serves[q]
      PROVE  Trails(q, v)'
  <2>1. CASE q = s
    <3>1. holding'[q] = 0
      BY <1>3, <1>4, <2>1
    <3> QED
      BY <3>1 DEF Trails, Idle
  <2>2. CASE q # s
    <3>1. holding'[q] = holding[q] /\ Trails(q, v)
      BY <1>3, <1>4, <2>2 DEF FilesAscend
    <3>2. setting.tempOf[v] \in Temp /\ setting.fileOf[v] \in Names /\ setting \in Setting
      BY SettingFields DEF IInv, TypeOK
    <3>3. ~(setting.tempOf[v] = setting.tempOf[w] /\ setting.fileOf[v] = setting.fileOf[w])
      BY <1>3, <2>2, <3>2 DEF Orderly
    <3>4. sinkFiles'[setting.tempOf[v]][setting.fileOf[v]] = sinkFiles[setting.tempOf[v]][setting.fileOf[v]]
      BY <1>2, <3>2, <3>3 DEF SpoolGrew
    <3> QED
      BY <1>2, <3>1, <3>4 DEF Trails
  <2> QED
    BY <2>1, <2>2
<1> QED
  BY <1>7, <1>8

(* Every step keeps it. *)
LEMMA AscendStep ==
  ASSUME IInv, SinksInv, FilesAscend, Orderly, [Next]_vars
  PROVE  FilesAscend'
<1>1. CASE UNCHANGED vars
  BY <1>1, AscendFramed DEF vars, spoolVars, given, sinking, disk
<1>2. CASE Sink /\ UNCHANGED <<splitVars, read>>
  <2>1. ASSUME NEW s \in Stream, NEW w \in Worker, AppendFails(s, w)
        PROVE  FilesAscend'
    BY <2>1, AscendFramed DEF AppendFails, given, sinking, disk
  <2>2. ASSUME NEW w \in Worker, Evict(w)
        PROVE  FilesAscend'
    BY <2>2, AscendFramed DEF Evict, given, sinking
  <2>3. ASSUME NEW t \in Temp, Sweep(t)
        PROVE  FilesAscend'
    <3>1. \A u \in Temp : \A m \in Names :
            sinkFiles'[u][m] = IF u = t THEN <<>> ELSE sinkFiles[u][m]
      BY <2>3, Unlinked DEF Sweep
    <3> QED
      BY <2>3, <3>1, AscendFramed DEF Sweep, given, sinking
  <2>4. ASSUME NEW t \in Temp, StoreLoses(t)
        PROVE  FilesAscend'
    BY <2>4, AscendFramed DEF StoreLoses, given, sinking, disk
  <2>5. ASSUME NEW s \in Stream, NEW w \in Worker, AppendStore(s, w)
        PROVE  FilesAscend'
    <3>1. /\ holding' = [holding EXCEPT ![s] = 0] /\ UNCHANGED <<setting, sinkFiles>>
          /\ holding \in [Stream -> 0 .. Len(input)]
      BY <2>5 DEF AppendStore, Processed, Idle, given, disk, IInv, TypeOK
    <3>2. ASSUME NEW q \in Stream, NEW v \in Worker, Trails(q, v)
          PROVE  Trails(q, v)'
      BY <3>1, <3>2 DEF Trails, Idle
    <3>3. \A q \in Stream : setting.serves[q] \subseteq Worker
      BY SettingFields DEF IInv, TypeOK
    <3> QED
      BY <3>1, <3>2, <3>3 DEF FilesAscend, Names
  <2> QED
    BY <1>2, <2>1, <2>2, <2>3, <2>4, <2>5, TakeAscends, AppendSpoolAscends DEF Sink
<1>3. ASSUME NEW t \in Temp, Combine(t)
      PROVE  FilesAscend'
  BY <1>3, AscendFramed DEF Combine, given, sinking, disk
<1>4. CASE SplitRecord
  <2>1. SplitRecordFacts
    BY <1>4, SplitRecordGives
  <2>2. ASSUME NEW t \in Temp, NEW n \in Names
        PROVE  sinkFiles'[t][n] = sinkFiles[t][n] \/ sinkFiles'[t][n] = <<>>
    BY <2>1 DEF SplitRecordFacts, ReadOn
  <2> QED
    BY <2>1, <2>2, AscendFramed DEF SplitRecordFacts
<1>5. CASE SplitEnds
  BY <1>5, AscendFramed DEF SplitEnds, given, sinking
<1>6. CASE SplitFails
  BY <1>6, AscendFramed DEF SplitFails, given, sinking, disk
<1>7. CASE Produce
  <2>1. ASSUME NEW t \in Temp, NEW sh \in Shard, ReadBack(t, sh) \/ ReadFails(t, sh)
        PROVE  FilesAscend'
    BY <2>1, AscendFramed DEF ReadBack, ReadFails, spoolVars, given, sinking, disk
  <2>2. ASSUME NEW t \in Temp, NEW sh \in Shard, EndOfStream(t, sh)
        PROVE  FilesAscend'
    <3>1. EndFacts(t, sh)
      BY <2>2, EndGives
    <3>2. ASSUME NEW u \in Temp, NEW n \in Names
          PROVE  sinkFiles'[u][n] = sinkFiles[u][n] \/ sinkFiles'[u][n] = <<>>
      BY <3>1 DEF EndFacts
    <3> QED
      BY <3>1, <3>2, AscendFramed DEF EndFacts
  <2> QED
    BY <1>7, <2>1, <2>2 DEF Produce
<1> QED
  BY <1>1, <1>2, <1>3, <1>4, <1>5, <1>6, <1>7 DEF Next

-----------------------------------------------------------------------------
(* The shards are written in input order.                                   *)

(* Each record of a shard's file comes before the next, index and rows.     *)
FileInOrder(f) ==
  /\ \A i \in 1 .. Len(f) : InOrder(f[i].rows)
  /\ \A i, j \in 1 .. Len(f) :
       i < j => f[i].index < f[j].index /\ AllBefore(ToSet(f[i].rows), ToSet(f[j].rows))

(* Rows to be written under an index come after all that the file has. *)
ComesAfter(f, first, rows) ==
  rows # <<>> => \A r \in ToSet(f) : r.index < first /\ AllBefore(ToSet(r.rows), ToSet(rows))

ShardInOrder(sh) ==
  /\ FileInOrder(shardFiles[at][sh])
  /\ InOrder(accum[sh].rows)
  /\ ComesAfter(shardFiles[at][sh], accum[sh].first, accum[sh].rows)

(* All that a shard was given is of batches before batch k. *)
Behind(sh, k) ==
  /\ \A r \in ToSet(shardFiles[at][sh]) : r.index < k /\ \A x \in ToSet(r.rows) : x[1] < k
  /\ accum[sh].rows # <<>> => accum[sh].first < k
  /\ \A x \in ToSet(accum[sh].rows) : x[1] < k

(* A file stays in order when such rows are written to it. *)
LEMMA FileGrows ==
  ASSUME NEW f \in Seq(RecordType), FileInOrder(f), NEW first \in Nat \ {0},
         NEW rows \in Seq(Nat \X Nat), rows # <<>>, InOrder(rows), ComesAfter(f, first, rows)
  PROVE  FileInOrder(Append(f, Record(first, rows)))
<1> DEFINE r == Record(first, rows)
           g == Append(f, r)
<1>1. r \in RecordType /\ r.index = first /\ r.rows = rows
  BY RecordFields
<1> HIDE DEF r
<1>2. \A i \in 1 .. Len(g) : \/ i \in 1 .. Len(f) /\ g[i] = f[i] /\ f[i] \in ToSet(f)
                             \/ i = Len(f) + 1 /\ g[i] = r
  BY <1>1, AppendPlaces
<1>3. Len(f) \in Nat
  OBVIOUS
<1> HIDE DEF g
<1>4. ASSUME NEW i \in 1 .. Len(g)
      PROVE  InOrder(g[i].rows)
  BY <1>1, <1>2 DEF FileInOrder
<1>5. ASSUME NEW i \in 1 .. Len(g), NEW j \in 1 .. Len(g), i < j
      PROVE  g[i].index < g[j].index /\ AllBefore(ToSet(g[i].rows), ToSet(g[j].rows))
  <2>1. i \in 1 .. Len(f) /\ g[i] = f[i] /\ f[i] \in ToSet(f)
    <3>1. j <= Len(f) + 1
      BY <1>2, <1>3
    <3>2. i \in Nat /\ j \in Nat /\ i # Len(f) + 1
      <4>1. Len(g) \in Nat
        BY <1>1, AppendPlaces DEF g
      <4> QED
        BY <1>3, <1>5, <3>1, <4>1
    <3> QED
      BY <1>2, <3>2
  <2>2. CASE j \in 1 .. Len(f) /\ g[j] = f[j]
    BY <1>5, <2>1, <2>2 DEF FileInOrder
  <2>3. CASE g[j] = r
    BY <1>1, <2>1, <2>3 DEF ComesAfter
  <2> QED
    BY <1>2, <2>2, <2>3
<1> QED
  BY <1>4, <1>5 DEF FileInOrder, g, r

(* A shard that takes its rows of a record behind which it was. *)
LEMMA ShardTakes ==
  ASSUME IInv, NEW sh \in Shard, ShardInOrder(sh), NEW record \in RecordType,
         NEW rows \in Seq(Nat \X Nat), Given(sh, record, rows), UNCHANGED at,
         Behind(sh, record.index), InOrder(rows), \A x \in ToSet(rows) : x[1] = record.index
  PROVE  /\ ShardInOrder(sh)'
         /\ \A k \in Nat : record.index < k /\ Behind(sh, k) => Behind(sh, k)'
<1> DEFINE f == shardFiles[at][sh]
           old == accum[sh].rows
           first == FirstOf(sh, record)
           all == old \o rows
           new == Record(first, all)
<1>1. /\ f \in Seq(RecordType) /\ old \in Seq(Nat \X Nat) /\ at \in Temp
      /\ accum[sh].first \in Nat /\ accum[sh] \in [first : Nat, rows : Seq(Nat \X Nat)]
  BY DEF IInv, TypeOK
<1>2. record.index \in Nat \ {0}
  BY RecordFields
<1>3. /\ FileInOrder(f) /\ InOrder(old) /\ ComesAfter(f, accum[sh].first, old)
      /\ \A r \in ToSet(f) : r.index < record.index /\ \A x \in ToSet(r.rows) : x[1] < record.index
      /\ old # <<>> => accum[sh].first < record.index
      /\ \A x \in ToSet(old) : x[1] < record.index
  BY DEF ShardInOrder, Behind
<1>4. first = IF old = <<>> THEN record.index ELSE accum[sh].first
  BY DEF FirstOf
<1>5. /\ \/ /\ accum'[sh].rows = all /\ shardFiles'[at][sh] = f
            /\ IF rows = <<>> THEN accum'[sh] = accum[sh] ELSE accum'[sh].first = first
         \/ /\ accum'[sh] = Empty /\ rows # <<>> /\ first \in Nat \ {0}
            /\ shardFiles'[at][sh] = Append(f, new)
      /\ at' = at
  BY DEF Given
<1> HIDE DEF f, old, first
<1>6. all \in Seq(Nat \X Nat) /\ \A y : y \in ToSet(all) <=> y \in ToSet(old) \/ y \in ToSet(rows)
  BY <1>1, ToSetConcat
<1>7. InOrder(all)
  <2>1. AllBefore(ToSet(old), ToSet(rows))
    BY <1>3 DEF AllBefore, Before
  <2> QED
    BY <1>1, <1>3, <2>1, ConcatInOrder
<1>8. rows # <<>> => all # <<>>
  <2>1. Len(all) = Len(old) + Len(rows) /\ Len(old) \in Nat /\ Len(rows) \in Nat
    BY <1>1, ConcatProperties
  <2>2. rows # <<>> => Len(rows) # 0
    BY EmptySeq
  <2> HIDE DEF all
  <2>3. rows # <<>> => Len(all) # 0
    BY <2>1, <2>2
  <2>4. Len(<<>>) = 0
    OBVIOUS
  <2> QED
    BY <2>3, <2>4
<1>9. rows # <<>> => ComesAfter(f, first, all)
  <2> SUFFICES ASSUME rows # <<>>, NEW r \in ToSet(f)
               PROVE  r.index < first /\ AllBefore(ToSet(r.rows), ToSet(all))
    BY DEF ComesAfter
  <2>1. AllBefore(ToSet(r.rows), ToSet(rows))
    BY <1>3 DEF AllBefore, Before
  <2>2. CASE old = <<>>
    <3>1. \A y \in ToSet(all) : y \in ToSet(rows)
      BY <1>6, <2>2, ToSetEmpty
    <3> QED
      BY <1>3, <1>4, <2>1, <2>2, <3>1 DEF AllBefore
  <2>3. CASE old # <<>>
    <3>1. r.index < accum[sh].first /\ AllBefore(ToSet(r.rows), ToSet(old))
      BY <1>3, <2>3 DEF ComesAfter
    <3> QED
      BY <1>4, <1>6, <2>1, <2>3, <3>1 DEF AllBefore
  <2> QED
    BY <2>2, <2>3
<1> HIDE DEF all
<1>10. CASE rows = <<>> /\ accum'[sh] = accum[sh] /\ shardFiles'[at][sh] = f
  BY <1>5, <1>10 DEF ShardInOrder, Behind, f
<1>11. CASE /\ rows # <<>> /\ accum'[sh].rows = all /\ accum'[sh].first = first
            /\ shardFiles'[at][sh] = f
  <2>1. ShardInOrder(sh)'
    BY <1>3, <1>5, <1>7, <1>9, <1>11 DEF ShardInOrder
  <2>2. ASSUME NEW k \in Nat, record.index < k, Behind(sh, k)
        PROVE  Behind(sh, k)'
    <3>1. first < k
      BY <1>4, <2>2 DEF Behind, old
    <3>2. \A x \in ToSet(all) : x[1] < k
      BY <1>6, <2>2 DEF Behind, old
    <3> QED
      BY <1>5, <1>11, <2>2, <3>1, <3>2 DEF Behind, f
  <2> QED
    BY <2>1, <2>2
<1>12. CASE /\ accum'[sh] = Empty /\ rows # <<>> /\ first \in Nat \ {0}
            /\ shardFiles'[at][sh] = Append(f, new)
  <2>1. new \in RecordType /\ new.index = first /\ new.rows = all
    BY <1>6, <1>12, RecordFields
  <2>2. FileInOrder(Append(f, new))
    BY <1>1, <1>3, <1>6, <1>7, <1>8, <1>9, <1>12, FileGrows
  <2> HIDE DEF new
  <2>3. Empty.rows = <<>>
    BY DEF Empty
  <2>4. InOrder(<<>>)
    BY DEF InOrder
  <2>5. ShardInOrder(sh)'
    BY <1>5, <1>12, <2>2, <2>3, <2>4 DEF ShardInOrder, ComesAfter
  <2>6. ASSUME NEW k \in Nat, record.index < k, Behind(sh, k)
        PROVE  Behind(sh, k)'
    <3>1. \A y : y \in ToSet(Append(f, new)) <=> y \in ToSet(f) \/ y = new
      BY <1>1, <2>1, ToSetAppend
    <3>2. first < k
      BY <1>4, <2>6 DEF Behind, old
    <3>3. \A x \in ToSet(all) : x[1] < k
      BY <1>6, <2>6 DEF Behind, old
    <3>4. \A r \in ToSet(Append(f, new)) : r.index < k /\ \A x \in ToSet(r.rows) : x[1] < k
      BY <2>1, <2>6, <3>1, <3>2, <3>3 DEF Behind, f
    <3> QED
      BY <1>5, <1>12, <2>3, <3>4, ToSetEmpty DEF Behind
  <2> QED
    BY <2>5, <2>6
<1> QED
  BY <1>5, <1>10, <1>11, <1>12

ShardsInOrder == \A sh \in Shard : ShardInOrder(sh)

(* While it is split, what is unread comes after all that was handed out.   *)
Ahead ==
  phase = "split" =>
    \A sh \in Shard, n \in Names : \A i \in 1 .. Len(sinkFiles[at][n]) :
      cursor[n] < i => Behind(sh, sinkFiles[at][n][i].index)

(* Only a query with a PARTITION BY is split, in one directory. *)
SplitPlace ==
  /\ Sharded => setting.partitioned
  /\ \A t \in Temp \ {at} : \A sh \in Shard : shardFiles[t][sh] = <<>>

AnswersInOrder == \A sh \in Shard : InOrder(read[sh].rows)

SplitOrder == ShardsInOrder /\ Ahead /\ SplitPlace /\ AnswersInOrder

(* Nothing is out of order where nothing is. *)
LEMMA EmptyInOrder ==
  ASSUME NEW sh, shardFiles[at][sh] = <<>>, accum[sh].rows = <<>>
  PROVE  ShardInOrder(sh)
<1>1. InOrder(<<>>) /\ FileInOrder(<<>>)
  BY DEF InOrder, FileInOrder
<1> QED
  BY <1>1 DEF ShardInOrder, ComesAfter

(* It holds before anything is sunk. *)
LEMMA SplitOrderInit == Init => SplitOrder
<1> SUFFICES ASSUME Init
             PROVE  SplitOrder
  OBVIOUS
<1>1. /\ phase = "sink" /\ shards = 1 /\ at \in Temp
      /\ \A t \in Temp : \A sh \in Shard : shardFiles[t][sh] = <<>>
      /\ \A sh \in Shard : accum[sh].rows = <<>> /\ read[sh].rows = <<>>
  BY DEF Init, SpoolInit, NoShards, Empty, Unread
<1>2. ShardsInOrder
  BY <1>1, EmptyInOrder DEF ShardsInOrder
<1>3. SplitPlace
  BY <1>1 DEF SplitPlace, Sharded
<1>4. AnswersInOrder
  BY <1>1 DEF AnswersInOrder, InOrder
<1> QED
  BY <1>1, <1>2, <1>3, <1>4 DEF SplitOrder, Ahead

(* A step that hands out no row: files are left alone or emptied.           *)
LEMMA SplitOrderFramed ==
  ASSUME IInv, SplitOrder, UNCHANGED <<setting, shards, at, accum>>,
         \A t \in Temp : \A sh \in Shard :
           shardFiles'[t][sh] = shardFiles[t][sh] \/ shardFiles'[t][sh] = <<>>,
         \A sh \in Shard : read'[sh].rows = read[sh].rows \/ InOrder(read'[sh].rows),
         phase' # "split" \/ UNCHANGED <<phase, cursor, sinkFiles, shardFiles>>
  PROVE  SplitOrder'
<1>1. at \in Temp
  BY DEF IInv, TypeOK
<1>2. ShardsInOrder'
  <2> SUFFICES ASSUME NEW sh \in Shard
               PROVE  ShardInOrder(sh)'
    BY DEF ShardsInOrder
  <2>1. ShardInOrder(sh)
    BY DEF SplitOrder, ShardsInOrder
  <2>2. CASE shardFiles'[at][sh] = shardFiles[at][sh]
    BY <2>1, <2>2 DEF ShardInOrder
  <2>3. CASE shardFiles'[at][sh] = <<>>
    <3>1. FileInOrder(<<>>)
      BY DEF FileInOrder
    <3>2. InOrder(accum'[sh].rows)
      BY <2>1 DEF ShardInOrder
    <3> QED
      BY <2>3, <3>1, <3>2, ToSetEmpty DEF ShardInOrder, ComesAfter
  <2> QED
    BY <1>1, <2>2, <2>3
<1>3. Ahead'
  BY DEF SplitOrder, Ahead, Behind, Names
<1>4. SplitPlace'
  BY DEF SplitOrder, SplitPlace, Sharded
<1>5. AnswersInOrder'
  BY DEF SplitOrder, AnswersInOrder
<1> QED
  BY <1>2, <1>3, <1>4, <1>5 DEF SplitOrder

(* combine starts with empty shards. *)
LEMMA CombineOrder ==
  ASSUME IInv, SplitOrder, NEW t \in Temp, Combine(t)
  PROVE  SplitOrder'
<1>1. /\ phase = "sink" /\ at' = t
      /\ phase' = IF Splits(t) THEN "split" ELSE "produce"
      /\ shards' = IF Splits(t) THEN ShardCount(NumRows(SinkRecords(t))) ELSE 1
      /\ UNCHANGED <<setting, sinkFiles, shardFiles, cursor, accum, read>>
  BY DEF Combine, Sunk, given, disk
<1>2. /\ \A sh \in Shard : accum[sh].rows = <<>> /\ \A u \in Temp : shardFiles[u][sh] = <<>>
  BY <1>1 DEF IInv, PhaseOK, SinkPhase, Unsplit, Empty
<1>3. ShardsInOrder'
  <2> SUFFICES ASSUME NEW sh \in Shard
               PROVE  ShardInOrder(sh)'
    BY DEF ShardsInOrder
  <2>1. InOrder(<<>>) /\ FileInOrder(<<>>)
    BY DEF InOrder, FileInOrder
  <2> QED
    BY <1>1, <1>2, <2>1 DEF ShardInOrder, ComesAfter
<1>4. \A sh \in Shard : \A k : Behind(sh, k)'
  BY <1>1, <1>2, ToSetEmpty DEF Behind
<1>5. Ahead'
  BY <1>4 DEF Ahead
<1>6. SplitPlace'
  <2>1. Sharded' => Splits(t)
    BY <1>1 DEF Sharded
  <2>2. Splits(t) => setting.partitioned
    <3>1. ~setting.partitioned => ShardCount(NumRows(SinkRecords(t))) = 1
      BY DEF ShardCount
    <3> QED
      BY <3>1 DEF Splits
  <2> QED
    BY <1>1, <1>2, <2>1, <2>2 DEF SplitPlace
<1>7. AnswersInOrder'
  BY <1>1 DEF SplitOrder, AnswersInOrder
<1> QED
  BY <1>3, <1>5, <1>6, <1>7 DEF SplitOrder

(* What waited comes after what was written before it. *)
LEMMA SplitEndsOrder ==
  ASSUME IInv, SplitOrder, SplitEnds
  PROVE  SplitOrder'
<1>1. SplitEndsFacts
  BY SplitEndsGives
<1>2. /\ phase' = "produce" /\ UNCHANGED <<setting, shards, at, read>>
      /\ accum' = [sh \in Shard |-> Empty]
      /\ \A t \in Temp \ {at} : shardFiles'[t] = shardFiles[t]
  BY <1>1 DEF SplitEndsFacts
<1>3. ASSUME NEW sh \in Shard
      PROVE  FileInOrder(shardFiles'[at][sh])
  <2> DEFINE f == shardFiles[at][sh]
             rows == accum[sh].rows
             first == accum[sh].first
  <2>1. \/ shardFiles'[at][sh] = f
        \/ /\ rows # <<>> /\ first \in Nat \ {0}
           /\ shardFiles'[at][sh] = Append(f, Record(first, rows))
    BY <1>1 DEF SplitEndsFacts
  <2>2. f \in Seq(RecordType) /\ rows \in Seq(Nat \X Nat)
    BY DEF IInv, TypeOK
  <2>3. FileInOrder(f) /\ InOrder(rows) /\ ComesAfter(f, first, rows)
    BY DEF SplitOrder, ShardsInOrder, ShardInOrder
  <2> HIDE DEF f, rows, first
  <2> QED
    BY <2>1, <2>2, <2>3, FileGrows
<1>4. ShardsInOrder'
  <2> SUFFICES ASSUME NEW sh \in Shard
               PROVE  ShardInOrder(sh)'
    BY DEF ShardsInOrder
  <2>1. InOrder(<<>>)
    BY DEF InOrder
  <2>2. accum'[sh].rows = <<>>
    BY <1>2 DEF Empty
  <2> QED
    BY <1>2, <1>3, <2>1, <2>2 DEF ShardInOrder, ComesAfter
<1>5. Ahead'
  BY <1>2 DEF Ahead
<1>6. SplitPlace' /\ AnswersInOrder'
  BY <1>2 DEF SplitOrder, SplitPlace, Sharded, AnswersInOrder
<1> QED
  BY <1>4, <1>5, <1>6 DEF SplitOrder

(* What stays unread comes after the record that is read.                   *)
LEMMA UnreadAfter ==
  ASSUME IInv, SinksInv, FilesAscend, SplitOrder, SplitRecord, NEW record, record = HeadOf(Pick),
         NEW m \in Names, NEW i \in 1 .. Len(sinkFiles'[at][m]), cursor'[m] < i
  PROVE  /\ i \in 1 .. Len(sinkFiles[at][m]) /\ cursor[m] < i
         /\ sinkFiles'[at][m] = sinkFiles[at][m]
         /\ sinkFiles[at][m][i].index \in Nat
         /\ record.index < sinkFiles[at][m][i].index
<1> DEFINE n == Pick
           f == sinkFiles[at][m]
<1>1. SplitRecordFacts /\ Live # {}
  BY SplitRecordGives DEF SplitRecord
<1>2. /\ n \in Names /\ record \in RecordType
      /\ cursor[n] + 1 \in 1 .. Len(sinkFiles[at][n])
      /\ \A u \in Live : HeadOf(u) \in RecordType /\ record.index <= HeadOf(u).index
  BY <1>1, PickLive
<1>3. phase = "split" /\ ReadOn(n) /\ at \in Temp
  BY <1>1 DEF SplitRecordFacts, IInv, TypeOK
<1>4. setting.partitioned
  BY <1>3 DEF SplitOrder, SplitPlace, IInv, PhaseOK, SplitPhase
<1>5. /\ f \in Seq(RecordType) /\ cursor[m] \in Nat /\ cursor[n] \in Nat
      /\ Ascends(f) /\ FilesApart(at)
  BY <1>2, <1>3, <1>4 DEF IInv, TypeOK, FilesAscend, SinksInv, SunkOnce
<1>6. \A j \in 1 .. Len(f) : f[j].index \in Nat
  BY <1>5, RecordFields
<1>7. record = sinkFiles[at][n][cursor[n] + 1] /\ record.index \in Nat
  BY <1>2, RecordFields DEF HeadOf
<1> HIDE DEF n, f
<1>8. CASE m # n
  <2>1. cursor'[m] = cursor[m] /\ sinkFiles'[at][m] = f
    BY <1>3, <1>8 DEF ReadOn, f
  <2>2. i \in 1 .. Len(f) /\ cursor[m] < i /\ Len(f) \in Nat
    BY <1>5, <2>1
  <2>3. cursor[m] < Len(f) /\ cursor[m] + 1 \in 1 .. Len(f) /\ cursor[m] + 1 <= i
    BY <1>5, <2>2
  <2>4. m \in Live /\ HeadOf(m) = f[cursor[m] + 1]
    BY <2>3 DEF Live, HeadOf, f
  <2>5. record.index <= f[cursor[m] + 1].index
    BY <1>2, <2>4
  <2>6. f[cursor[m] + 1].index <= f[i].index
    <3>1. cursor[m] + 1 < i => f[cursor[m] + 1].index < f[i].index
      BY <1>5, <2>2, <2>3 DEF Ascends
    <3>2. f[cursor[m] + 1].index \in Nat /\ f[i].index \in Nat
      BY <1>6, <2>2, <2>3
    <3>3. cursor[m] + 1 < i \/ cursor[m] + 1 = i
      BY <1>5, <2>2, <2>3
    <3> QED
      BY <3>1, <3>2, <3>3
  <2>7. record.index # f[i].index
    <3>1. \A x \in 1 .. Len(sinkFiles[at][n]), y \in 1 .. Len(sinkFiles[at][m]) :
            sinkFiles[at][n][x].index = sinkFiles[at][m][y].index => n = m /\ x = y
      BY <1>2, <1>5, Zenon DEF FilesApart
    <3> QED
      BY <1>2, <1>7, <1>8, <2>2, <3>1 DEF f
  <2>8. f[cursor[m] + 1].index \in Nat /\ f[i].index \in Nat
    BY <1>6, <2>2, <2>3
  <2>9. record.index < f[i].index
    BY <1>7, <2>5, <2>6, <2>7, <2>8
  <2> QED
    BY <2>1, <2>2, <2>8, <2>9 DEF f
<1>9. CASE m = n /\ cursor'[n] = cursor[n] + 1 /\ sinkFiles'[at][n] = sinkFiles[at][n]
  <2>1. /\ i \in 1 .. Len(f) /\ cursor[m] + 1 < i /\ sinkFiles'[at][m] = f
        /\ cursor[m] + 1 \in 1 .. Len(f) /\ record = f[cursor[m] + 1]
    BY <1>2, <1>7, <1>9 DEF f
  <2>2. cursor[m] < i
    BY <1>5, <2>1
  <2>3. record.index < f[i].index
    BY <1>5, <2>1 DEF Ascends
  <2> QED
    BY <1>6, <2>1, <2>2, <2>3 DEF f
<1>10. CASE m = n /\ sinkFiles'[at][n] = <<>>
  <2>1. 1 .. Len(<<>>) = {}
    OBVIOUS
  <2> QED
    BY <1>10, <2>1
<1> QED
  BY <1>3, <1>8, <1>9, <1>10 DEF ReadOn

(* The next record in input order comes after all that was handed out. *)
LEMMA SplitRecordOrder ==
  ASSUME IInv, SinksInv, FilesAscend, SplitOrder, SplitRecord
  PROVE  SplitOrder'
<1>1. PICK record : record = HeadOf(Pick)
  OBVIOUS
<1>2. SplitRecordFacts /\ Live # {}
  BY SplitRecordGives DEF SplitRecord
<1>3. /\ Pick \in Names /\ Pick \in Live /\ record \in RecordType
      /\ cursor[Pick] + 1 \in 1 .. Len(sinkFiles[at][Pick])
  BY <1>1, <1>2, PickLive
<1>4. /\ phase = "split" /\ UNCHANGED <<setting, shards, at, read>>
      /\ \A t \in Temp \ {at} : shardFiles'[t] = shardFiles[t]
      /\ \A sh \in Shard : Given(sh, record, OfShard(record.rows, sh))
  BY <1>1, <1>2 DEF SplitRecordFacts
<1>5. at \in Temp /\ record.index \in Nat \ {0} /\ record.rows \in Seq(Nat \X Nat)
  BY <1>3, RecordFields DEF IInv, TypeOK
<1>6. InOrder(record.rows) /\ \A x \in ToSet(record.rows) : x[1] = record.index
  <2>1. OfInput(record)
    <3>1. record \in ToSet(sinkFiles[at][Pick])
      BY <1>1, <1>3 DEF HeadOf, ToSet
    <3> QED
      BY <1>3, <1>5, <3>1 DEF IInv, OwnRecords
  <2>2. PICK k \in 1 .. Len(input) : record = Record(k, Rows(k))
    BY <2>1 DEF OfInput
  <2>3. input \in Inputs
    BY DEF IInv, TypeOK
  <2>4. record.index = k /\ record.rows = Rows(k)
    BY <2>2 DEF Record
  <2> QED
    BY <2>3, <2>4, RowsInOrder
<1>7. ASSUME NEW sh \in Shard
      PROVE  Behind(sh, record.index)
  <2>1. cursor[Pick] < cursor[Pick] + 1
    BY <1>3 DEF IInv, TypeOK
  <2> QED
    BY <1>1, <1>3, <1>4, <2>1 DEF SplitOrder, Ahead, HeadOf
<1>8. ASSUME NEW sh \in Shard
      PROVE  /\ ShardInOrder(sh)'
             /\ \A k \in Nat : record.index < k /\ Behind(sh, k) => Behind(sh, k)'
  <2> DEFINE mine == OfShard(record.rows, sh)
  <2>1. /\ mine \in Seq(Nat \X Nat)
        /\ \A x : x \in ToSet(mine) <=> x \in ToSet(record.rows) /\ ShardOf(x) = sh
    BY <1>5, OfShardProperties
  <2>2. InOrder(mine)
    BY <1>5, <1>6, OfShardInOrder
  <2>3. Given(sh, record, mine) /\ Behind(sh, record.index) /\ ShardInOrder(sh)
    BY <1>4, <1>7 DEF SplitOrder, ShardsInOrder
  <2> HIDE DEF mine
  <2>4. \A x \in ToSet(mine) : x[1] = record.index
    BY <1>6, <2>1
  <2> QED
    BY <1>3, <1>4, <2>1, <2>2, <2>3, <2>4, ShardTakes
<1>9. ShardsInOrder'
  BY <1>8 DEF ShardsInOrder
<1>10. Ahead'
  <2> SUFFICES ASSUME NEW sh \in Shard, NEW m \in Names,
                      NEW i \in 1 .. Len(sinkFiles'[at][m]), cursor'[m] < i,
                      NEW k, k = sinkFiles'[at][m][i].index
               PROVE  Behind(sh, k)'
    BY <1>4 DEF Ahead, Names
  <2>1. /\ i \in 1 .. Len(sinkFiles[at][m]) /\ cursor[m] < i
        /\ k = sinkFiles[at][m][i].index /\ k \in Nat /\ record.index < k
    BY <1>1, UnreadAfter
  <2>2. Behind(sh, k)
    BY <1>4, <2>1 DEF SplitOrder, Ahead
  <2> QED
    BY <1>8, <2>1, <2>2
<1>11. SplitPlace' /\ AnswersInOrder'
  BY <1>4 DEF SplitOrder, SplitPlace, Sharded, AnswersInOrder
<1> QED
  BY <1>9, <1>10, <1>11 DEF SplitOrder

-----------------------------------------------------------------------------
(* The producers get their rows in input order.                             *)

(* A file that is in order is sorted as it is. *)
LEMMA FileSortable ==
  ASSUME NEW f \in Seq(RecordType), FileInOrder(f)
  PROVE  Sortable(f)
<1>1. \A i \in 1 .. Len(f) : f[i].index \in Nat
  BY RecordFields
<1>2. ASSUME NEW i \in 1 .. Len(f), NEW j \in 1 .. Len(f), i < j
      PROVE  f[i].index < f[j].index /\ AllBefore(ToSet(f[i].rows), ToSet(f[j].rows))
  BY <1>2 DEF FileInOrder
<1>3. ASSUME NEW i \in 1 .. Len(f), NEW j \in 1 .. Len(f), f[i].index = f[j].index
      PROVE  i = j
  <2>1. ~(i < j) /\ ~(j < i)
    BY <1>1, <1>2, <1>3
  <2> QED
    BY <2>1
<1>4. ASSUME NEW i \in 1 .. Len(f), NEW j \in 1 .. Len(f), f[i].index < f[j].index
      PROVE  AllBefore(ToSet(f[i].rows), ToSet(f[j].rows))
  <2>1. ~(j < i)
    <3>1. j < i => f[j].index < f[i].index
      BY <1>2
    <3> QED
      BY <1>1, <1>4, <3>1
  <2>2. i # j
    BY <1>1, <1>4
  <2>3. i < j
    BY <2>1, <2>2
  <2> QED
    BY <1>2, <2>3
<1> QED
  BY <1>3, <1>4 DEF Sortable, Apart, FileInOrder

(* Batches of the input that are there once can be sorted too.              *)
LEMMA BatchesSortable ==
  ASSUME input \in Inputs, NEW records \in Seq(RecordType), Apart(records),
         \A r \in ToSet(records) : OfInput(r)
  PROVE  Sortable(records)
<1>1. ASSUME NEW i \in 1 .. Len(records)
      PROVE  InOrder(records[i].rows) /\ \A x \in ToSet(records[i].rows) : x[1] = records[i].index
  <2>1. OfInput(records[i])
    BY DEF ToSet
  <2>2. PICK k \in 1 .. Len(input) : records[i] = Record(k, Rows(k))
    BY <2>1 DEF OfInput
  <2>3. records[i].index = k /\ records[i].rows = Rows(k)
    BY <2>2 DEF Record
  <2> QED
    BY <2>3, RowsInOrder
<1>2. ASSUME NEW i \in 1 .. Len(records), NEW j \in 1 .. Len(records),
             records[i].index < records[j].index
      PROVE  AllBefore(ToSet(records[i].rows), ToSet(records[j].rows))
  BY <1>1, <1>2 DEF AllBefore, Before
<1> QED
  BY <1>1, <1>2 DEF Sortable

(* Two sequences of records with different indexes. *)
LEMMA ConcatApart ==
  ASSUME NEW a \in Seq(RecordType), NEW b \in Seq(RecordType), Apart(a), Apart(b),
         \A r \in ToSet(a), u \in ToSet(b) : r.index # u.index
  PROVE  Apart(a \o b)
<1> DEFINE ab == a \o b
<1>1. /\ Len(ab) = Len(a) + Len(b) /\ Len(a) \in Nat /\ Len(b) \in Nat
      /\ \A i \in 1 .. Len(a) + Len(b) : ab[i] = IF i <= Len(a) THEN a[i] ELSE b[i - Len(a)]
  BY ConcatProperties
<1> HIDE DEF ab
<1>2. ASSUME NEW i \in 1 .. Len(ab)
      PROVE  \/ i \in 1 .. Len(a) /\ ab[i] = a[i] /\ a[i] \in ToSet(a)
             \/ /\ i - Len(a) \in 1 .. Len(b) /\ ab[i] = b[i - Len(a)]
                /\ b[i - Len(a)] \in ToSet(b)
  <2>1. CASE i <= Len(a)
    <3>1. i \in 1 .. Len(a)
      BY <1>1, <2>1
    <3> QED
      BY <1>1, <2>1, <3>1 DEF ToSet
  <2>2. CASE ~(i <= Len(a))
    <3>1. i - Len(a) \in 1 .. Len(b)
      BY <1>1, <2>2
    <3> QED
      BY <1>1, <2>2, <3>1 DEF ToSet
  <2> QED
    BY <2>1, <2>2
<1> SUFFICES ASSUME NEW i \in 1 .. Len(ab), NEW j \in 1 .. Len(ab), ab[i].index = ab[j].index
             PROVE  i = j
  BY DEF Apart, ab
<1>3. CASE i \in 1 .. Len(a) /\ ab[i] = a[i] /\ j \in 1 .. Len(a) /\ ab[j] = a[j]
  BY <1>3 DEF Apart
<1>4. CASE /\ i - Len(a) \in 1 .. Len(b) /\ ab[i] = b[i - Len(a)]
           /\ j - Len(a) \in 1 .. Len(b) /\ ab[j] = b[j - Len(a)]
  <2>1. i - Len(a) = j - Len(a)
    BY <1>4 DEF Apart
  <2>2. Len(a) \in Int /\ i \in Int /\ j \in Int
    BY <1>1
  <2> QED
    BY <2>1, <2>2
<1> QED
  BY <1>2, <1>3, <1>4

(* What a producer reads back can be sorted into input order. *)
LEMMA CollectedSortable ==
  ASSUME IInv, SinksInv, SplitOrder, phase = "produce", NEW t \in Temp, NEW sh \in Shard
  PROVE  Collected(t, sh) \in Seq(RecordType) /\ Sortable(Collected(t, sh))
<1>1. /\ Spooled(t, sh) \in Seq(RecordType) /\ store[t] \in Seq(RecordType)
      /\ Collected(t, sh) \in Seq(RecordType)
  BY CollectedTyped
<1>2. input \in Inputs /\ at \in Temp /\ setting \in Setting
  BY DEF IInv, TypeOK
<1>3. FilesApart(t) /\ StoreApart(t) /\ \A r \in ToSet(store[t]) : OfInput(r)
  BY DEF SinksInv, SunkOnce, IInv, OwnRecords
<1>4. CASE Sharded /\ t = at
  <2>1. store[t] = <<>> /\ Spooled(t, sh) = shardFiles[at][sh]
    BY <1>4 DEF IInv, PhaseOK, ProducePhase, Spooled
  <2>2. Collected(t, sh) = Spooled(t, sh)
    BY <1>1, <2>1, ConcatEmptySeq DEF Collected
  <2>3. FileInOrder(shardFiles[at][sh])
    BY DEF SplitOrder, ShardsInOrder, ShardInOrder
  <2> QED
    BY <1>1, <2>1, <2>2, <2>3, FileSortable
<1>5. CASE Sharded /\ t # at
  <2>1. Spooled(t, sh) = <<>>
    BY <1>5 DEF Spooled, SplitOrder, SplitPlace
  <2>2. Collected(t, sh) = store[t]
    BY <1>1, <2>1, ConcatEmptySeq DEF Collected
  <2> QED
    BY <1>1, <1>2, <1>3, <2>2, BatchesSortable DEF StoreApart
<1>6. CASE ~Sharded
  <2>1. Spooled(t, sh) = SinkRecords(t)
    BY <1>6 DEF Spooled
  <2>2. sinkFiles[t] \in [Names -> Seq(RecordType)] /\ Names \in SUBSET Nat
    BY <1>2, SettingFields DEF IInv, TypeOK
  <2>3. \A r : r \in ToSet(SinkRecords(t)) <=> \E n \in Names : r \in ToSet(sinkFiles[t][n])
    BY <2>2, SinkRecordsMembers
  <2>4. Apart(SinkRecords(t))
    BY <1>3, <2>2, SinkRecordsApart
  <2>5. Apart(Collected(t, sh))
    <3>1. \A r \in ToSet(SinkRecords(t)), u \in ToSet(store[t]) : r.index # u.index
      BY <1>3, <2>3 DEF StoreApart
    <3>2. Apart(store[t])
      BY <1>3 DEF StoreApart
    <3> QED
      BY <1>1, <2>1, <2>4, <3>1, <3>2, ConcatApart DEF Collected
  <2>6. \A r \in ToSet(Collected(t, sh)) : OfInput(r)
    <3>1. \A r : r \in ToSet(Collected(t, sh)) <=> r \in ToSet(Spooled(t, sh)) \/ r \in ToSet(store[t])
      BY <1>1, ToSetConcat DEF Collected
    <3>2. \A r \in ToSet(SinkRecords(t)) : OfInput(r)
      BY <2>3 DEF IInv, OwnRecords
    <3> QED
      BY <1>3, <2>1, <3>1, <3>2
  <2> QED
    BY <1>1, <1>2, <2>5, <2>6, BatchesSortable
<1> QED
  BY <1>4, <1>5, <1>6

(* Every step keeps the order of the shards and of the answers. *)
LEMMA SplitOrderStep ==
  ASSUME IInv, SinksInv, FilesAscend, SplitOrder, [Next]_vars
  PROVE  SplitOrder'
<1>1. CASE UNCHANGED vars
  BY <1>1, SplitOrderFramed DEF vars, spoolVars, given, disk, splitVars
<1>2. CASE Sink /\ UNCHANGED <<splitVars, read>>
  <2>1. UNCHANGED <<shards, at, accum, read>> /\ at \in Temp
    BY <1>2 DEF splitVars, IInv, TypeOK
  <2>2. ASSUME NEW t \in Temp, Sweep(t)
        PROVE  SplitOrder'
    <3>1. phase \in {"sink", "produce"} /\ UNCHANGED <<setting, phase>>
      <4>1. setting.sweepPhases \subseteq {"sink", "produce"}
        BY SpoolAssumption DEF SettingType, IInv, TypeOK
      <4> QED
        BY <2>2, <4>1 DEF Sweep, given
    <3>2. \A u \in Temp : \A sh \in Shard :
            shardFiles'[u][sh] = IF u = t THEN <<>> ELSE shardFiles[u][sh]
      BY <2>2, Unlinked DEF Sweep
    <3> QED
      BY <2>1, <3>1, <3>2, SplitOrderFramed
  <2>3. ASSUME phase = "sink", phase' \in {"sink", "failed"}, UNCHANGED <<setting, shardFiles>>
        PROVE  SplitOrder'
    BY <2>1, <2>3, SplitOrderFramed
  <2>4. ASSUME ~\E t \in Temp : Sweep(t)
        PROVE  phase = "sink" /\ phase' \in {"sink", "failed"} /\ UNCHANGED <<setting, shardFiles>>
    BY <1>2, <2>4 DEF Sink, Take, AppendSpool, AppendStore, AppendFails, Processing, Evict,
       StoreLoses, given, disk
  <2> QED
    BY <2>2, <2>3, <2>4
<1>3. CASE \E t \in Temp : Combine(t)
  BY <1>3, CombineOrder
<1>4. CASE SplitRecord \/ SplitEnds
  BY <1>4, SplitRecordOrder, SplitEndsOrder
<1>5. CASE SplitFails
  BY <1>5, SplitOrderFramed DEF SplitFails, given, disk, splitVars
<1>6. CASE Produce
  <2>1. ASSUME NEW t \in Temp, NEW sh \in Shard, ReadBack(t, sh)
        PROVE  SplitOrder'
    <3> DEFINE rows == RowsOf(Buffered(t, sh))
    <3>1. /\ phase = "produce" /\ read' = [read EXCEPT ![sh] = [state |-> "ok", rows |-> rows]]
          /\ UNCHANGED <<setting, phase, shards, at, accum, shardFiles>>
      BY <2>1 DEF ReadBack, spoolVars, given, disk, splitVars
    <3>2. InOrder(rows)
      BY <3>1, CollectedSortable, SortedInOrder DEF Buffered
    <3> HIDE DEF rows
    <3>3. \A p \in Shard : read'[p].rows = read[p].rows \/ read'[p].rows = rows
      BY <3>1 DEF IInv, TypeOK
    <3> QED
      BY <3>1, <3>2, <3>3, SplitOrderFramed
  <2>2. ASSUME NEW t \in Temp, NEW sh \in Shard, ReadFails(t, sh)
        PROVE  SplitOrder'
    BY <2>2, SplitOrderFramed DEF ReadFails, given, disk, splitVars
  <2>3. ASSUME NEW t \in Temp, NEW sh \in Shard, EndOfStream(t, sh)
        PROVE  SplitOrder'
    <3>1. EndFacts(t, sh)
      BY <2>3, EndGives
    <3>2. /\ phase' # "split" /\ UNCHANGED <<setting, shards, at, accum>>
          /\ \A p \in Shard : read'[p].rows = read[p].rows
      BY <3>1 DEF EndFacts
    <3>3. ASSUME NEW u \in Temp, NEW p \in Shard
          PROVE  shardFiles'[u][p] = shardFiles[u][p] \/ shardFiles'[u][p] = <<>>
      BY <3>1 DEF EndFacts
    <3> QED
      BY <3>2, <3>3, SplitOrderFramed
  <2> QED
    BY <1>6, <2>1, <2>2, <2>3 DEF Produce
<1> QED
  BY <1>1, <1>2, <1>3, <1>4, <1>5, <1>6 DEF Next

(* A producer holds its rows in input order, each once (spool.rs, buffer.rs *)
(* and shard.rs: the sort of read_batches, and the merge of split by batch  *)
(* index), whichever threads sank them, also when some fell back to the     *)
(* store, and however often the spool is swept.                             *)
THEOREM InputOrderIsKept ==
  ASSUME Orderly
  PROVE  Spec => []InputOrderKept
<1> DEFINE Inv == IInv /\ SinksInv /\ FilesAscend /\ SplitOrder
<1>1. Init => Inv
  BY InitHolds, SinksInit, FilesAscendInit, SplitOrderInit
<1>2. Inv /\ [Next]_vars => Inv'
  BY StepKeeps, SinksStep, AscendStep, SplitOrderStep
<1>3. Inv => InputOrderKept
  <2> SUFFICES ASSUME Inv
               PROVE  InputOrderKept
    OBVIOUS
  <2>1. Producers \subseteq Shard
    BY ShardZero DEF IInv
  <2> QED
    BY <2>1 DEF SplitOrder, AnswersInOrder, InOrder, InputOrderKept
<1> HIDE DEF Inv
<1> QED
  BY <1>1, <1>2, <1>3, PTL DEF Spec

-----------------------------------------------------------------------------
(* Every row of a shard was handed to it once.                              *)

(* Rows in input order are distinct. *)
LEMMA InOrderDistinct ==
  ASSUME NEW rows \in Seq(Nat \X Nat), InOrder(rows)
  PROVE  Distinct(rows)
<1> SUFFICES ASSUME NEW i \in 1 .. Len(rows), NEW j \in 1 .. Len(rows), rows[i] = rows[j]
             PROVE  i = j
  BY DEF Distinct
<1>1. rows[i] \in Nat \X Nat
  OBVIOUS
<1>2. ~Before(rows[i], rows[i])
  BY <1>1 DEF Before
<1>3. ~(i < j) /\ ~(j < i)
  BY <1>2 DEF InOrder
<1> QED
  BY <1>3

(* Some of the elements of such a sequence, in their order. *)
LEMMA OfShardDistinct ==
  ASSUME NEW S, NEW rows \in Seq(S), Distinct(rows), NEW sh
  PROVE  Distinct(OfShard(rows, sh))
<1> DEFINE mine == OfShard(rows, sh)
<1>1. /\ mine \in Seq(S)
      /\ \A i, j \in 1 .. Len(mine) : i < j =>
           \E a, b \in 1 .. Len(rows) : a < b /\ mine[i] = rows[a] /\ mine[j] = rows[b]
  BY OfShardProperties
<1> HIDE DEF mine
<1>2. ASSUME NEW i \in 1 .. Len(mine), NEW j \in 1 .. Len(mine), i < j
      PROVE  mine[i] # mine[j]
  <2>1. PICK a, b \in 1 .. Len(rows) : a < b /\ mine[i] = rows[a] /\ mine[j] = rows[b]
    BY <1>1, <1>2
  <2>2. a # b
    BY <2>1
  <2> QED
    BY <2>1, <2>2 DEF Distinct
<1>3. ASSUME NEW i \in 1 .. Len(mine), NEW j \in 1 .. Len(mine), mine[i] = mine[j]
      PROVE  i = j
  <2>1. ~(i < j) /\ ~(j < i)
    BY <1>2, <1>3
  <2> QED
    BY <2>1
<1> QED
  BY <1>3 DEF Distinct, mine

(* No row of a shard's file is in it twice. *)
FileOnce(f) ==
  /\ \A i \in 1 .. Len(f) : Distinct(f[i].rows)
  /\ \A i, j \in 1 .. Len(f) : i # j => Disjoint(f[i].rows, f[j].rows)

ShardOnce(sh) ==
  /\ FileOnce(shardFiles[at][sh])
  /\ Distinct(accum[sh].rows)
  /\ \A r \in ToSet(shardFiles[at][sh]) : Disjoint(r.rows, accum[sh].rows)

(* A shard was given no row of batch k. *)
Lacks(sh, k) ==
  /\ \A r \in ToSet(shardFiles[at][sh]) : \A x \in ToSet(r.rows) : x[1] # k
  /\ \A x \in ToSet(accum[sh].rows) : x[1] # k

(* A file to which other rows are written. *)
LEMMA FileOnceGrows ==
  ASSUME NEW f \in Seq(RecordType), FileOnce(f), NEW first \in Nat \ {0},
         NEW rows \in Seq(Nat \X Nat), Distinct(rows),
         \A r \in ToSet(f) : Disjoint(r.rows, rows)
  PROVE  FileOnce(Append(f, Record(first, rows)))
<1> DEFINE r == Record(first, rows)
           g == Append(f, r)
<1>1. r \in RecordType /\ r.rows = rows
  BY RecordFields
<1> HIDE DEF r
<1>2. \A i \in 1 .. Len(g) : \/ i \in 1 .. Len(f) /\ g[i] = f[i] /\ f[i] \in ToSet(f)
                             \/ i = Len(f) + 1 /\ g[i] = r
  BY <1>1, AppendPlaces
<1> HIDE DEF g
<1>3. ASSUME NEW i \in 1 .. Len(g)
      PROVE  Distinct(g[i].rows)
  BY <1>1, <1>2 DEF FileOnce
<1>4. ASSUME NEW i \in 1 .. Len(g), NEW j \in 1 .. Len(g), i # j
      PROVE  Disjoint(g[i].rows, g[j].rows)
  <2>1. CASE i \in 1 .. Len(f) /\ g[i] = f[i] /\ j \in 1 .. Len(f) /\ g[j] = f[j]
    BY <1>4, <2>1 DEF FileOnce
  <2>2. CASE f[i] \in ToSet(f) /\ g[i] = f[i] /\ g[j] = r
    BY <1>1, <2>2
  <2>3. CASE f[j] \in ToSet(f) /\ g[j] = f[j] /\ g[i] = r
    <3>1. Disjoint(f[j].rows, rows)
      BY <2>3
    <3> QED
      BY <1>1, <2>3, <3>1 DEF Disjoint
  <2> QED
    BY <1>2, <1>4, <2>1, <2>2, <2>3
<1> QED
  BY <1>3, <1>4 DEF FileOnce, g, r

(* A shard that takes rows of a batch of which it had none. *)
LEMMA ShardTakesOnce ==
  ASSUME IInv, NEW sh \in Shard, ShardOnce(sh), NEW record \in RecordType,
         NEW rows \in Seq(Nat \X Nat), Given(sh, record, rows), UNCHANGED at,
         Lacks(sh, record.index), Distinct(rows), \A x \in ToSet(rows) : x[1] = record.index
  PROVE  /\ ShardOnce(sh)'
         /\ \A k : k # record.index /\ Lacks(sh, k) => Lacks(sh, k)'
<1> DEFINE f == shardFiles[at][sh]
           old == accum[sh].rows
           first == FirstOf(sh, record)
           all == old \o rows
           new == Record(first, all)
<1>1. f \in Seq(RecordType) /\ old \in Seq(Nat \X Nat) /\ at \in Temp
  BY DEF IInv, TypeOK
<1>2. /\ FileOnce(f) /\ Distinct(old) /\ \A r \in ToSet(f) : Disjoint(r.rows, old)
      /\ \A r \in ToSet(f) : \A x \in ToSet(r.rows) : x[1] # record.index
      /\ \A x \in ToSet(old) : x[1] # record.index
  BY DEF ShardOnce, Lacks
<1>3. /\ \/ accum'[sh].rows = all /\ shardFiles'[at][sh] = f
         \/ /\ accum'[sh] = Empty /\ first \in Nat \ {0}
            /\ shardFiles'[at][sh] = Append(f, new)
      /\ at' = at
  BY DEF Given
<1> HIDE DEF f, old, first
<1>4. all \in Seq(Nat \X Nat) /\ \A y : y \in ToSet(all) <=> y \in ToSet(old) \/ y \in ToSet(rows)
  BY <1>1, ToSetConcat
<1>5. Distinct(all)
  <2>1. Disjoint(old, rows)
    BY <1>2 DEF Disjoint
  <2> QED
    BY <1>1, <1>2, <2>1, DistinctConcat
<1>6. ASSUME NEW r \in ToSet(f)
      PROVE  Disjoint(r.rows, all)
  BY <1>2, <1>4 DEF Disjoint
<1>7. ASSUME NEW k, k # record.index, Lacks(sh, k)
      PROVE  /\ \A x \in ToSet(all) : x[1] # k
             /\ \A r \in ToSet(f) : \A x \in ToSet(r.rows) : x[1] # k
  BY <1>4, <1>7 DEF Lacks, old, f
<1> HIDE DEF all
<1>8. CASE accum'[sh].rows = all /\ shardFiles'[at][sh] = f
  <2>1. ShardOnce(sh)'
    BY <1>2, <1>3, <1>5, <1>6, <1>8 DEF ShardOnce
  <2>2. ASSUME NEW k, k # record.index, Lacks(sh, k)
        PROVE  Lacks(sh, k)'
    BY <1>3, <1>7, <1>8, <2>2 DEF Lacks
  <2> QED
    BY <2>1, <2>2
<1>9. CASE /\ accum'[sh] = Empty /\ first \in Nat \ {0}
           /\ shardFiles'[at][sh] = Append(f, new)
  <2>1. new \in RecordType /\ new.rows = all
    BY <1>4, <1>9, RecordFields
  <2>2. FileOnce(Append(f, new))
    BY <1>1, <1>2, <1>4, <1>5, <1>6, <1>9, FileOnceGrows
  <2> HIDE DEF new
  <2>3. Empty.rows = <<>>
    BY DEF Empty
  <2>4. Distinct(<<>>) /\ \A a : Disjoint(a, <<>>)
    BY ToSetEmpty DEF Distinct, Disjoint
  <2>5. ShardOnce(sh)'
    BY <1>3, <1>9, <2>2, <2>3, <2>4 DEF ShardOnce
  <2>6. ASSUME NEW k, k # record.index, Lacks(sh, k)
        PROVE  Lacks(sh, k)'
    <3>1. \A y : y \in ToSet(Append(f, new)) <=> y \in ToSet(f) \/ y = new
      BY <1>1, <2>1, ToSetAppend
    <3>2. \A r \in ToSet(Append(f, new)) : \A x \in ToSet(r.rows) : x[1] # k
      BY <1>7, <2>1, <2>6, <3>1
    <3> QED
      BY <1>3, <1>9, <2>3, <3>2, ToSetEmpty DEF Lacks
  <2> QED
    BY <2>5, <2>6
<1> QED
  BY <1>3, <1>8, <1>9

ShardsOnce == \A sh \in Shard : ShardOnce(sh)

(* While it is split, no shard was given a row of what is unread. *)
UnreadLacked ==
  phase = "split" =>
    \A sh \in Shard, n \in Names : \A i \in 1 .. Len(sinkFiles[at][n]) :
      cursor[n] < i => Lacks(sh, sinkFiles[at][n][i].index)

OnceInv == ShardsOnce /\ UnreadLacked

(* A shard that was given nothing. *)
LEMMA EmptyOnce ==
  /\ FileOnce(<<>>) /\ Distinct(<<>>) /\ Empty.rows = <<>>
  /\ \A a : Disjoint(a, <<>>)
<1>1. FileOnce(<<>>) /\ Distinct(<<>>)
  BY DEF FileOnce, Distinct
<1> QED
  BY <1>1, ToSetEmpty DEF Disjoint, Empty

(* No row was handed out before anything is sunk. *)
LEMMA OnceInit == Init => OnceInv
<1> SUFFICES ASSUME Init
             PROVE  OnceInv
  OBVIOUS
<1>1. /\ phase = "sink" /\ at \in Temp
      /\ \A t \in Temp : \A sh \in Shard : shardFiles[t][sh] = <<>>
      /\ \A sh \in Shard : accum[sh].rows = <<>>
  BY DEF Init, SpoolInit, NoShards, Empty
<1> QED
  BY <1>1, EmptyOnce, ToSetEmpty DEF OnceInv, ShardsOnce, ShardOnce, UnreadLacked

(* A step that hands out no row: shard files are left alone or emptied.     *)
LEMMA OnceFramed ==
  ASSUME IInv, OnceInv, UNCHANGED <<setting, at, accum>>,
         \A t \in Temp : \A sh \in Shard :
           shardFiles'[t][sh] = shardFiles[t][sh] \/ shardFiles'[t][sh] = <<>>,
         phase' # "split" \/ UNCHANGED <<phase, cursor, sinkFiles, shardFiles>>
  PROVE  OnceInv'
<1>1. at \in Temp
  BY DEF IInv, TypeOK
<1>2. ShardsOnce'
  <2> SUFFICES ASSUME NEW sh \in Shard
               PROVE  ShardOnce(sh)'
    BY DEF ShardsOnce
  <2>1. ShardOnce(sh)
    BY DEF OnceInv, ShardsOnce
  <2>2. CASE shardFiles'[at][sh] = shardFiles[at][sh]
    BY <2>1, <2>2 DEF ShardOnce
  <2>3. CASE shardFiles'[at][sh] = <<>>
    <3>1. Distinct(accum'[sh].rows)
      BY <2>1 DEF ShardOnce
    <3> QED
      BY <2>3, <3>1, EmptyOnce, ToSetEmpty DEF ShardOnce
  <2> QED
    BY <1>1, <2>2, <2>3
<1>3. UnreadLacked'
  BY DEF OnceInv, UnreadLacked, Lacks, Names
<1> QED
  BY <1>2, <1>3 DEF OnceInv

(* combine starts with empty shards. *)
LEMMA CombineOnce ==
  ASSUME IInv, NEW t \in Temp, Combine(t)
  PROVE  OnceInv'
<1>1. /\ phase = "sink" /\ at' = t /\ UNCHANGED <<sinkFiles, shardFiles, accum>>
  BY DEF Combine, Sunk, disk
<1>2. \A sh \in Shard : accum[sh].rows = <<>> /\ \A u \in Temp : shardFiles[u][sh] = <<>>
  BY <1>1 DEF IInv, PhaseOK, SinkPhase, Unsplit, Empty
<1>3. ShardsOnce'
  <2> SUFFICES ASSUME NEW sh \in Shard
               PROVE  ShardOnce(sh)'
    BY DEF ShardsOnce
  <2> QED
    BY <1>1, <1>2, EmptyOnce, ToSetEmpty DEF ShardOnce
<1>4. \A sh \in Shard : \A k : Lacks(sh, k)'
  BY <1>1, <1>2, ToSetEmpty DEF Lacks
<1> QED
  BY <1>3, <1>4 DEF OnceInv, UnreadLacked

(* What waited was not in the file yet. *)
LEMMA SplitEndsOnce ==
  ASSUME IInv, OnceInv, SplitEnds
  PROVE  OnceInv'
<1>1. SplitEndsFacts
  BY SplitEndsGives
<1>2. phase' = "produce" /\ UNCHANGED at /\ accum' = [sh \in Shard |-> Empty]
  BY <1>1 DEF SplitEndsFacts
<1>3. ASSUME NEW sh \in Shard
      PROVE  FileOnce(shardFiles'[at][sh])
  <2> DEFINE f == shardFiles[at][sh]
             rows == accum[sh].rows
             first == accum[sh].first
  <2>1. \/ shardFiles'[at][sh] = f
        \/ first \in Nat \ {0} /\ shardFiles'[at][sh] = Append(f, Record(first, rows))
    BY <1>1 DEF SplitEndsFacts
  <2>2. f \in Seq(RecordType) /\ rows \in Seq(Nat \X Nat)
    BY DEF IInv, TypeOK
  <2>3. FileOnce(f) /\ Distinct(rows) /\ \A r \in ToSet(f) : Disjoint(r.rows, rows)
    BY DEF OnceInv, ShardsOnce, ShardOnce
  <2> HIDE DEF f, rows, first
  <2> QED
    BY <2>1, <2>2, <2>3, FileOnceGrows
<1>4. ShardsOnce'
  <2> SUFFICES ASSUME NEW sh \in Shard
               PROVE  ShardOnce(sh)'
    BY DEF ShardsOnce
  <2>1. accum'[sh].rows = <<>>
    BY <1>2, EmptyOnce
  <2> QED
    BY <1>2, <1>3, <2>1, EmptyOnce DEF ShardOnce
<1> QED
  BY <1>2, <1>4 DEF OnceInv, UnreadLacked


(* What stays unread is of another batch than the record that is read. *)
LEMMA UnreadDiffers ==
  ASSUME IInv, SinksInv, SplitRecord, NEW record, record = HeadOf(Pick),
         NEW m \in Names, NEW i \in 1 .. Len(sinkFiles'[at][m]), cursor'[m] < i
  PROVE  /\ i \in 1 .. Len(sinkFiles[at][m]) /\ cursor[m] < i
         /\ sinkFiles'[at][m] = sinkFiles[at][m]
         /\ record.index # sinkFiles[at][m][i].index
<1> DEFINE n == Pick
<1>1. SplitRecordFacts /\ Live # {}
  BY SplitRecordGives DEF SplitRecord
<1>2. n \in Names /\ cursor[n] + 1 \in 1 .. Len(sinkFiles[at][n])
  BY <1>1, PickLive
<1>3. ReadOn(n) /\ at \in Temp /\ cursor[m] \in Nat /\ cursor[n] \in Nat /\ FilesApart(at)
  BY <1>1, <1>2 DEF SplitRecordFacts, IInv, TypeOK, SinksInv, SunkOnce
<1>4. record = sinkFiles[at][n][cursor[n] + 1]
  BY DEF HeadOf
<1> HIDE DEF n
<1>5. \A x \in 1 .. Len(sinkFiles[at][n]), y \in 1 .. Len(sinkFiles[at][m]) :
        sinkFiles[at][n][x].index = sinkFiles[at][m][y].index => n = m /\ x = y
  BY <1>2, <1>3, Zenon DEF FilesApart
<1>6. CASE m # n
  <2>1. cursor'[m] = cursor[m] /\ sinkFiles'[at][m] = sinkFiles[at][m]
    BY <1>3, <1>6 DEF ReadOn
  <2>2. i \in 1 .. Len(sinkFiles[at][m]) /\ cursor[m] < i
    BY <2>1
  <2> QED
    BY <1>2, <1>4, <1>5, <1>6, <2>1, <2>2
<1>7. CASE m = n /\ cursor'[n] = cursor[n] + 1 /\ sinkFiles'[at][n] = sinkFiles[at][n]
  <2>1. i \in 1 .. Len(sinkFiles[at][m]) /\ cursor[m] < i /\ cursor[n] + 1 # i
    BY <1>3, <1>7
  <2> QED
    BY <1>2, <1>4, <1>5, <1>7, <2>1
<1>8. CASE m = n /\ sinkFiles'[at][n] = <<>>
  <2>1. 1 .. Len(<<>>) = {}
    OBVIOUS
  <2> QED
    BY <1>8, <2>1
<1> QED
  BY <1>3, <1>6, <1>7, <1>8 DEF ReadOn

(* The record that is read is of a batch of which no shard had a row.       *)
LEMMA SplitRecordOnce ==
  ASSUME IInv, SinksInv, OnceInv, SplitRecord
  PROVE  OnceInv'
<1>1. PICK record : record = HeadOf(Pick)
  OBVIOUS
<1>2. SplitRecordFacts /\ Live # {}
  BY SplitRecordGives DEF SplitRecord
<1>3. /\ Pick \in Names /\ record \in RecordType
      /\ cursor[Pick] + 1 \in 1 .. Len(sinkFiles[at][Pick])
  BY <1>1, <1>2, PickLive
<1>4. /\ phase = "split" /\ UNCHANGED <<setting, phase, at>>
      /\ \A sh \in Shard : Given(sh, record, OfShard(record.rows, sh))
  BY <1>1, <1>2 DEF SplitRecordFacts
<1>5. at \in Temp /\ record.rows \in Seq(Nat \X Nat)
  BY <1>3, RecordFields DEF IInv, TypeOK
<1>6. Distinct(record.rows) /\ \A x \in ToSet(record.rows) : x[1] = record.index
  <2>1. OfInput(record)
    <3>1. record \in ToSet(sinkFiles[at][Pick])
      BY <1>1, <1>3 DEF HeadOf, ToSet
    <3> QED
      BY <1>3, <1>5, <3>1 DEF IInv, OwnRecords
  <2>2. PICK k \in 1 .. Len(input) : record = Record(k, Rows(k))
    BY <2>1 DEF OfInput
  <2>3. input \in Inputs
    BY DEF IInv, TypeOK
  <2>4. record.index = k /\ record.rows = Rows(k)
    BY <2>2 DEF Record
  <2> QED
    BY <1>5, <2>3, <2>4, RowsInOrder, InOrderDistinct
<1>7. ASSUME NEW sh \in Shard
      PROVE  Lacks(sh, record.index)
  <2>1. cursor[Pick] < cursor[Pick] + 1
    BY <1>3 DEF IInv, TypeOK
  <2> QED
    BY <1>1, <1>3, <1>4, <2>1 DEF OnceInv, UnreadLacked, HeadOf
<1>8. ASSUME NEW sh \in Shard
      PROVE  /\ ShardOnce(sh)'
             /\ \A k : k # record.index /\ Lacks(sh, k) => Lacks(sh, k)'
  <2> DEFINE mine == OfShard(record.rows, sh)
  <2>1. /\ mine \in Seq(Nat \X Nat) /\ Distinct(mine)
        /\ \A x : x \in ToSet(mine) <=> x \in ToSet(record.rows) /\ ShardOf(x) = sh
    BY <1>5, <1>6, OfShardProperties, OfShardDistinct
  <2>2. Given(sh, record, mine) /\ Lacks(sh, record.index) /\ ShardOnce(sh)
    BY <1>4, <1>7 DEF OnceInv, ShardsOnce
  <2> HIDE DEF mine
  <2>3. \A x \in ToSet(mine) : x[1] = record.index
    BY <1>6, <2>1
  <2> QED
    BY <1>3, <1>4, <2>1, <2>2, <2>3, ShardTakesOnce
<1>9. UnreadLacked'
  <2> SUFFICES ASSUME NEW sh \in Shard, NEW m \in Names,
                      NEW i \in 1 .. Len(sinkFiles'[at][m]), cursor'[m] < i,
                      NEW k, k = sinkFiles'[at][m][i].index
               PROVE  Lacks(sh, k)'
    BY <1>4 DEF UnreadLacked, Names
  <2>1. /\ i \in 1 .. Len(sinkFiles[at][m]) /\ cursor[m] < i
        /\ k = sinkFiles[at][m][i].index /\ k # record.index
    BY <1>1, UnreadDiffers
  <2>2. Lacks(sh, k)
    BY <1>4, <2>1 DEF OnceInv, UnreadLacked
  <2> QED
    BY <1>8, <2>1, <2>2
<1> QED
  BY <1>8, <1>9 DEF OnceInv, ShardsOnce

(* Every step hands a row out once. *)
LEMMA OnceStep ==
  ASSUME IInv, SinksInv, OnceInv, [Next]_vars
  PROVE  OnceInv'
<1>1. CASE UNCHANGED vars
  BY <1>1, OnceFramed DEF vars, spoolVars, given, disk, splitVars
<1>2. CASE Sink /\ UNCHANGED <<splitVars, read>>
  <2>1. UNCHANGED <<at, accum>> /\ at \in Temp
    BY <1>2 DEF splitVars, IInv, TypeOK
  <2>2. ASSUME NEW t \in Temp, Sweep(t)
        PROVE  OnceInv'
    <3>1. phase \in {"sink", "produce"} /\ UNCHANGED <<setting, phase>>
      <4>1. setting.sweepPhases \subseteq {"sink", "produce"}
        BY SpoolAssumption DEF SettingType, IInv, TypeOK
      <4> QED
        BY <2>2, <4>1 DEF Sweep, given
    <3>2. \A u \in Temp : \A sh \in Shard :
            shardFiles'[u][sh] = IF u = t THEN <<>> ELSE shardFiles[u][sh]
      BY <2>2, Unlinked DEF Sweep
    <3> QED
      BY <2>1, <3>1, <3>2, OnceFramed
  <2>3. ASSUME ~\E t \in Temp : Sweep(t)
        PROVE  phase = "sink" /\ phase' \in {"sink", "failed"} /\ UNCHANGED <<setting, shardFiles>>
    BY <1>2, <2>3 DEF Sink, Take, AppendSpool, AppendStore, AppendFails, Processing, Evict,
       StoreLoses, given, disk
  <2>4. ASSUME phase' \in {"sink", "failed"}, UNCHANGED <<setting, shardFiles>>
        PROVE  OnceInv'
    BY <2>1, <2>4, OnceFramed
  <2> QED
    BY <2>2, <2>3, <2>4
<1>3. CASE \E t \in Temp : Combine(t)
  BY <1>3, CombineOnce
<1>4. CASE SplitRecord \/ SplitEnds
  BY <1>4, SplitRecordOnce, SplitEndsOnce
<1>5. CASE SplitFails
  BY <1>5, OnceFramed DEF SplitFails, given, disk, splitVars
<1>6. CASE Produce
  <2>1. ASSUME NEW t \in Temp, NEW sh \in Shard, ReadBack(t, sh) \/ ReadFails(t, sh)
        PROVE  OnceInv'
    <3>1. phase = "produce" /\ phase' \in {"produce", "failed"}
      BY <2>1 DEF ReadBack, ReadFails, spoolVars
    <3>2. UNCHANGED <<setting, at, accum, shardFiles>>
      BY <2>1 DEF ReadBack, ReadFails, spoolVars, given, disk, splitVars
    <3> QED
      BY <3>1, <3>2, OnceFramed
  <2>2. ASSUME NEW t \in Temp, NEW sh \in Shard, EndOfStream(t, sh)
        PROVE  OnceInv'
    <3>1. EndFacts(t, sh)
      BY <2>2, EndGives
    <3>2. phase' # "split" /\ UNCHANGED <<setting, at, accum>>
      BY <3>1 DEF EndFacts
    <3>3. ASSUME NEW u \in Temp, NEW p \in Shard
          PROVE  shardFiles'[u][p] = shardFiles[u][p] \/ shardFiles'[u][p] = <<>>
      BY <3>1 DEF EndFacts
    <3> QED
      BY <3>2, <3>3, OnceFramed
  <2> QED
    BY <1>6, <2>1, <2>2 DEF Produce
<1> QED
  BY <1>1, <1>2, <1>3, <1>4, <1>5, <1>6 DEF Next


-----------------------------------------------------------------------------
(* Every row of a shard's share is in exactly one place.                    *)

(* The rows of a sink file that are not read yet, those of all the files,   *)
(* those that are a shard's, and the rows that were handed to it.           *)
UnreadOf(n) == RowsOf(SubSeq(sinkFiles[at][n], cursor[n] + 1, Len(sinkFiles[at][n])))
UnreadRows == FlattenSeq([j \in 1 .. Cardinality(Names) |-> UnreadOf(Nth(Names, j))])
Waiting(sh) == OfShard(UnreadRows, sh)
Moved(sh) == RowsOf(shardFiles[at][sh]) \o accum[sh].rows

(* The rows of records none of which repeats a row. *)
LEMMA RowsOnce ==
  ASSUME NEW records \in Seq(RecordType), FileOnce(records)
  PROVE  Distinct(RowsOf(records))
<1> DEFINE n == Len(records)
           ss == [k \in 1 .. n |-> records[k].rows]
<1>1. n \in Nat
  OBVIOUS
<1>2. ss \in [1 .. n -> Seq(Nat \X Nat)] /\ \A k \in 1 .. n : ss[k] = records[k].rows
  BY RecordFields
<1>3. Len(ss) = n
  BY <1>1
<1>4. RowsOf(records) = FlattenSeq(ss)
  BY DEF RowsOf
<1>5. /\ \A k \in 1 .. n : Distinct(records[k].rows)
      /\ \A k, l \in 1 .. n : k # l => Disjoint(records[k].rows, records[l].rows)
  BY DEF FileOnce
<1> HIDE DEF ss, n
<1>6. /\ \A k \in 1 .. n : Distinct(ss[k])
      /\ \A k, l \in 1 .. n : k # l => Disjoint(ss[k], ss[l])
  BY <1>2, <1>5
<1> QED
  BY <1>1, <1>2, <1>3, <1>4, <1>6, DistinctJoin

(* A record of a sink file has the rows of its batch. *)
LEMMA SinkRows ==
  ASSUME IInv, NEW n \in Names, NEW i \in 1 .. Len(sinkFiles[at][n]),
         NEW r, r = sinkFiles[at][n][i]
  PROVE  /\ Distinct(r.rows)
         /\ \A x \in ToSet(r.rows) : x[1] = r.index
         /\ \A x \in ToSet(r.rows) : \E k \in 1 .. Len(input) : x \in ToSet(Rows(k))
<1>1. at \in Temp /\ input \in Inputs
  BY DEF IInv, TypeOK
<1>2. OfInput(r)
  BY <1>1 DEF IInv, OwnRecords, ToSet
<1>3. PICK k \in 1 .. Len(input) : r = Record(k, Rows(k))
  BY <1>2 DEF OfInput
<1>4. r.index = k /\ r.rows = Rows(k)
  BY <1>3 DEF Record
<1>5. Rows(k) \in Seq(Nat \X Nat)
  BY <1>1, InputFields
<1> QED
  BY <1>1, <1>4, <1>5, RowsInOrder, InOrderDistinct

(* What is unread of a file is there once. *)
LEMMA UnreadOfProperties ==
  ASSUME IInv, SinksInv, NEW n \in Names
  PROVE  /\ UnreadOf(n) \in Seq(Nat \X Nat) /\ Distinct(UnreadOf(n))
         /\ \A x : x \in ToSet(UnreadOf(n)) <=>
              \E i \in 1 .. Len(sinkFiles[at][n]) :
                cursor[n] < i /\ x \in ToSet(sinkFiles[at][n][i].rows)
<1> DEFINE f == sinkFiles[at][n]
           c == cursor[n]
           left == SubSeq(f, c + 1, Len(f))
<1>1. at \in Temp /\ f \in Seq(RecordType) /\ c \in Nat /\ FilesApart(at)
  BY DEF IInv, TypeOK, SinksInv, SunkOnce
<1>2. \A i \in 1 .. Len(f) : Distinct(f[i].rows) /\ \A x \in ToSet(f[i].rows) : x[1] = f[i].index
  BY SinkRows
<1>3. \A i, j \in 1 .. Len(f) : f[i].index = f[j].index => i = j
  BY <1>1 DEF FilesApart
<1>4. UnreadOf(n) = RowsOf(left)
  BY DEF UnreadOf
<1> HIDE DEF f, c
<1>5. /\ left \in Seq(RecordType)
      /\ \A i \in 1 .. Len(left) : c + i \in 1 .. Len(f) /\ c < c + i /\ left[i] = f[c + i]
      /\ \A i \in 1 .. Len(f) : c < i => i - c \in 1 .. Len(left) /\ left[i - c] = f[i]
  BY <1>1, RestOf
<1> HIDE DEF left
<1>6. FileOnce(left)
  <2>1. ASSUME NEW i \in 1 .. Len(left)
        PROVE  Distinct(left[i].rows)
    BY <1>2, <1>5
  <2>2. ASSUME NEW i \in 1 .. Len(left), NEW j \in 1 .. Len(left), i # j
        PROVE  Disjoint(left[i].rows, left[j].rows)
    <3>1. c + i # c + j
      BY <1>1, <2>2
    <3>2. /\ c + i \in 1 .. Len(f) /\ c + j \in 1 .. Len(f)
          /\ left[i] = f[c + i] /\ left[j] = f[c + j]
      BY <1>5
    <3>3. f[c + i].index # f[c + j].index
      BY <1>3, <3>1, <3>2
    <3>4. /\ \A x \in ToSet(left[i].rows) : x[1] = f[c + i].index
          /\ \A x \in ToSet(left[j].rows) : x[1] = f[c + j].index
      BY <1>2, <3>2, Zenon
    <3> QED
      BY <3>3, <3>4 DEF Disjoint
  <2> QED
    BY <2>1, <2>2 DEF FileOnce
<1>7. ASSUME NEW x
      PROVE  x \in ToSet(RowsOf(left)) <=> \E i \in 1 .. Len(f) : c < i /\ x \in ToSet(f[i].rows)
  <2>1. x \in ToSet(RowsOf(left)) <=> \E k \in 1 .. Len(left) : x \in ToSet(left[k].rows)
    BY <1>5, RowsOfMembers
  <2>2. ASSUME NEW k \in 1 .. Len(left), x \in ToSet(left[k].rows)
        PROVE  \E i \in 1 .. Len(f) : c < i /\ x \in ToSet(f[i].rows)
    BY <1>5, <2>2
  <2>3. ASSUME NEW i \in 1 .. Len(f), c < i, x \in ToSet(f[i].rows)
        PROVE  \E k \in 1 .. Len(left) : x \in ToSet(left[k].rows)
    <3>1. i - c \in 1 .. Len(left) /\ left[i - c] = f[i]
      BY <1>5, <2>3
    <3> QED
      BY <2>3, <3>1
  <2> QED
    BY <2>1, <2>2, <2>3
<1> QED
  BY <1>4, <1>5, <1>6, <1>7, RowsOfMembers, RowsOnce DEF f, c

(* And of all of them. *)
LEMMA UnreadProperties ==
  ASSUME IInv, SinksInv
  PROVE  /\ UnreadRows \in Seq(Nat \X Nat) /\ Distinct(UnreadRows)
         /\ \A x : x \in ToSet(UnreadRows) <=> UnreadRow(x)
<1> DEFINE c == Cardinality(Names)
           ss == [j \in 1 .. c |-> UnreadOf(Nth(Names, j))]
<1>1. at \in Temp /\ FilesApart(at) /\ Names \in SUBSET Nat
  BY SettingFields DEF IInv, TypeOK, SinksInv, SunkOnce
<1>2. /\ c \in Nat
      /\ \A j \in 1 .. c : Nth(Names, j) \in Names
      /\ \A i, j \in 1 .. c : i < j => Nth(Names, i) < Nth(Names, j)
      /\ \A n \in Names : \E j \in 1 .. c : Nth(Names, j) = n
  BY <1>1, NamesFinite, NthProperties
<1>3. UnreadRows = FlattenSeq(ss)
  BY DEF UnreadRows
<1> HIDE DEF c
<1>4. ss \in [1 .. c -> Seq(Nat \X Nat)] /\ \A j \in 1 .. c : ss[j] = UnreadOf(Nth(Names, j))
  BY <1>2, UnreadOfProperties
<1>5. Len(ss) = c
  BY <1>2
<1> HIDE DEF ss
<1>6. \A j \in 1 .. c : Distinct(ss[j])
  BY <1>2, <1>4, UnreadOfProperties
<1>7. ASSUME NEW k \in 1 .. c, NEW l \in 1 .. c, k # l
      PROVE  Disjoint(ss[k], ss[l])
  <2> DEFINE a == Nth(Names, k)
             b == Nth(Names, l)
  <2>1. a \in Names /\ b \in Names /\ ss[k] = UnreadOf(a) /\ ss[l] = UnreadOf(b)
    BY <1>2, <1>4
  <2>2. a # b
    <3>1. a \in Nat /\ b \in Nat /\ (k < l => a < b) /\ (l < k => b < a)
      BY <1>1, <1>2
    <3>2. k < l \/ l < k
      BY <1>2, <1>7
    <3> HIDE DEF a, b
    <3> QED
      BY <3>1, <3>2
  <2> HIDE DEF a, b
  <2> SUFFICES ASSUME NEW x, x \in ToSet(UnreadOf(a)), x \in ToSet(UnreadOf(b))
               PROVE  FALSE
    BY <2>1 DEF Disjoint
  <2>3. PICK i \in 1 .. Len(sinkFiles[at][a]) : x \in ToSet(sinkFiles[at][a][i].rows)
    BY <2>1, UnreadOfProperties
  <2>4. PICK j \in 1 .. Len(sinkFiles[at][b]) : x \in ToSet(sinkFiles[at][b][j].rows)
    BY <2>1, UnreadOfProperties
  <2>5. sinkFiles[at][a][i].index = sinkFiles[at][b][j].index
    <3>1. x[1] = sinkFiles[at][a][i].index
      BY <2>1, <2>3, SinkRows
    <3>2. x[1] = sinkFiles[at][b][j].index
      BY <2>1, <2>4, SinkRows
    <3> QED
      BY <3>1, <3>2
  <2>6. \A p \in 1 .. Len(sinkFiles[at][a]), q \in 1 .. Len(sinkFiles[at][b]) :
          sinkFiles[at][a][p].index = sinkFiles[at][b][q].index => a = b /\ p = q
    BY <1>1, <2>1, Zenon DEF FilesApart
  <2> QED
    BY <2>2, <2>5, <2>6, Zenon
<1>8. Distinct(FlattenSeq(ss))
  BY <1>2, <1>4, <1>5, <1>6, <1>7, DistinctJoin
<1>9. /\ FlattenSeq(ss) \in Seq(Nat \X Nat)
      /\ \A x : x \in ToSet(FlattenSeq(ss)) <=> \E k \in 1 .. c : x \in ToSet(ss[k])
  BY <1>2, <1>4, <1>5, FlattenMembers
<1>10. ASSUME NEW x
       PROVE  (\E k \in 1 .. c : x \in ToSet(ss[k])) <=> (\E n \in Names : x \in ToSet(UnreadOf(n)))
  BY <1>2, <1>4
<1>11. ASSUME NEW x
       PROVE  (\E n \in Names : x \in ToSet(UnreadOf(n))) <=> UnreadRow(x)
  BY UnreadOfProperties DEF UnreadRow
<1> QED
  BY <1>3, <1>8, <1>9, <1>10, <1>11


(* While the query runs, a row of a shard's share waits in a sink file or   *)
(* was handed to the shard, and only one of the two.                        *)
LEMMA WaitingOrMoved ==
  ASSUME IInv, SinksInv, OnceInv, PlacesInv, Sharded, sweeps = 0, phase \in {"split", "produce"},
         NEW sh \in Producers, read[sh].state # "ended"
  PROVE  /\ Waiting(sh) \in Seq(Nat \X Nat) /\ Moved(sh) \in Seq(Nat \X Nat)
         /\ Distinct(Waiting(sh) \o Moved(sh))
         /\ ToSet(Waiting(sh) \o Moved(sh)) = Share(sh)
<1> DEFINE f == shardFiles[at][sh]
           rows == accum[sh].rows
<1>1. sh \in Shard /\ at \in Temp
  BY ShardZero DEF IInv, TypeOK
<1>2. f \in Seq(RecordType) /\ rows \in Seq(Nat \X Nat)
  BY <1>1 DEF IInv, TypeOK
<1>3. /\ FileOnce(f) /\ Distinct(rows) /\ \A r \in ToSet(f) : Disjoint(r.rows, rows)
      /\ ToSet(rows) \subseteq Share(sh) /\ \A r \in ToSet(f) : ToSet(r.rows) \subseteq Share(sh)
  BY <1>1 DEF OnceInv, ShardsOnce, ShardOnce, IInv, OwnShares
<1>4. /\ UnreadRows \in Seq(Nat \X Nat) /\ Distinct(UnreadRows)
      /\ \A x : x \in ToSet(UnreadRows) <=> UnreadRow(x)
  BY UnreadProperties
<1>5. /\ Waiting(sh) \in Seq(Nat \X Nat) /\ Distinct(Waiting(sh))
      /\ \A x : x \in ToSet(Waiting(sh)) <=> UnreadRow(x) /\ ShardOf(x) = sh
  BY <1>4, OfShardProperties, OfShardDistinct DEF Waiting
<1>6. Moved(sh) = RowsOf(f) \o rows
  BY DEF Moved
<1>7. \A x : MovedRow(sh, x) <=> x \in ToSet(rows) \/ \E r \in ToSet(f) : x \in ToSet(r.rows)
  BY DEF MovedRow
<1>8. phase = "produce" => \A x : ~UnreadRow(x)
  <2>1. phase = "produce" => \A n \in Names : sinkFiles[at][n] = <<>>
    BY DEF IInv, PhaseOK, ProducePhase
  <2>2. 1 .. Len(<<>>) = {}
    OBVIOUS
  <2> QED
    BY <2>1, <2>2 DEF UnreadRow
<1>9. ASSUME NEW x, UnreadRow(x), MovedRow(sh, x)
      PROVE  FALSE
  <2>1. phase = "split"
    BY <1>8, <1>9
  <2>2. PICK n \in Names : \E i \in 1 .. Len(sinkFiles[at][n]) :
               cursor[n] < i /\ x \in ToSet(sinkFiles[at][n][i].rows)
    BY <1>9 DEF UnreadRow
  <2>3. PICK i \in 1 .. Len(sinkFiles[at][n]) :
               cursor[n] < i /\ x \in ToSet(sinkFiles[at][n][i].rows)
    BY <2>2
  <2>4. Lacks(sh, sinkFiles[at][n][i].index)
    BY <1>1, <2>1, <2>3 DEF OnceInv, UnreadLacked
  <2>5. x[1] = sinkFiles[at][n][i].index
    BY <2>3, SinkRows
  <2> QED
    BY <1>9, <2>4, <2>5 DEF Lacks, MovedRow
<1>10. ASSUME NEW x, UnreadRow(x), ShardOf(x) = sh
       PROVE  x \in Share(sh)
  <2>1. PICK n \in Names : \E i \in 1 .. Len(sinkFiles[at][n]) : x \in ToSet(sinkFiles[at][n][i].rows)
    BY <1>10 DEF UnreadRow
  <2>2. PICK i \in 1 .. Len(sinkFiles[at][n]) : x \in ToSet(sinkFiles[at][n][i].rows)
    BY <2>1
  <2>3. \E k \in 1 .. Len(input) : x \in ToSet(Rows(k))
    BY <2>2, SinkRows
  <2> QED
    BY <1>10, <2>3 DEF Share
<1>11. ASSUME NEW x, x \in Share(sh)
       PROVE  (UnreadRow(x) /\ ShardOf(x) = sh) \/ MovedRow(sh, x)
  <2>1. ShardOf(x) = sh
    BY <1>11 DEF Share
  <2>2. UnreadRow(x) \/ HandedRow(sh, x)
    BY <1>1, <1>11 DEF PlacesInv, SplitPlaces
  <2>3. ~(sweeps > 0)
    OBVIOUS
  <2> QED
    BY <2>1, <2>2, <2>3 DEF HandedRow
<1> HIDE DEF f, rows
<1>12. /\ RowsOf(f) \in Seq(Nat \X Nat) /\ Distinct(RowsOf(f))
       /\ \A x : x \in ToSet(RowsOf(f)) <=> \E r \in ToSet(f) : x \in ToSet(r.rows)
  <2>1. /\ RowsOf(f) \in Seq(Nat \X Nat)
        /\ \A x : x \in ToSet(RowsOf(f)) <=> \E k \in 1 .. Len(f) : x \in ToSet(f[k].rows)
    BY <1>2, RowsOfMembers
  <2>2. ASSUME NEW x
        PROVE  (\E k \in 1 .. Len(f) : x \in ToSet(f[k].rows)) <=> (\E r \in ToSet(f) : x \in ToSet(r.rows))
    BY <1>2 DEF ToSet
  <2> QED
    BY <1>2, <1>3, <2>1, <2>2, RowsOnce
<1>13. /\ Moved(sh) \in Seq(Nat \X Nat) /\ Distinct(Moved(sh))
       /\ \A x : x \in ToSet(Moved(sh)) <=> MovedRow(sh, x)
  <2>1. Disjoint(RowsOf(f), rows)
    BY <1>3, <1>12 DEF Disjoint
  <2>2. Distinct(RowsOf(f) \o rows)
    BY <1>2, <1>3, <1>12, <2>1, DistinctConcat
  <2>3. /\ RowsOf(f) \o rows \in Seq(Nat \X Nat)
        /\ \A x : x \in ToSet(RowsOf(f) \o rows) <=> x \in ToSet(RowsOf(f)) \/ x \in ToSet(rows)
    BY <1>2, <1>12, ToSetConcat
  <2> QED
    BY <1>6, <1>7, <1>12, <2>2, <2>3
<1>14. Disjoint(Waiting(sh), Moved(sh))
  BY <1>5, <1>9, <1>13 DEF Disjoint
<1>15. Distinct(Waiting(sh) \o Moved(sh))
  BY <1>5, <1>13, <1>14, DistinctConcat
<1>16. \A x : x \in ToSet(Waiting(sh) \o Moved(sh)) <=> x \in ToSet(Waiting(sh)) \/ x \in ToSet(Moved(sh))
  BY <1>5, <1>13, ToSetConcat
<1>17. ASSUME NEW x, MovedRow(sh, x)
       PROVE  x \in Share(sh)
  BY <1>3, <1>7, <1>17
<1> QED
  BY <1>5, <1>10, <1>11, <1>13, <1>15, <1>16, <1>17

(* What the split promises of one shard; SplitConserves promises it of all. *)
Conserved(sh) ==
  /\ expect[sh] = Len(Moved(sh))
  /\ Len(Waiting(sh) \o Moved(sh)) = Cardinality(Share(sh))
  /\ ToSet(Waiting(sh) \o Moved(sh)) = Share(sh)

(* SplitConserves, in these words. *)
LEMMA SplitConservesMeans ==
  SplitConserves <=>
    (Sharded /\ sweeps = 0 =>
       \A sh \in Producers : read[sh].state # "ended" => Conserved(sh))
BY DEF SplitConserves, Conserved, Waiting, Moved, UnreadRows, UnreadOf

(* It is kept as long as the query has not failed. *)
LEMMA RunningConserves ==
  ASSUME IInv, SinksInv, OnceInv, SpoolInv, PlacesInv, phase # "failed"
  PROVE  SplitConserves
<1> SUFFICES ASSUME Sharded, sweeps = 0, NEW sh \in Producers, read[sh].state # "ended"
             PROVE  Conserved(sh)
  BY SplitConservesMeans
<1>1. sh \in Shard /\ at \in Temp
  BY ShardZero DEF IInv, TypeOK
<1>2. phase \in {"split", "produce"}
  <2>1. phase # "sink"
    BY DEF IInv, PhaseOK, SinkPhase
  <2>2. phase # "done"
    BY DEF IInv, PhaseOK, ProducePhase
  <2> QED
    BY <2>1, <2>2 DEF IInv, TypeOK
<1>3. /\ Waiting(sh) \in Seq(Nat \X Nat) /\ Moved(sh) \in Seq(Nat \X Nat)
      /\ Distinct(Waiting(sh) \o Moved(sh))
      /\ ToSet(Waiting(sh) \o Moved(sh)) = Share(sh)
  BY <1>2, WaitingOrMoved
<1>4. Len(Waiting(sh) \o Moved(sh)) = Cardinality(Share(sh))
  <2>1. Waiting(sh) \o Moved(sh) \in Seq(Nat \X Nat)
    BY <1>3, ToSetConcat
  <2> QED
    BY <1>3, <2>1, DistinctCount
<1>5. expect[sh] = Len(Moved(sh))
  <2> DEFINE f == shardFiles[at][sh]
             rows == accum[sh].rows
  <2>1. f \in Seq(RecordType) /\ rows \in Seq(Nat \X Nat)
    BY <1>1 DEF IInv, TypeOK
  <2>2. expect[sh] = NumRows(f) + Len(rows)
    BY <1>1 DEF SpoolInv, ExpectOK
  <2>3. Moved(sh) = RowsOf(f) \o rows
    BY DEF Moved
  <2> HIDE DEF f, rows
  <2>4. RowsOf(f) \in Seq(Nat \X Nat) /\ Len(RowsOf(f)) = NumRows(f)
    BY <2>1, RowsOfMembers, RowsOfLength
  <2>5. Len(RowsOf(f) \o rows) = Len(RowsOf(f)) + Len(rows)
    BY <2>1, <2>4, ConcatProperties
  <2> QED
    BY <2>2, <2>3, <2>4, <2>5
<1> QED
  BY <1>3, <1>4, <1>5 DEF Conserved

(* A query that fails leaves everything where it was. *)
LEMMA FailingConserves ==
  ASSUME IInv, SplitConserves, [Next]_vars, phase' = "failed"
  PROVE  SplitConserves'
<1>1. \/ UNCHANGED vars
      \/ \E s \in Stream, w \in Worker : AppendFails(s, w) /\ UNCHANGED <<splitVars, read>>
      \/ SplitFails
      \/ \E t \in Temp, sh \in Shard : ReadFails(t, sh)
  <2>1. ASSUME NEW t \in Temp, Sweep(t)
        PROVE  phase' # "failed"
    <3>1. setting.sweepPhases \subseteq {"sink", "produce"}
      BY SpoolAssumption DEF SettingType, IInv, TypeOK
    <3> QED
      BY <2>1, <3>1 DEF Sweep
  <2>2. ASSUME Sink
        PROVE  \E s \in Stream, w \in Worker : AppendFails(s, w)
    BY <2>1, <2>2 DEF Sink, Take, AppendSpool, AppendStore, Processing, Evict, StoreLoses
  <2>3. ASSUME NEW t \in Temp, NEW sh \in Shard, ReadBack(t, sh) \/ EndOfStream(t, sh)
        PROVE  FALSE
    BY <2>3 DEF ReadBack, EndOfStream, spoolVars
  <2>4. ASSUME (\E t \in Temp : Combine(t)) \/ SplitRecord \/ SplitEnds
        PROVE  FALSE
    BY <2>4 DEF Combine, SplitRecord, SplitEnds
  <2> QED
    BY <2>2, <2>3, <2>4 DEF Next, Produce
<1>2. UNCHANGED <<setting, input, sinkFiles, shardFiles, sweeps, shards, expect, at, cursor, accum, read>>
  BY <1>1 DEF vars, spoolVars, splitVars, given, disk, AppendFails, SplitFails, ReadFails
<1>3. Names' = Names /\ Sharded' = Sharded /\ Producers' = Producers /\ \A sh : Share(sh)' = Share(sh)
  BY <1>2, GivenSame
<1>4. \A rows, sh : OfShard(rows, sh)' = OfShard(rows, sh)
  BY <1>2 DEF OfShard, ShardOf, KeyOf
<1>5. \A n : UnreadOf(n)' = UnreadOf(n)
  BY <1>2 DEF UnreadOf
<1>6. UnreadRows' = UnreadRows
  BY <1>3, <1>5 DEF UnreadRows
<1>7. \A sh : Waiting(sh)' = Waiting(sh)
  BY <1>4, <1>6 DEF Waiting
<1>8. \A sh : Moved(sh)' = Moved(sh)
  BY <1>2 DEF Moved
<1>9. \A sh : Conserved(sh)' = Conserved(sh)
  BY <1>2, <1>3, <1>7, <1>8 DEF Conserved
<1>10. (Sharded /\ sweeps = 0 => \A sh \in Producers : read[sh].state # "ended" => Conserved(sh))'
  BY <1>2, <1>3, <1>9, SplitConservesMeans
<1> QED
  BY <1>10 DEF SplitConserves, Conserved, Waiting, Moved, UnreadRows, UnreadOf

(* While the split runs and until a producer ends, every row of a shard's   *)
(* share is in exactly one place, an unread sink record, the accumulator or *)
(* the shard's file, and the count handed to the producer is the number of  *)
(* rows that left the sink files (split in shard.rs): on one temp directory *)
(* and where nothing is lost unseen.                                        *)
THEOREM SplitConservesRows ==
  ASSUME OneTemp, Accountable
  PROVE  Spec => []SplitConserves
<1> DEFINE Inv == IInv /\ SpoolInv /\ PlacesInv /\ SinksInv /\ OnceInv
           Running == phase # "failed" => SplitConserves
<1>1. Init => Inv /\ phase # "failed"
  <2>1. Init => phase # "failed"
    BY DEF Init, SpoolInit
  <2> QED
    BY <2>1, InitHolds, SpoolInvInit, PlacesInit, SinksInit, OnceInit
<1>2. Inv /\ [Next]_vars => Inv'
  BY StepKeeps, SpoolStep, PlacesStep, SinksStep, OnceStep
<1>3. Inv => Running
  BY RunningConserves
<1>4. Inv /\ SplitConserves /\ Running' /\ [Next]_vars => SplitConserves'
  <2>1. CASE phase' # "failed"
    BY <2>1
  <2>2. CASE phase' = "failed"
    BY <2>2, FailingConserves
  <2> QED
    BY <2>1, <2>2
<1>5. Running /\ phase # "failed" => SplitConserves
  OBVIOUS
<1> HIDE DEF Inv, Running
<1> QED
  BY <1>1, <1>2, <1>3, <1>4, <1>5, PTL DEF Spec


-----------------------------------------------------------------------------
(* A producer holds its share of the relation.                              *)

(* No row that is not of its share. *)
NeverMore ==
  \A sh \in Producers : read[sh].state # "none" => ToSet(read[sh].rows) \subseteq Share(sh)

(* What a producer reads back is of its share. *)
LEMMA ReadsItsShare ==
  ASSUME IInv, OneTemp, phase = "produce", NEW t \in Temp, NEW sh \in Producers
  PROVE  ToSet(RowsOf(Buffered(t, sh))) \subseteq Share(sh)
<1>1. t = at /\ sh \in Shard
  <2>1. TypeOK
    BY DEF IInv
  <2> QED
    BY <2>1, ShardZero DEF OneTemp, TypeOK
<1>2. \A x : x \in ToSet(RowsOf(Buffered(t, sh)))
               <=> \E r \in ToSet(Spooled(t, sh)) \cup ToSet(store[t]) : x \in ToSet(r.rows)
  BY <1>1, CollectedTyped
<1> SUFFICES ASSUME NEW r \in ToSet(Spooled(t, sh)) \cup ToSet(store[t]), NEW x \in ToSet(r.rows)
             PROVE  x \in Share(sh)
  BY <1>2
<1>3. CASE Sharded
  <2>1. store[t] = <<>> /\ Spooled(t, sh) = shardFiles[t][sh]
    BY <1>1, <1>3 DEF Spooled, IInv, PhaseOK, ProducePhase
  <2>2. r \in ToSet(shardFiles[t][sh])
    BY <2>1, ToSetEmpty
  <2> QED
    BY <1>1, <2>2 DEF IInv, OwnShares
<1>4. CASE ~Sharded
  <2>1. Spooled(t, sh) = SinkRecords(t)
    BY <1>4 DEF Spooled
  <2>2. sinkFiles[t] \in [Names -> Seq(RecordType)] /\ Names \in SUBSET Nat
    BY <1>1, SettingFields DEF IInv, TypeOK
  <2>3. (\E n \in Names : r \in ToSet(sinkFiles[t][n])) \/ r \in ToSet(store[t])
    BY <2>1, <2>2, SinkRecordsMembers
  <2>4. OfInput(r)
    BY <2>3 DEF IInv, OwnRecords
  <2>5. PICK k \in 1 .. Len(input) : r = Record(k, Rows(k))
    BY <2>4 DEF OfInput
  <2>6. r.rows = Rows(k)
    BY <2>5 DEF Record
  <2> QED
    BY <1>4, <2>6 DEF Share
<1> QED
  BY <1>3, <1>4

(* Every step keeps it: rows come in with ReadBack only. *)
LEMMA NeverMoreStep ==
  ASSUME IInv, OneTemp, NeverMore, [Next]_vars
  PROVE  NeverMore'
<1>1. ASSUME UNCHANGED <<input, shards>>,
             \A sh \in Producers : read'[sh].rows = read[sh].rows,
             \A sh \in Producers : read'[sh].state # "none" => read[sh].state # "none"
      PROVE  NeverMore'
  <2>1. /\ Producers' = Producers
        /\ \A sh : Share(sh)' = Share(sh)
    BY <1>1 DEF Producers, Share, Rows, Sharded, ShardOf, KeyOf
  <2> QED
    BY <1>1, <2>1 DEF NeverMore
<1>2. CASE UNCHANGED <<input, shards, read>>
  BY <1>1, <1>2
<1>3. ASSUME NEW t \in Temp, Combine(t)
      PROVE  NeverMore'
  <2>1. phase = "sink" /\ UNCHANGED read
    BY <1>3 DEF Combine, Sunk
  <2>2. Producers' \subseteq Shard
    <3>1. TypeOK'
      BY <1>3, CombineKeeps DEF IInv
    <3>2. shards' \in 1 .. MaxShards
      BY <3>1 DEF TypeOK
    <3> QED
      BY <3>2, RangeKept DEF Producers, Shard
  <2> QED
    BY <2>1, <2>2 DEF NeverMore, IInv, PhaseOK, SinkPhase
<1>4. ASSUME NEW t \in Temp, NEW sh \in Shard, ReadBack(t, sh)
      PROVE  NeverMore'
  <2> DEFINE rows == RowsOf(Buffered(t, sh))
  <2>1. /\ phase = "produce" /\ sh \in Producers
        /\ read' = [read EXCEPT ![sh] = [state |-> "ok", rows |-> rows]]
        /\ UNCHANGED <<setting, input, shards>>
    BY <1>4 DEF ReadBack, spoolVars, given, splitVars
  <2>2. ToSet(rows) \subseteq Share(sh)
    BY <2>1, ReadsItsShare
  <2> HIDE DEF rows
  <2>3. /\ Producers' = Producers /\ (\A p : Share(p)' = Share(p)) /\ Producers \subseteq Shard
    BY <2>1, GivenSame, ShardZero DEF IInv
  <2>4. \A p \in Producers : read'[p] = IF p = sh THEN [state |-> "ok", rows |-> rows] ELSE read[p]
    BY <2>1, <2>3 DEF IInv, TypeOK
  <2> QED
    BY <2>2, <2>3, <2>4 DEF NeverMore
<1>5. ASSUME NEW t \in Temp, NEW sh \in Shard, EndOfStream(t, sh)
      PROVE  NeverMore'
  <2>1. EndFacts(t, sh)
    BY <1>5, EndGives
  <2>2. read[sh].state = "ok" /\ Producers \subseteq Shard
    BY <2>1, ShardZero DEF EndFacts, IInv
  <2> QED
    BY <1>1, <2>1, <2>2 DEF EndFacts
<1>6. CASE UNCHANGED vars
  BY <1>2, <1>6 DEF vars, spoolVars, given, splitVars
<1>7. CASE Sink /\ UNCHANGED <<splitVars, read>>
  <2>1. UNCHANGED input
    BY <1>7 DEF Sink, Take, AppendSpool, AppendStore, AppendFails, Evict, Sweep, StoreLoses, given
  <2> QED
    BY <1>2, <1>7, <2>1 DEF splitVars
<1>8. CASE SplitRecord \/ SplitEnds \/ SplitFails
  BY <1>2, <1>8 DEF SplitRecord, SplitEnds, SplitFails, given, splitVars
<1>9. CASE Produce
  <2>1. ASSUME NEW t \in Temp, NEW sh \in Shard, ReadFails(t, sh)
        PROVE  NeverMore'
    BY <1>2, <2>1 DEF ReadFails, given, splitVars
  <2> QED
    BY <1>4, <1>5, <1>9, <2>1 DEF Produce
<1> QED
  BY <1>3, <1>6, <1>7, <1>8, <1>9 DEF Next

(* Its share, no row more and none less, in input order. *)
HoldsItsShare ==
  \A sh \in Producers :
    read[sh].state # "none" => ToSet(read[sh].rows) = Share(sh) /\ InOrder(read[sh].rows)

(* The buffering phase is invisible (buffer.rs, spool.rs, shard.rs): on one *)
(* temp directory, where nothing is lost unseen and streams do not share    *)
(* sink files, a producer that has read its part back holds exactly the     *)
(* rows of the relation that are its own, in the order they came, as if it  *)
(* had read them from the source.                                           *)
THEOREM BufferingInvisible ==
  ASSUME OneTemp, Accountable, Orderly
  PROVE  Spec => []HoldsItsShare
<1>1. Init => IInv /\ NeverMore
  <2> SUFFICES ASSUME Init
               PROVE  NeverMore
    BY InitHolds
  <2>1. read = [sh \in Shard |-> Unread] /\ shards = 1
    BY DEF Init
  <2>2. 0 .. 0 \subseteq Shard /\ Unread.state = "none"
    BY SpoolAssumption DEF Shard, Unread
  <2> QED
    BY <2>1, <2>2 DEF NeverMore, Producers
<1>2. IInv /\ NeverMore /\ [Next]_vars => (IInv /\ NeverMore)'
  BY StepKeeps, NeverMoreStep
<1>3. NeverMore /\ NeverShort /\ InputOrderKept => HoldsItsShare
  BY DEF NeverMore, NeverShort, InputOrderKept, HoldsItsShare, InOrder
<1>4. Spec => []NeverShort
  BY NeverShortAnswer
<1>5. Spec => []InputOrderKept
  BY InputOrderIsKept
<1> QED
  BY <1>1, <1>2, <1>3, <1>4, <1>5, PTL DEF Spec
=============================================================================
