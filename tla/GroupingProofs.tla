--------------------------- MODULE GroupingProofs ---------------------------
(***************************************************************************)
(* What Grouping keeps, for every relation, every number of shards and     *)
(* every hash.                                                             *)
(*                                                                         *)
(* First the arithmetic of the counting placement, which knows nothing of  *)
(* keys: a row goes to the slot that the rows of the groups before its own *)
(* and the earlier rows of its own leave free, and these slots are a       *)
(* permutation in which every group has a segment to itself.  Then the     *)
(* invariants: of the shards, of the groups found so far, of the rows      *)
(* placed so far and of the partitions produced.  Last what the keys add:  *)
(* that equal texts, equal integers and equal keys are the same thing for  *)
(* the keys of a Plain relation, whichever path grouped them.              *)
(***************************************************************************)
EXTENDS Grouping, SequenceLemmas

-----------------------------------------------------------------------------
(* The counting placement.                                                  *)

(* Of n rows with the groups ids: how many are in a group before g, how     *)
(* many before row i are in its group, and the slot these leave it.         *)
Lower(ids_, n, g) == Cardinality({i \in 1 .. n : ids_[i] < g})
Within(ids_, k, g) == Cardinality({j \in 1 .. k : ids_[j] = g})
Slot(ids_, n, i) == Lower(ids_, n, ids_[i]) + Within(ids_, i - 1, ids_[i]) + 1

(* The order of the slots: by group, then by row. *)
BySlot(ids_, n) ==
  {x \in (1 .. n) \X (1 .. n) :
     \/ ids_[x[1]] < ids_[x[2]]
     \/ ids_[x[1]] = ids_[x[2]] /\ x[1] < x[2]}

(* A part of an interval is finite and counted by a natural number. *)
LEMMA PartCounted ==
  ASSUME NEW n \in Nat, NEW T \in SUBSET (1 .. n)
  PROVE  IsFiniteSet(T) /\ Cardinality(T) \in Nat
<1>1. IsFiniteSet(1 .. n)
  BY FS_Interval
<1>2. IsFiniteSet(T)
  BY <1>1, FS_Subset
<1> QED
  BY <1>2, FS_CardinalityType

(* A part of such a part is counted by no more. *)
LEMMA PartOfPart ==
  ASSUME NEW n \in Nat, NEW T \in SUBSET (1 .. n), NEW U \in SUBSET T
  PROVE  Cardinality(U) <= Cardinality(T)
BY PartCounted, FS_Subset

(* Two parts without a common element. *)
LEMMA PartsAddUp ==
  ASSUME NEW n \in Nat, NEW T \in SUBSET (1 .. n), NEW U \in SUBSET (1 .. n), T \cap U = {}
  PROVE  Cardinality(T \cup U) = Cardinality(T) + Cardinality(U)
<1>1. IsFiniteSet(T) /\ IsFiniteSet(U) /\ Cardinality(T) \in Nat /\ Cardinality(U) \in Nat
  BY PartCounted
<1>2. Cardinality(T \cup U) = Cardinality(T) + Cardinality(U) - Cardinality(T \cap U)
  BY <1>1, FS_Union
<1>3. Cardinality(T \cap U) = 0
  BY FS_EmptySet
<1> QED
  BY <1>1, <1>2, <1>3

(* The counts are natural numbers, and they grow with the group. *)
LEMMA LowerGrows ==
  ASSUME NEW n \in Nat, NEW m \in Nat, NEW ids_ \in [1 .. n -> 1 .. m]
  PROVE  /\ \A g \in Int : Lower(ids_, n, g) \in Nat
         /\ \A g, h \in Int : g <= h => Lower(ids_, n, g) <= Lower(ids_, n, h)
         /\ Lower(ids_, n, 1) = 0
         /\ Lower(ids_, n, m + 1) = n
         /\ \A k \in Nat, g \in Int : Within(ids_, k, g) \in Nat
<1>1. ASSUME NEW g \in Int, NEW h \in Int, g <= h
      PROVE  Lower(ids_, n, g) \in Nat /\ Lower(ids_, n, g) <= Lower(ids_, n, h)
  <2> DEFINE T == {i \in 1 .. n : ids_[i] < g}
             U == {i \in 1 .. n : ids_[i] < h}
  <2>1. U \in SUBSET (1 .. n) /\ T \in SUBSET U /\ T \in SUBSET (1 .. n)
    BY <1>1
  <2> HIDE DEF T, U
  <2>2. Cardinality(T) \in Nat
    BY <2>1, PartCounted
  <2>3. Cardinality(T) <= Cardinality(U)
    BY <2>1, PartOfPart
  <2> QED
    BY <2>2, <2>3 DEF Lower, T, U
<1>2. Lower(ids_, n, 1) = 0
  <2>1. {i \in 1 .. n : ids_[i] < 1} = {}
    OBVIOUS
  <2> QED
    BY <2>1, FS_EmptySet DEF Lower
<1>3. Lower(ids_, n, m + 1) = n
  <2>1. {i \in 1 .. n : ids_[i] < m + 1} = 1 .. n
    OBVIOUS
  <2>2. Cardinality(1 .. n) = n
    BY FS_Interval
  <2> QED
    BY <2>1, <2>2 DEF Lower
<1>4. ASSUME NEW k \in Nat, NEW g \in Int
      PROVE  Within(ids_, k, g) \in Nat
  <2> DEFINE T == {j \in 1 .. k : ids_[j] = g}
  <2>1. T \in SUBSET (1 .. k)
    OBVIOUS
  <2> QED
    BY <2>1, PartCounted DEF Within
<1>5. \A g \in Int : g <= g
  OBVIOUS
<1>6. /\ \A g \in Int : Lower(ids_, n, g) \in Nat
      /\ \A g, h \in Int : g <= h => Lower(ids_, n, g) <= Lower(ids_, n, h)
  BY <1>1, <1>5, Zenon
<1> QED
  BY <1>2, <1>3, <1>4, <1>6, Zenon

(* The rows of group g fill the slots between the counts of g and g + 1. *)
LEMMA GroupWidth ==
  ASSUME NEW n \in Nat, NEW m \in Nat, NEW ids_ \in [1 .. n -> 1 .. m],
         NEW g \in 1 .. m, NEW k \in 0 .. n
  PROVE  Lower(ids_, n, g) + Within(ids_, k, g) <= Lower(ids_, n, g + 1)
<1> DEFINE T == {i \in 1 .. n : ids_[i] < g}
           U == {j \in 1 .. k : ids_[j] = g}
           V == {i \in 1 .. n : ids_[i] < g + 1}
<1>1. T \in SUBSET (1 .. n) /\ U \in SUBSET (1 .. n) /\ V \in SUBSET (1 .. n)
  OBVIOUS
<1>2. T \cap U = {} /\ T \cup U \in SUBSET V
  OBVIOUS
<1> HIDE DEF T, U, V
<1>3. Cardinality(T \cup U) = Cardinality(T) + Cardinality(U)
  BY <1>1, <1>2, PartsAddUp
<1>4. Cardinality(T \cup U) <= Cardinality(V)
  BY <1>1, <1>2, PartOfPart
<1> QED
  BY <1>3, <1>4 DEF T, U, V, Lower, Within

(* A row more in its group. *)
LEMMA OneMoreWithin ==
  ASSUME NEW n \in Nat, NEW m \in Nat, NEW ids_ \in [1 .. n -> 1 .. m],
         NEW k \in 1 .. n, NEW g \in 1 .. m
  PROVE  Within(ids_, k, g) = Within(ids_, k - 1, g) + (IF ids_[k] = g THEN 1 ELSE 0)
<1> DEFINE T == {j \in 1 .. (k - 1) : ids_[j] = g}
           U == {j \in 1 .. k : ids_[j] = g}
<1>1. T \in SUBSET (1 .. (k - 1)) /\ k \notin T
  OBVIOUS
<1>2. U = IF ids_[k] = g THEN T \cup {k} ELSE T
  OBVIOUS
<1> HIDE DEF T, U
<1>3. IsFiniteSet(T) /\ Cardinality(T) \in Nat
  <2>1. k - 1 \in Nat
    OBVIOUS
  <2> QED
    BY <1>1, <2>1, PartCounted
<1>4. Cardinality(T \cup {k}) = Cardinality(T) + 1
  BY <1>1, <1>3, FS_AddElement
<1>5. Cardinality(U) = Cardinality(T) + (IF ids_[k] = g THEN 1 ELSE 0)
  BY <1>2, <1>3, <1>4
<1> QED
  BY <1>5 DEF T, U, Within

(* The slot of a row is one more than the number of rows before it. *)
LEMMA SlotCounts ==
  ASSUME NEW n \in Nat, NEW m \in Nat, NEW ids_ \in [1 .. n -> 1 .. m], NEW i \in 1 .. n
  PROVE  /\ Preceding(BySlot(ids_, n), 1 .. n, i) \in Nat
         /\ Slot(ids_, n, i) = Preceding(BySlot(ids_, n), 1 .. n, i) + 1
<1> DEFINE T == {j \in 1 .. n : ids_[j] < ids_[i]}
           U == {j \in 1 .. (i - 1) : ids_[j] = ids_[i]}
           V == {j \in 1 .. n : <<j, i>> \in BySlot(ids_, n)}
<1>1. T \in SUBSET (1 .. n) /\ U \in SUBSET (1 .. n) /\ V \in SUBSET (1 .. n)
  OBVIOUS
<1>2. T \cap U = {}
  OBVIOUS
<1>3. V = T \cup U
  BY DEF BySlot
<1> HIDE DEF T, U, V
<1>4. Cardinality(V) = Cardinality(T) + Cardinality(U)
  BY <1>1, <1>2, <1>3, PartsAddUp
<1>5. Cardinality(V) \in Nat
  BY <1>1, PartCounted
<1> QED
  BY <1>4, <1>5 DEF T, U, V, Preceding, Slot, Lower, Within

(* The slots are 1 .. n, each of one row, and in the order of BySlot. *)
SlotsFill(ids_, n) ==
  /\ \A i \in 1 .. n : Slot(ids_, n, i) \in 1 .. n
  /\ \A i, j \in 1 .. n : <<i, j>> \in BySlot(ids_, n) => Slot(ids_, n, i) < Slot(ids_, n, j)
  /\ \A p \in 1 .. n : \E i \in 1 .. n : Slot(ids_, n, i) = p

LEMMA SlotsAreAPermutation ==
  ASSUME NEW n \in Nat, NEW m \in Nat, NEW ids_ \in [1 .. n -> 1 .. m]
  PROVE  SlotsFill(ids_, n)
<1> DEFINE R == BySlot(ids_, n)
           S == 1 .. n
<1>1. IsFiniteSet(S) /\ Cardinality(S) = n
  BY FS_Interval
<1>2. Orders(R, S)
  <2>1. \A a \in S : ids_[a] \in Int
    OBVIOUS
  <2> QED
    BY <2>1 DEF Orders, BySlot
<1>3. FillsPlaces(R, S)
  <2> HIDE DEF R, S
  <2> QED
    BY <1>1, <1>2, PlacesInOrder
<1>4. \A i \in S : Slot(ids_, n, i) = Preceding(R, S, i) + 1 /\ Preceding(R, S, i) \in Nat
  BY SlotCounts
<1> HIDE DEF R
<1>5. /\ \A i \in S : Preceding(R, S, i) \in 0 .. n - 1
      /\ \A a, b \in S : <<a, b>> \in R => Preceding(R, S, a) < Preceding(R, S, b)
      /\ \A k \in 0 .. n - 1 : \E i \in S : Preceding(R, S, i) = k
  BY <1>1, <1>3 DEF FillsPlaces
<1>6. ASSUME NEW p \in S
      PROVE  \E i \in S : Slot(ids_, n, i) = p
  <2>1. PICK i \in S : Preceding(R, S, i) = p - 1
    BY <1>5
  <2> QED
    BY <1>4, <2>1
<1>7. ASSUME NEW a \in S, NEW b \in S, <<a, b>> \in R
      PROVE  Slot(ids_, n, a) < Slot(ids_, n, b)
  BY <1>4, <1>5, <1>7
<1>8. \A i \in S : Slot(ids_, n, i) \in S
  BY <1>4, <1>5
<1> HIDE DEF S
<1> QED
  BY <1>6, <1>7, <1>8 DEF SlotsFill, R, S

(* The slots of group g are those of its segment. *)
SegmentsFill(ids_, n, m) ==
  /\ \A i \in 1 .. n : /\ Lower(ids_, n, ids_[i]) < Slot(ids_, n, i)
                       /\ Slot(ids_, n, i) <= Lower(ids_, n, ids_[i] + 1)
  /\ \A g \in 1 .. m : \A p \in (Lower(ids_, n, g) + 1) .. Lower(ids_, n, g + 1) :
       \E i \in 1 .. n : ids_[i] = g /\ Slot(ids_, n, i) = p

LEMMA SegmentOfGroup ==
  ASSUME NEW n \in Nat, NEW m \in Nat, NEW ids_ \in [1 .. n -> 1 .. m]
  PROVE  SegmentsFill(ids_, n, m)
<1>1. ASSUME NEW i \in 1 .. n
      PROVE  /\ Lower(ids_, n, ids_[i]) < Slot(ids_, n, i)
             /\ Slot(ids_, n, i) <= Lower(ids_, n, ids_[i] + 1)
  <2>0. ids_[i] \in 1 .. m /\ ids_[i] \in Int /\ ids_[i] + 1 \in Int /\ i - 1 \in Nat /\ i \in Nat
        /\ i \in 0 .. n
    OBVIOUS
  <2>1. /\ Lower(ids_, n, ids_[i]) \in Nat /\ Lower(ids_, n, ids_[i] + 1) \in Nat
        /\ Within(ids_, i - 1, ids_[i]) \in Nat /\ Within(ids_, i, ids_[i]) \in Nat
    BY <2>0, LowerGrows
  <2>2. Within(ids_, i, ids_[i]) = Within(ids_, i - 1, ids_[i]) + 1
    BY <2>0, OneMoreWithin
  <2>3. Lower(ids_, n, ids_[i]) + Within(ids_, i, ids_[i]) <= Lower(ids_, n, ids_[i] + 1)
    BY <2>0, GroupWidth
  <2> QED
    BY <2>1, <2>2, <2>3 DEF Slot
<1>2. ASSUME NEW g \in 1 .. m, NEW p \in (Lower(ids_, n, g) + 1) .. Lower(ids_, n, g + 1)
      PROVE  \E i \in 1 .. n : ids_[i] = g /\ Slot(ids_, n, i) = p
  <2>1. /\ \A h \in Int : Lower(ids_, n, h) \in Nat
        /\ \A h, k \in Int : h <= k => Lower(ids_, n, h) <= Lower(ids_, n, k)
        /\ Lower(ids_, n, m + 1) = n
    BY LowerGrows
  <2>2. Lower(ids_, n, g + 1) <= n
    BY <2>1
  <2>3. p \in 1 .. n
    BY <2>1, <2>2
  <2>4. PICK i \in 1 .. n : Slot(ids_, n, i) = p
    BY <2>3, SlotsAreAPermutation DEF SlotsFill
  <2> DEFINE h == ids_[i]
  <2>6. h \in 1 .. m
    OBVIOUS
  <2>7. /\ Lower(ids_, n, h) < p /\ p <= Lower(ids_, n, h + 1)
        /\ Lower(ids_, n, g) + 1 <= p /\ p <= Lower(ids_, n, g + 1)
    BY <1>1, <1>2, <2>4
  <2> HIDE DEF h
  <2>8. /\ Lower(ids_, n, h) \in Nat /\ Lower(ids_, n, h + 1) \in Nat
        /\ Lower(ids_, n, g) \in Nat /\ Lower(ids_, n, g + 1) \in Nat
    <3>1. h \in Int /\ h + 1 \in Int /\ g \in Int /\ g + 1 \in Int
      BY <2>6
    <3> QED
      BY <2>1, <3>1, Zenon
  <2>5. h = g
    <3>1. CASE h < g
      <4>1. Lower(ids_, n, h + 1) <= Lower(ids_, n, g)
        BY <2>1, <2>6, <3>1
      <4> QED
        BY <2>7, <2>8, <4>1
    <3>2. CASE h > g
      <4>1. Lower(ids_, n, g + 1) <= Lower(ids_, n, h)
        BY <2>1, <2>6, <3>2
      <4> QED
        BY <2>7, <2>8, <4>1
    <3> QED
      BY <2>6, <3>1, <3>2
  <2> QED
    BY <2>4, <2>5 DEF h
<1> QED
  BY <1>1, <1>2 DEF SegmentsFill

-----------------------------------------------------------------------------
(* Joining a group, and reading one off the placed rows.                    *)

(* Of n rows, each of m groups has one, and groups are numbered as they     *)
(* appear.                                                                  *)
Groups(ids_, n, m) ==
  /\ \A i \in 1 .. n : ids_[i] \in 1 .. m
  /\ \A g \in 1 .. m : \E i \in 1 .. n : ids_[i] = g
  /\ \A j \in 1 .. n : \A g \in 1 .. m :
       g < ids_[j] => \E i \in 1 .. n : i < j /\ ids_[i] = g

(* One row more, of one of these groups or of the next. *)
Extends(idsN, ids_, n, k) == (\A i \in 1 .. n : idsN[i] = ids_[i]) /\ idsN[n + 1] = k
Joins(k, m, more) == (k \in 1 .. m /\ more = m) \/ (k = m + 1 /\ more = m + 1)

LEMMA GroupsGrow ==
  ASSUME NEW n \in Nat, NEW m \in Nat, NEW ids_, Groups(ids_, n, m),
         NEW k, NEW more, Joins(k, m, more),
         NEW idsN, Extends(idsN, ids_, n, k)
  PROVE  Groups(idsN, n + 1, more)
<1>0. /\ (k \in 1 .. m /\ more = m) \/ (k = m + 1 /\ more = m + 1)
      /\ (\A i \in 1 .. n : idsN[i] = ids_[i]) /\ idsN[n + 1] = k
  BY DEF Joins, Extends
<1>1. more \in Nat /\ 1 .. n \subseteq 1 .. (n + 1) /\ n + 1 \in 1 .. (n + 1) /\ 1 .. m \subseteq 1 .. more
      /\ k \in 1 .. more
  BY <1>0
<1>2. ASSUME NEW g \in 1 .. m
      PROVE  \E i \in 1 .. n : idsN[i] = g
  BY <1>0 DEF Groups
<1>3. \A j \in 1 .. (n + 1) : j \in 1 .. n \/ j = n + 1
  OBVIOUS
<1>4. \A i \in 1 .. n : idsN[i] \in 1 .. m
  BY <1>0 DEF Groups
<1>5. ASSUME NEW g \in 1 .. more
      PROVE  \E i \in 1 .. (n + 1) : idsN[i] = g
  <2>1. g \in 1 .. m \/ g = k
    BY <1>0
  <2> QED
    BY <1>0, <1>1, <1>2, <2>1
<1>6. ASSUME NEW j \in 1 .. (n + 1), NEW g \in 1 .. more, g < idsN[j]
      PROVE  \E i \in 1 .. (n + 1) : i < j /\ idsN[i] = g
  <2>1. CASE j \in 1 .. n
    <3>1. g \in 1 .. m
      BY <1>4, <1>6, <2>1
    <3>2. g < ids_[j]
      BY <1>0, <1>6, <2>1
    <3>3. PICK i \in 1 .. n : i < j /\ ids_[i] = g
      BY <2>1, <3>1, <3>2 DEF Groups
    <3> QED
      BY <1>0, <1>1, <3>3
  <2>2. CASE j = n + 1
    <3>1. g \in 1 .. m
      BY <1>0, <1>6, <2>2
    <3>2. PICK i \in 1 .. n : idsN[i] = g
      BY <1>2, <3>1
    <3> QED
      BY <1>1, <2>2, <3>2
  <2> QED
    BY <1>3, <2>1, <2>2
<1>7. \A j \in 1 .. (n + 1) : idsN[j] \in 1 .. more
  BY <1>0, <1>1, <1>3, <1>4
<1> QED
  BY <1>5, <1>6, <1>7 DEF Groups

(* The groups of n rows, with the key of each group. *)
Known(S, seen_, ids_, n) ==
  /\ seen_ \in Seq(S) /\ Distinct(seen_)
  /\ ids_ \in Seq(Nat) /\ Len(ids_) = n
  /\ Groups(ids_, n, Len(seen_))

(* What Assign does to them for a row of this key. *)
Joined(seenN, idsN, seen_, ids_, key) ==
  LET found == {g \in DOMAIN seen_ : seen_[g] = key}
  IN /\ seenN = IF found = {} THEN Append(seen_, key) ELSE seen_
     /\ idsN = Append(ids_, IF found = {} THEN Len(seen_) + 1 ELSE Min(found))

(* What has become of them. *)
Grown(S, seenN, idsN, seen_, ids_, n, key) ==
  /\ Known(S, seenN, idsN, n + 1)
  /\ \A i \in 1 .. n : idsN[i] = ids_[i] /\ seenN[idsN[i]] = seen_[ids_[i]]
  /\ seenN[idsN[n + 1]] = key

(* The row joins the group of its key or founds one. *)
LEMMA JoinsGroup ==
  ASSUME NEW S, NEW seen_, NEW n \in Nat, NEW ids_, NEW key \in S, Known(S, seen_, ids_, n),
         NEW seenN, NEW idsN, Joined(seenN, idsN, seen_, ids_, key)
  PROVE  Grown(S, seenN, idsN, seen_, ids_, n, key)
<1> DEFINE m == Len(seen_)
           found == {g \in DOMAIN seen_ : seen_[g] = key}
<1>a. /\ seen_ \in Seq(S) /\ Distinct(seen_)
      /\ ids_ \in Seq(Nat) /\ Len(ids_) = n
      /\ Groups(ids_, n, Len(seen_))
  BY DEF Known
<1>b. /\ seenN = IF found = {} THEN Append(seen_, key) ELSE seen_
      /\ idsN = Append(ids_, IF found = {} THEN m + 1 ELSE Min(found))
      /\ found = {g \in DOMAIN seen_ : seen_[g] = key}
  BY DEF Joined
<1> HIDE DEF found
<1> USE <1>a, <1>b
<1> SUFFICES /\ seenN \in Seq(S) /\ idsN \in Seq(Nat) /\ Len(idsN) = n + 1
             /\ Distinct(seenN) /\ Groups(idsN, n + 1, Len(seenN))
             /\ \A i \in 1 .. n : idsN[i] = ids_[i] /\ seenN[idsN[i]] = seen_[ids_[i]]
             /\ seenN[idsN[n + 1]] = key
  BY DEF Known, Grown
<1>1. m \in Nat /\ DOMAIN seen_ = 1 .. m
  BY LenProperties
<1>2. /\ \A i \in 1 .. n : ids_[i] \in 1 .. m
      /\ \A g \in 1 .. m : seen_[g] \in S
  BY ElementOfSeq DEF Groups
<1>3. CASE found = {}
  <2>1. /\ seenN \in Seq(S) /\ Len(seenN) = m + 1
        /\ \A g \in 1 .. m : seenN[g] = seen_[g]
        /\ seenN[m + 1] = key
    <3>1. seenN = Append(seen_, key)
      BY <1>3
    <3> QED
      BY <1>1, <3>1
  <2>2. /\ idsN \in Seq(Nat) /\ Len(idsN) = n + 1
        /\ \A i \in 1 .. n : idsN[i] = ids_[i]
        /\ idsN[n + 1] = m + 1
    <3>1. idsN = Append(ids_, m + 1) /\ m + 1 \in Nat
      BY <1>1, <1>3
    <3> HIDE DEF m
    <3> QED
      BY <1>1, <3>1
  <2>3. \A g \in 1 .. m : seen_[g] # key
    BY <1>1, <1>3
  <2> HIDE DEF m
  <2>4. Distinct(seenN)
    <3>1. \A i, j \in 1 .. m : seen_[i] = seen_[j] => i = j
      BY DEF Distinct, m
    <3> SUFFICES ASSUME NEW i \in 1 .. (m + 1), NEW j \in 1 .. (m + 1), seenN[i] = seenN[j]
                 PROVE  i = j
      BY <2>1 DEF Distinct
    <3>2. CASE i \in 1 .. m /\ j \in 1 .. m
      BY <2>1, <3>1, <3>2
    <3>3. CASE i = m + 1 \/ j = m + 1
      BY <1>1, <2>1, <2>3, <3>3
    <3> QED
      BY <1>1, <3>2, <3>3
  <2>5. Groups(idsN, n + 1, m + 1)
    <3>1. Groups(ids_, n, m)
      BY DEF m
    <3>2. Joins(m + 1, m, m + 1) /\ Extends(idsN, ids_, n, m + 1)
      BY <2>2 DEF Joins, Extends
    <3> QED
      BY <1>1, <3>1, <3>2, GroupsGrow
  <2>6. \A i \in 1 .. n : seenN[idsN[i]] = seen_[ids_[i]]
    BY <1>2, <2>1, <2>2
  <2> QED
    BY <2>1, <2>2, <2>4, <2>5, <2>6 DEF m
<1>4. CASE found # {}
  <2>1. seenN = seen_ /\ idsN = Append(ids_, Min(found))
    BY <1>4
  <2>2. Min(found) \in found
    <3>1. found \in SUBSET Nat
      BY <1>1
    <3> QED
      BY <1>4, <3>1, MinOfSet
  <2>3. Min(found) \in 1 .. m /\ seen_[Min(found)] = key
    BY <1>1, <2>2
  <2> DEFINE f == Min(found)
  <2> HIDE DEF f
  <2>4. f \in 1 .. m /\ seen_[f] = key /\ f \in Nat
    BY <2>3 DEF f
  <2>5. /\ idsN \in Seq(Nat) /\ Len(idsN) = n + 1
        /\ \A i \in 1 .. n : idsN[i] = ids_[i]
        /\ idsN[n + 1] = f
    BY <2>1, <2>4 DEF f
  <2> HIDE DEF m
  <2>6. Groups(idsN, n + 1, m)
    <3>1. Groups(ids_, n, m)
      BY DEF m
    <3>2. Joins(f, m, m) /\ Extends(idsN, ids_, n, f)
      BY <2>4, <2>5 DEF Joins, Extends
    <3> QED
      BY <1>1, <3>1, <3>2, GroupsGrow
  <2> QED
    BY <1>2, <2>1, <2>4, <2>5, <2>6 DEF m
<1> QED
  BY <1>3, <1>4

(* The elements of a sequence rise. *)
Ascends(s) == \A i, j \in 1 .. Len(s) : i < j => s[i] < s[j]

(* What the segment of group g holds, when each row of a shard stands at its slot: *)
(* the rows of the group and no other, rising, the first of them first.            *)
HoldsGroup(part_, shard, ids_, g) ==
  /\ part_ # <<>> /\ Ascends(part_)
  /\ \A x : x \in ToSet(part_) <=> \E i \in 1 .. Len(shard) : ids_[i] = g /\ shard[i] = x
  /\ \E i \in 1 .. Len(shard) :
       /\ ids_[i] = g /\ part_[1] = shard[i]
       /\ \A j \in 1 .. Len(shard) : ids_[j] = g => i <= j

(* What SubSeq cuts out of a function. *)
LEMMA Segment ==
  ASSUME NEW S, NEW rows_, NEW lo \in Nat, NEW hi \in Nat, lo <= hi,
         \A p \in (lo + 1) .. hi : rows_[p] \in S
  PROVE  /\ SubSeq(rows_, lo + 1, hi) \in Seq(S) /\ Len(SubSeq(rows_, lo + 1, hi)) = hi - lo
         /\ \A k \in 1 .. (hi - lo) : SubSeq(rows_, lo + 1, hi)[k] = rows_[lo + k]
<1>1. lo + 1 \in Int /\ hi \in Int
  OBVIOUS
<1>2. /\ SubSeq(rows_, lo + 1, hi) \in Seq(S)
      /\ Len(SubSeq(rows_, lo + 1, hi)) = IF lo + 1 <= hi THEN hi - (lo + 1) + 1 ELSE 0
      /\ \A k \in 1 .. hi - (lo + 1) + 1 : SubSeq(rows_, lo + 1, hi)[k] = rows_[lo + 1 + k - 1]
  BY <1>1, SubSeqProperties
<1>3. hi - (lo + 1) + 1 = hi - lo /\ (IF lo + 1 <= hi THEN hi - (lo + 1) + 1 ELSE 0) = hi - lo
  OBVIOUS
<1>4. \A k \in 1 .. hi - lo : lo + 1 + k - 1 = lo + k
  OBVIOUS
<1> QED
  BY <1>2, <1>3, <1>4

(* A group whose rows stand at the slots lo + 1 .. hi, in their order. *)
Stands(ids_, at, n, g, lo, hi) ==
  /\ \A i \in 1 .. n : ids_[i] = g => at[i] \in (lo + 1) .. hi
  /\ \A p \in (lo + 1) .. hi : \E i \in 1 .. n : ids_[i] = g /\ at[i] = p
  /\ \A i, j \in 1 .. n : ids_[i] = g /\ ids_[j] = g /\ i < j => at[i] < at[j]

LEMMA GroupStands ==
  ASSUME NEW n \in Nat, NEW m \in Nat, NEW ids_ \in [1 .. n -> 1 .. m], NEW g \in 1 .. m,
         NEW lo \in Nat, lo = Lower(ids_, n, g), NEW hi \in Nat, hi = Lower(ids_, n, g + 1)
  PROVE  /\ Stands(ids_, [i \in 1 .. n |-> Slot(ids_, n, i)], n, g, lo, hi)
         /\ lo <= hi
<1> DEFINE at == [i \in 1 .. n |-> Slot(ids_, n, i)]
<1>1. lo <= hi
  <2>1. g \in Int /\ g + 1 \in Int /\ g <= g + 1
    OBVIOUS
  <2> QED
    BY <2>1, LowerGrows, Zenon
<1>2. /\ \A i \in 1 .. n : at[i] \in 1 .. n
      /\ \A i, j \in 1 .. n : <<i, j>> \in BySlot(ids_, n) => at[i] < at[j]
  <2>1. SlotsFill(ids_, n)
    BY SlotsAreAPermutation
  <2> QED
    BY <2>1 DEF SlotsFill
<1>3. /\ \A i \in 1 .. n : Lower(ids_, n, ids_[i]) < at[i] /\ at[i] <= Lower(ids_, n, ids_[i] + 1)
      /\ \A p \in (lo + 1) .. hi : \E i \in 1 .. n : ids_[i] = g /\ at[i] = p
  <2>1. SegmentsFill(ids_, n, m)
    BY SegmentOfGroup
  <2>2. \A i \in 1 .. n : /\ Lower(ids_, n, ids_[i]) < Slot(ids_, n, i)
                          /\ Slot(ids_, n, i) <= Lower(ids_, n, ids_[i] + 1)
    BY <2>1 DEF SegmentsFill
  <2>3. \A p \in (lo + 1) .. hi : \E i \in 1 .. n : ids_[i] = g /\ Slot(ids_, n, i) = p
    BY <2>1 DEF SegmentsFill
  <2> QED
    BY <2>2, <2>3
<1> HIDE DEF at
<1>4. ASSUME NEW i \in 1 .. n, ids_[i] = g
      PROVE  at[i] \in (lo + 1) .. hi
  <2>1. lo < at[i] /\ at[i] <= hi /\ at[i] \in 1 .. n
    BY <1>2, <1>3, <1>4
  <2> QED
    BY <2>1
<1>5. ASSUME NEW i \in 1 .. n, NEW j \in 1 .. n, ids_[i] = g, ids_[j] = g, i < j
      PROVE  at[i] < at[j]
  <2>1. <<i, j>> \in BySlot(ids_, n)
    BY <1>5 DEF BySlot
  <2> QED
    BY <1>2, <2>1
<1>6. Stands(ids_, at, n, g, lo, hi)
  BY <1>3, <1>4, <1>5 DEF Stands
<1> QED
  BY <1>1, <1>6 DEF at

(* Read off the rows, such a group is what a partition is to hold. *)
ReadAt(part_, width, shard, at, n, lo) ==
  /\ \A i, j \in 1 .. n : i < j => shard[i] < shard[j]
  /\ \A k \in 1 .. width : \A i \in 1 .. n : at[i] = lo + k => part_[k] = shard[i]

IsRead(part_, width, shard, ids_, n, g) ==
  /\ 1 \in 1 .. width
  /\ \A k, l \in 1 .. width : k < l => part_[k] < part_[l]
  /\ \A k \in 1 .. width : \E i \in 1 .. n : ids_[i] = g /\ shard[i] = part_[k]
  /\ \A i \in 1 .. n : ids_[i] = g => \E k \in 1 .. width : part_[k] = shard[i]
  /\ \E i \in 1 .. n : /\ ids_[i] = g /\ part_[1] = shard[i]
                       /\ \A j \in 1 .. n : ids_[j] = g => i <= j

LEMMA GroupRead ==
  ASSUME NEW n \in Nat, NEW ids_, NEW g, NEW at, NEW lo \in Nat, NEW hi \in Nat, lo <= hi,
         Stands(ids_, at, n, g, lo, hi), NEW shard \in [1 .. n -> Nat], NEW part_,
         NEW width \in Nat, width = hi - lo,
         ReadAt(part_, width, shard, at, n, lo),
         NEW i0 \in 1 .. n, ids_[i0] = g
  PROVE  IsRead(part_, width, shard, ids_, n, g)
<1>0. /\ \A i, j \in 1 .. n : i < j => shard[i] < shard[j]
      /\ \A k \in 1 .. width : \A i \in 1 .. n : at[i] = lo + k => part_[k] = shard[i]
  BY DEF ReadAt
<1>1. ASSUME NEW k \in 1 .. width
      PROVE  \E i \in 1 .. n : ids_[i] = g /\ at[i] = lo + k /\ part_[k] = shard[i]
  <2>1. lo + k \in (lo + 1) .. hi
    OBVIOUS
  <2> QED
    BY <1>0, <2>1 DEF Stands
<1>2. ASSUME NEW i \in 1 .. n, ids_[i] = g
      PROVE  \E k \in 1 .. width : at[i] = lo + k /\ part_[k] = shard[i]
  <2>1. at[i] \in (lo + 1) .. hi
    BY <1>2 DEF Stands
  <2>2. ASSUME NEW p \in (lo + 1) .. hi
        PROVE  p - lo \in 1 .. width /\ lo + (p - lo) = p
    OBVIOUS
  <2>3. at[i] - lo \in 1 .. width /\ lo + (at[i] - lo) = at[i]
    BY <2>1, <2>2
  <2> QED
    BY <1>0, <2>3
<1>3. ASSUME NEW i \in 1 .. n, NEW j \in 1 .. n, ids_[i] = g, ids_[j] = g, at[i] <= at[j]
      PROVE  i <= j
  <2>1. at[i] \in (lo + 1) .. hi /\ at[j] \in (lo + 1) .. hi /\ (j < i => at[j] < at[i])
    BY <1>3 DEF Stands
  <2>2. \A p, q \in (lo + 1) .. hi : p <= q => ~(q < p)
    OBVIOUS
  <2>3. ~(j < i)
    BY <1>3, <2>1, <2>2
  <2> QED
    BY <2>3
<1>4. 1 \in 1 .. width
  <2>1. PICK k \in 1 .. width : at[i0] = lo + k
    BY <1>2
  <2>2. 1 <= k /\ k <= width
    OBVIOUS
  <2> QED
    BY <2>2
<1>5. ASSUME NEW k \in 1 .. width, NEW l \in 1 .. width, k < l
      PROVE  part_[k] < part_[l]
  <2>1. PICK i \in 1 .. n : ids_[i] = g /\ at[i] = lo + k /\ part_[k] = shard[i]
    BY <1>1
  <2>2. PICK j \in 1 .. n : ids_[j] = g /\ at[j] = lo + l /\ part_[l] = shard[j]
    BY <1>1
  <2>3. lo + k <= lo + l /\ lo + k # lo + l
    BY <1>5
  <2>4. i <= j
    BY <1>3, <2>1, <2>2, <2>3
  <2>5. i # j
    BY <2>1, <2>2, <2>3
  <2>6. i < j
    BY <2>4, <2>5
  <2> QED
    BY <1>0, <2>1, <2>2, <2>6
<1>6. \E i \in 1 .. n : /\ ids_[i] = g /\ part_[1] = shard[i]
                        /\ \A j \in 1 .. n : ids_[j] = g => i <= j
  <2>1. PICK i \in 1 .. n : ids_[i] = g /\ at[i] = lo + 1 /\ part_[1] = shard[i]
    BY <1>1, <1>4
  <2>2. ASSUME NEW j \in 1 .. n, ids_[j] = g
        PROVE  i <= j
    <3>1. at[j] \in (lo + 1) .. hi
      BY <2>2 DEF Stands
    <3>2. at[i] <= at[j]
      BY <2>1, <3>1
    <3> QED
      BY <1>3, <2>1, <2>2, <3>2
  <2> QED
    BY <2>1, <2>2
<1>7. \A k \in 1 .. width : \E i \in 1 .. n : ids_[i] = g /\ shard[i] = part_[k]
  BY <1>1
<1>8. \A i \in 1 .. n : ids_[i] = g => \E k \in 1 .. width : part_[k] = shard[i]
  BY <1>2
<1> QED
  BY <1>4, <1>5, <1>6, <1>7, <1>8 DEF IsRead

-----------------------------------------------------------------------------
(* The invariants.                                                          *)

Home(i) == given.hash[given.rows[i]]
Grouping_ == {"ints", "keys", "place"}

(* The relation, and where the run of the shards stands. *)
GivenOK ==
  /\ given.tys \in Seq(ToSet(given.tys)) /\ given.rows \in Seq(ToSet(given.rows))
  /\ Len(shards) \in Nat \ {0} /\ shards \in Seq(Seq(AllRows))
  /\ given.hash \in [ToSet(given.rows) -> 1 .. Len(shards)]
  /\ given.tys = <<>> => Len(shards) = 1

ProgressOK ==
  /\ pc \in {"split", "open", "single"} \cup Grouping_
  /\ sh \in 1 .. (Len(shards) + 1) /\ r \in Nat \ {0}
  /\ pc = "split" => sh = 1 /\ r <= Len(given.rows) + 1
  /\ pc \in {"single"} \cup Grouping_ => sh <= Len(shards)
  /\ pc \in Grouping_ => r <= Len(Shard) + 1
  /\ pc = "single" => given.tys = <<>>
  /\ pc \in Grouping_ => given.tys # <<>>
  /\ pc \notin Grouping_ => seen = <<>> /\ ids = <<>>
  /\ pc \in {"open", "single"} => r = 1

(* Each shard has, in order, the rows so far whose key hashes to it. *)
ShardsOK ==
  \A s \in 1 .. Len(shards) :
    /\ Ascends(shards[s])
    /\ \A i \in AllRows : i \in ToSet(shards[s]) <=> Home(i) = s /\ (pc = "split" => i < r)

(* A row that may be grouped by its integer, and the keys rows may be grouped by. *)
IntRow(i) ==
  Len(given.tys) = 1 /\ given.tys[1].k \in IntegerFamily /\ Uniform(Key(i)[1], given.tys[1])

KeyRange ==
  {Raw(Key(i)[1]) : i \in {k \in DOMAIN Shard : IntRow(k)}} \cup {KeyText(Key(i)) : i \in DOMAIN Shard}

GroupsOK ==
  pc \in Grouping_ => Known(KeyRange, seen, ids, IF pc = "place" THEN Len(Shard) ELSE r - 1)

(* The first n rows are grouped by their integers, or by their texts. *)
ByInts(n) == \A i \in 1 .. n : IntRow(i) /\ seen[ids[i]] = Raw(Key(i)[1])
ByTexts(n) == \A i \in 1 .. n : seen[ids[i]] = KeyText(Key(i))

PathOK ==
  /\ pc = "ints" => Len(given.tys) = 1 /\ given.tys[1].k \in IntegerFamily /\ ByInts(r - 1)
  /\ pc = "keys" => ByTexts(r - 1)
  /\ pc = "place" => ByInts(Len(Shard)) \/ ByTexts(Len(Shard))

(* The rows placed stand at their slots, and each cursor counts those of its group. *)
PlacesOK ==
  pc = "place" =>
    /\ bounds = [g \in 1 .. (Len(seen) + 1) |-> Lower(ids, Len(Shard), g)]
    /\ cursor = [g \in 1 .. Len(seen) |-> Lower(ids, Len(Shard), g) + Within(ids, r - 1, g)]
    /\ rows \in [1 .. Len(Shard) -> Nat]
    /\ \A i \in 1 .. (r - 1) : rows[Slot(ids, Len(Shard), i)] = Shard[i]

(* The partitions have the rows of the shards that are done, each once. *)
PartsOK ==
  /\ parts \in Seq(Seq(AllRows))
  /\ \A p \in 1 .. Len(parts) : Ascends(parts[p]) /\ (given.tys # <<>> => parts[p] # <<>>)
  /\ \A p, q \in 1 .. Len(parts) : p # q => Disjoint(parts[p], parts[q])
  /\ \A i \in AllRows :
       (\E p \in 1 .. Len(parts) : i \in ToSet(parts[p])) <=> pc # "split" /\ Home(i) < sh
  /\ sh = 1 => parts = <<>>
  /\ Len(shards) = 1 =>
       \A p, q \in 1 .. Len(parts) : p < q => parts[p][1] < parts[q][1]

IInv == GivenOK /\ ProgressOK /\ ShardsOK /\ GroupsOK /\ PathOK /\ PlacesOK /\ PartsOK

(* What the keys add: rows of shards that are done are in one partition when their *)
(* texts are the same.                                                             *)
PartsKeyed ==
  given.tys # <<>> =>
    \A i, j \in AllRows : pc # "split" /\ Home(i) < sh /\ Home(j) < sh =>
      ((\E p \in 1 .. Len(parts) : i \in ToSet(parts[p]) /\ j \in ToSet(parts[p]))
         <=> KeyText(given.rows[i]) = KeyText(given.rows[j]))

(* What the rows, the homes and the shard are. *)
LEMMA GivenFacts ==
  ASSUME GivenOK
  PROVE  /\ Len(given.rows) \in Nat /\ AllRows = 1 .. Len(given.rows)
         /\ \A i \in AllRows : Home(i) \in 1 .. Len(shards)
         /\ \A s \in 1 .. Len(shards) :
              /\ shards[s] \in Seq(AllRows) /\ Len(shards[s]) \in Nat
              /\ DOMAIN shards[s] = 1 .. Len(shards[s])
              /\ \A i \in 1 .. Len(shards[s]) : shards[s][i] \in AllRows
<1>1. Len(given.rows) \in Nat /\ AllRows = 1 .. Len(given.rows)
  BY LenProperties DEF GivenOK, AllRows
<1>2. ASSUME NEW i \in AllRows
      PROVE  Home(i) \in 1 .. Len(shards)
  <2>1. given.rows[i] \in ToSet(given.rows)
    BY DEF AllRows, ToSet
  <2> QED
    BY <2>1 DEF GivenOK, Home
<1>3. ASSUME NEW s \in 1 .. Len(shards)
      PROVE  shards[s] \in Seq(AllRows)
  BY ElementOfSeq DEF GivenOK
<1>4. ASSUME NEW s \in 1 .. Len(shards)
      PROVE  /\ Len(shards[s]) \in Nat /\ DOMAIN shards[s] = 1 .. Len(shards[s])
             /\ \A i \in 1 .. Len(shards[s]) : shards[s][i] \in AllRows
  BY <1>3, LenProperties, ElementOfSeq
<1> QED
  BY <1>1, <1>2, <1>3, <1>4

LEMMA ShardFacts ==
  ASSUME GivenOK, ProgressOK, sh <= Len(shards)
  PROVE  /\ sh \in 1 .. Len(shards) /\ AllRows \in SUBSET Nat
         /\ Shard \in Seq(AllRows) /\ Len(Shard) \in Nat
         /\ DOMAIN Shard = 1 .. Len(Shard)
         /\ \A i \in 1 .. Len(Shard) : Shard[i] \in AllRows
<1>1. sh \in 1 .. Len(shards)
  BY DEF GivenOK, ProgressOK
<1> QED
  BY <1>1, GivenFacts DEF Shard

(* While the shards and the shard grouped stay, so do its keys. *)
LEMMA KeysStay ==
  ASSUME given' = given, shards' = shards, sh' = sh
  PROVE  /\ AllRows' = AllRows /\ Shard' = Shard /\ KeyRange' = KeyRange
         /\ \A i : Key(i)' = Key(i) /\ (IntRow(i)' <=> IntRow(i))
<1>1. AllRows' = AllRows /\ Shard' = Shard /\ \A i : Key(i)' = Key(i)
  BY DEF AllRows, Shard, Key
<1>2. \A i : IntRow(i)' <=> IntRow(i)
  BY <1>1 DEF IntRow
<1>3. KeyRange' = KeyRange
  BY <1>1, <1>2 DEF KeyRange
<1> QED
  BY <1>1, <1>2, <1>3

(* Once split, the shards stay; and what does not touch them keeps the partitions. *)
LEMMA ShardsStay ==
  ASSUME IInv, given' = given, shards' = shards, pc # "split", pc' # "split"
  PROVE  GivenOK' /\ ShardsOK'
<1>1. AllRows' = AllRows /\ \A i : Home(i)' = Home(i)
  BY DEF AllRows, Home
<1>2. GivenOK'
  BY <1>1 DEF IInv, GivenOK
<1>3. ShardsOK'
  BY <1>1 DEF IInv, ShardsOK
<1> QED
  BY <1>2, <1>3

LEMMA PartsStay ==
  ASSUME IInv, given' = given, shards' = shards, parts' = parts, sh' = sh,
         pc # "split", pc' # "split"
  PROVE  PartsOK'
<1>1. AllRows' = AllRows /\ \A i : Home(i)' = Home(i)
  BY DEF AllRows, Home
<1> QED
  BY <1>1 DEF IInv, PartsOK

-----------------------------------------------------------------------------
(* Each action keeps them.                                                  *)

LEMMA InitHolds ==
  ASSUME Init
  PROVE  IInv
<1>1. PICK g \in Keyed, n \in ShardCounts :
        /\ n > 1 => MaySplit(g)
        /\ \E h \in [HashKeys(g) -> 1 .. n] : given = [tys |-> g.tys, rows |-> g.rows, hash |-> h]
        /\ shards = IF n = 1 THEN <<[i \in 1 .. Len(g.rows) |-> i]>> ELSE [s \in 1 .. n |-> <<>>]
        /\ pc = IF n = 1 THEN "open" ELSE "split"
  BY DEF Init
<1>2. parts = <<>> /\ sh = 1 /\ r = 1 /\ seen = <<>> /\ ids = <<>>
  BY DEF Init
<1>3. PICK h \in [HashKeys(g) -> 1 .. n] : given = [tys |-> g.tys, rows |-> g.rows, hash |-> h]
  BY <1>1
<1>4. n \in Nat \ {0} /\ g.tys \in Seq(ToSet(g.tys)) /\ g.rows \in Seq(ToSet(g.rows))
  BY KeyedAssumption
<1>5. given.tys = g.tys /\ given.rows = g.rows /\ given.hash \in [ToSet(given.rows) -> 1 .. n]
  BY <1>3 DEF HashKeys, ToSet
<1>6. Len(given.rows) \in Nat /\ AllRows = 1 .. Len(given.rows)
  BY <1>4, <1>5, LenProperties DEF AllRows
<1>7. /\ Len(shards) = n /\ shards \in Seq(Seq(AllRows))
      /\ \A s \in 1 .. n : shards[s] = IF n = 1 THEN [i \in AllRows |-> i] ELSE <<>>
  <2>1. CASE n = 1
    <3> DEFINE all == [i \in AllRows |-> i]
    <3>1. all \in Seq(AllRows)
      BY <1>6
    <3>2. shards = <<all>>
      BY <1>1, <1>5, <1>6, <2>1
    <3> HIDE DEF all
    <3>3. Len(shards) = 1 /\ shards \in Seq(Seq(AllRows)) /\ shards[1] = all
      BY <3>1, <3>2
    <3> QED
      BY <2>1, <3>3 DEF all
  <2>2. CASE n # 1
    <3>1. shards = [s \in 1 .. n |-> <<>>] /\ <<>> \in Seq(AllRows)
      BY <1>1, <2>2
    <3> QED
      BY <1>4, <2>2, <3>1
  <2> QED
    BY <2>1, <2>2
<1>8. GivenOK
  <2>1. given.tys = <<>> => n = 1
    <3> SUFFICES ASSUME given.tys = <<>>, n # 1 PROVE FALSE
      OBVIOUS
    <3>1. n > 1
      BY <1>4
    <3> QED
      BY <1>1, <1>5, <3>1 DEF MaySplit
  <2> QED
    BY <1>4, <1>5, <1>7, <2>1 DEF GivenOK
<1>9. pc = (IF n = 1 THEN "open" ELSE "split")
  BY <1>1
<1>10. ProgressOK
  BY <1>2, <1>4, <1>6, <1>7, <1>9 DEF ProgressOK, Grouping_
<1>11. ShardsOK
  <2> SUFFICES ASSUME NEW s \in 1 .. n
               PROVE  /\ Ascends(shards[s])
                      /\ \A i \in AllRows :
                           i \in ToSet(shards[s]) <=> Home(i) = s /\ (pc = "split" => i < r)
    BY <1>7 DEF ShardsOK
  <2>1. CASE n = 1
    <3>1. shards[s] = [i \in AllRows |-> i] /\ Len(shards[s]) = Len(given.rows)
      BY <1>6, <1>7, <2>1
    <3>2. \A i \in AllRows : i \in ToSet(shards[s])
      BY <3>1 DEF ToSet
    <3>3. Ascends(shards[s])
      BY <1>6, <3>1 DEF Ascends
    <3>4. \A i \in AllRows : Home(i) = s
      <4>1. \A i \in AllRows : Home(i) \in 1 .. 1
        BY <1>7, <1>8, <2>1, GivenFacts
      <4> QED
        BY <2>1, <4>1
    <3> QED
      BY <1>9, <2>1, <3>2, <3>3, <3>4
  <2>2. CASE n # 1
    <3>1. shards[s] = <<>> /\ pc = "split"
      BY <1>7, <1>9, <2>2
    <3>2. ToSet(shards[s]) = {} /\ Ascends(shards[s])
      BY <3>1 DEF ToSet, Ascends
    <3>3. \A i \in AllRows : ~(i < r)
      BY <1>2, <1>6
    <3> QED
      BY <3>1, <3>2, <3>3
  <2> QED
    BY <2>1, <2>2
<1>12. GroupsOK /\ PathOK /\ PlacesOK
  <2>1. pc \in {"open", "split"}
    BY <1>9
  <2> QED
    BY <2>1 DEF GroupsOK, PathOK, PlacesOK, Grouping_
<1>13. PartsOK
  <2>1. 1 .. Len(parts) = {} /\ parts \in Seq(Seq(AllRows))
    BY <1>2
  <2>2. \A i \in AllRows : ~(Home(i) < 1)
    BY <1>7, <1>8, GivenFacts
  <2> QED
    BY <1>2, <2>1, <2>2 DEF PartsOK
<1> QED
  BY <1>8, <1>10, <1>11, <1>12, <1>13 DEF IInv

(* A sequence of naturals with a larger one after it. *)
LEMMA AscendsAppend ==
  ASSUME NEW S \in SUBSET Nat, NEW s \in Seq(S), Ascends(s), NEW x \in S,
         \A i \in 1 .. Len(s) : s[i] < x
  PROVE  /\ Append(s, x) \in Seq(S) /\ Ascends(Append(s, x))
         /\ \A y : y \in ToSet(Append(s, x)) <=> y \in ToSet(s) \/ y = x
<1> DEFINE n == Len(s)
           t == Append(s, x)
<1>1. n \in Nat /\ t \in Seq(S) /\ Len(t) = n + 1 /\ t[n + 1] = x
      /\ \A i \in 1 .. n : t[i] = s[i]
  OBVIOUS
<1>2. \A y : y \in ToSet(s) <=> \E i \in 1 .. n : s[i] = y
  BY LenProperties DEF ToSet
<1>3. \A y : y \in ToSet(t) <=> \E i \in 1 .. (n + 1) : t[i] = y
  <2> HIDE DEF t, n
  <2> QED
    BY <1>1, LenProperties DEF ToSet
<1>4. \A i, j \in 1 .. n : i < j => s[i] < s[j]
  BY DEF Ascends
<1>5. \A i \in 1 .. n : s[i] < x /\ s[i] \in Nat
  BY ElementOfSeq
<1> HIDE DEF t, n
<1>6. Ascends(t)
  <2> SUFFICES ASSUME NEW i \in 1 .. (n + 1), NEW j \in 1 .. (n + 1), i < j
               PROVE  t[i] < t[j]
    BY <1>1 DEF Ascends
  <2>1. i \in 1 .. n
    BY <1>1
  <2>2. CASE j \in 1 .. n
    BY <1>1, <1>4, <2>1, <2>2
  <2>3. CASE j = n + 1
    BY <1>1, <1>5, <2>1, <2>3
  <2> QED
    BY <1>1, <2>2, <2>3
<1>7. \A y : y \in ToSet(t) <=> y \in ToSet(s) \/ y = x
  <2>1. \A i \in 1 .. (n + 1) : i \in 1 .. n \/ i = n + 1
    BY <1>1
  <2>2. 1 .. n \subseteq 1 .. (n + 1) /\ n + 1 \in 1 .. (n + 1)
    BY <1>1
  <2> QED
    BY <1>1, <1>2, <1>3, <2>1, <2>2
<1> QED
  BY <1>1, <1>6, <1>7 DEF t

LEMMA RouteKeeps ==
  ASSUME IInv, Route
  PROVE  IInv'
<1>1. /\ pc = "split" /\ r \in AllRows
      /\ shards' = [shards EXCEPT ![given.hash[given.rows[r]]] = Append(@, r)]
      /\ r' = r + 1 /\ given' = given /\ parts' = parts /\ sh' = sh /\ pc' = pc
      /\ seen' = seen /\ ids' = ids /\ rows' = rows
  BY DEF Route
<1>2. GivenOK /\ ProgressOK /\ ShardsOK /\ PartsOK
  BY DEF IInv
<1> DEFINE h == Home(r)
           n == Len(shards)
<1>3. /\ h \in 1 .. n /\ AllRows = 1 .. Len(given.rows) /\ Len(given.rows) \in Nat
      /\ AllRows \in SUBSET Nat
  BY <1>1, <1>2, GivenFacts
<1>4. \A i \in AllRows : i \in ToSet(shards[h]) <=> Home(i) = h /\ i < r
  BY <1>1, <1>2, <1>3 DEF ShardsOK
<1>5. /\ shards[h] \in Seq(AllRows) /\ Ascends(shards[h])
      /\ \A i \in 1 .. Len(shards[h]) : shards[h][i] < r
  <2>1. /\ shards[h] \in Seq(AllRows) /\ DOMAIN shards[h] = 1 .. Len(shards[h])
        /\ \A i \in 1 .. Len(shards[h]) : shards[h][i] \in AllRows
    BY <1>2, <1>3, GivenFacts
  <2>2. \A i \in 1 .. Len(shards[h]) : shards[h][i] \in ToSet(shards[h])
    BY <2>1, StandsIn
  <2> QED
    BY <1>2, <1>3, <1>4, <2>1, <2>2 DEF ShardsOK
<1>6. /\ Append(shards[h], r) \in Seq(AllRows) /\ Ascends(Append(shards[h], r))
      /\ \A i : i \in ToSet(Append(shards[h], r)) <=> i \in ToSet(shards[h]) \/ i = r
  BY <1>1, <1>3, <1>5, AscendsAppend
<1>7. /\ shards' \in Seq(Seq(AllRows)) /\ Len(shards') = n
      /\ \A s \in 1 .. n : shards'[s] = IF s = h THEN Append(shards[h], r) ELSE shards[s]
  <2>1. shards \in Seq(Seq(AllRows))
    BY <1>2 DEF GivenOK
  <2>2. shards' = [shards EXCEPT ![h] = Append(shards[h], r)]
    BY <1>1 DEF Home
  <2> QED
    BY <1>3, <1>6, <2>1, <2>2, ExceptSeq
<1>8. AllRows' = AllRows /\ \A i : Home(i)' = Home(i)
  BY <1>1 DEF AllRows, Home
<1>9. GivenOK'
  BY <1>1, <1>2, <1>7, <1>8 DEF GivenOK
<1>10. ProgressOK'
  BY <1>1, <1>2, <1>3, <1>7 DEF ProgressOK, Grouping_
<1>11. ShardsOK'
  <2> SUFFICES ASSUME NEW s \in 1 .. n
               PROVE  /\ Ascends(shards'[s])
                      /\ \A i \in AllRows : i \in ToSet(shards'[s]) <=> Home(i) = s /\ i < r + 1
    BY <1>1, <1>7, <1>8 DEF ShardsOK
  <2>1. Ascends(shards[s]) /\ \A i \in AllRows : i \in ToSet(shards[s]) <=> Home(i) = s /\ i < r
    BY <1>1, <1>2 DEF ShardsOK
  <2>2. \A i \in AllRows : i < r + 1 <=> i < r \/ i = r
    BY <1>1, <1>3
  <2>3. CASE s = h
    BY <1>1, <1>4, <1>6, <1>7, <2>2, <2>3
  <2>4. CASE s # h
    BY <1>7, <2>1, <2>2, <2>4
  <2> QED
    BY <2>3, <2>4
<1>12. GroupsOK' /\ PathOK' /\ PlacesOK'
  BY <1>1 DEF GroupsOK, PathOK, PlacesOK, Grouping_
<1>13. PartsOK'
  BY <1>1, <1>2, <1>7, <1>8 DEF PartsOK
<1> QED
  BY <1>9, <1>10, <1>11, <1>12, <1>13 DEF IInv

LEMMA RoutedKeeps ==
  ASSUME IInv, Routed
  PROVE  IInv'
<1>1. /\ pc = "split" /\ r \notin AllRows /\ pc' = "open" /\ r' = 1
      /\ given' = given /\ shards' = shards /\ parts' = parts /\ sh' = sh
      /\ seen' = seen /\ ids' = ids
  BY DEF Routed
<1>2. GivenOK /\ ProgressOK /\ ShardsOK /\ PartsOK
  BY DEF IInv
<1>3. AllRows' = AllRows /\ \A i : Home(i)' = Home(i)
  BY <1>1 DEF AllRows, Home
<1>4. /\ AllRows = 1 .. Len(given.rows) /\ Len(given.rows) \in Nat
      /\ \A i \in AllRows : Home(i) \in 1 .. Len(shards)
  BY <1>2, GivenFacts
<1>5. sh = 1 /\ \A i \in AllRows : i < r
  BY <1>1, <1>2, <1>4 DEF ProgressOK
<1>6. GivenOK'
  BY <1>1, <1>2, <1>3 DEF GivenOK
<1>7. ProgressOK'
  BY <1>1, <1>2 DEF ProgressOK, Grouping_
<1>8. ShardsOK'
  BY <1>1, <1>2, <1>3, <1>5 DEF ShardsOK
<1>9. GroupsOK' /\ PathOK' /\ PlacesOK'
  BY <1>1 DEF GroupsOK, PathOK, PlacesOK, Grouping_
<1>10. PartsOK'
  <2>1. \A i \in AllRows : ~(Home(i) < sh)
    BY <1>4, <1>5
  <2>2. \A i \in AllRows : ~\E p \in 1 .. Len(parts) : i \in ToSet(parts[p])
    BY <1>1, <1>2 DEF PartsOK
  <2> QED
    BY <1>1, <1>2, <1>3, <2>1, <2>2 DEF PartsOK
<1> QED
  BY <1>6, <1>7, <1>8, <1>9, <1>10 DEF IInv

LEMMA OpenKeeps ==
  ASSUME IInv, Open
  PROVE  IInv'
<1>1. /\ pc = "open" /\ sh <= Len(shards)
      /\ given' = given /\ shards' = shards /\ parts' = parts /\ sh' = sh /\ r' = r
      /\ seen' = seen /\ ids' = ids
  BY DEF Open
<1>2. GivenOK /\ ProgressOK
  BY DEF IInv
<1>3. Len(given.tys) \in Nat /\ (given.tys = <<>> <=> Len(given.tys) = 0)
  BY <1>2, LenProperties, EmptySeq DEF GivenOK
<1>4. \/ pc' = "single" /\ given.tys = <<>>
      \/ pc' = "ints" /\ given.tys # <<>> /\ Len(given.tys) = 1 /\ given.tys[1].k \in IntegerFamily
      \/ pc' = "keys" /\ given.tys # <<>>
  <2>1. CASE Len(given.tys) = 0
    BY <1>3, <2>1 DEF Open
  <2>2. CASE Len(given.tys) = 1
    BY <1>3, <2>2 DEF Open
  <2>3. CASE Len(given.tys) # 0 /\ Len(given.tys) # 1
    BY <1>3, <2>3 DEF Open
  <2> QED
    BY <2>1, <2>2, <2>3
<1>5. r = 1 /\ seen = <<>> /\ ids = <<>>
  BY <1>1, <1>2 DEF ProgressOK, Grouping_
<1>6. Len(Shard) \in Nat /\ Shard' = Shard
  BY <1>1, <1>2, ShardFacts, KeysStay
<1>7. GivenOK' /\ ShardsOK' /\ PartsOK'
  BY <1>1, <1>4, ShardsStay, PartsStay
<1>8. ProgressOK'
  BY <1>1, <1>2, <1>4, <1>5, <1>6 DEF ProgressOK, Grouping_
<1>9. GroupsOK'
  <2>1. seen' \in Seq(KeyRange') /\ Distinct(seen') /\ ids' \in Seq(Nat) /\ Len(ids') = 0 /\ Len(seen') = 0
    BY <1>1, <1>5 DEF Distinct
  <2>2. Known(KeyRange', seen', ids', 0)
    BY <2>1 DEF Groups, Known
  <2>3. pc' \in Grouping_ => pc' # "place"
    BY <1>4
  <2> QED
    BY <1>1, <1>5, <2>1, <2>2, <2>3 DEF GroupsOK
<1>10. PathOK' /\ PlacesOK'
  BY <1>1, <1>4, <1>5 DEF PathOK, PlacesOK, ByInts, ByTexts
<1> QED
  BY <1>7, <1>8, <1>9, <1>10 DEF IInv

(* Without keys there is one shard, of every row, and it is the partition. *)
LEMMA SingleKeeps ==
  ASSUME IInv, Single
  PROVE  IInv'
<1>1. /\ pc = "single" /\ parts' = Append(parts, Shard) /\ sh' = sh + 1 /\ pc' = "open"
      /\ given' = given /\ shards' = shards /\ r' = r /\ seen' = seen /\ ids' = ids
  BY DEF Single
<1>2. GivenOK /\ ProgressOK /\ ShardsOK /\ PartsOK
  BY DEF IInv
<1>3. given.tys = <<>> /\ Len(shards) = 1 /\ sh = 1 /\ parts = <<>>
  <2>1. given.tys = <<>> /\ sh <= Len(shards) /\ sh \in 1 .. (Len(shards) + 1)
    BY <1>1, <1>2 DEF ProgressOK
  <2>2. Len(shards) = 1
    BY <1>2, <2>1 DEF GivenOK
  <2>3. sh = 1
    BY <2>1, <2>2
  <2> QED
    BY <1>2, <2>1, <2>2, <2>3 DEF PartsOK
<1>4. Shard \in Seq(AllRows) /\ Ascends(Shard)
  BY <1>1, <1>2, <1>3, ShardFacts DEF ShardsOK, Shard
<1>5. \A i \in AllRows : i \in ToSet(Shard) /\ Home(i) = 1
  BY <1>1, <1>2, <1>3, GivenFacts DEF ShardsOK, Shard
<1>6. parts' \in Seq(Seq(AllRows)) /\ Len(parts') = 1 /\ parts'[1] = Shard
  BY <1>1, <1>3, <1>4
<1>7. AllRows' = AllRows /\ \A i : Home(i)' = Home(i)
  BY <1>1 DEF AllRows, Home
<1>8. GivenOK' /\ ShardsOK'
  BY <1>1, ShardsStay
<1>9. ProgressOK'
  BY <1>1, <1>2, <1>3 DEF ProgressOK, Grouping_
<1>10. GroupsOK' /\ PathOK' /\ PlacesOK'
  BY <1>1 DEF GroupsOK, PathOK, PlacesOK, Grouping_
<1>11. PartsOK'
  <2>1. 1 .. Len(parts') = {1}
    BY <1>6
  <2>2. sh' = 2
    BY <1>1, <1>3
  <2>3. \A p, q \in {1} : ~(p # q) /\ ~(p < q)
    OBVIOUS
  <2>4. \A i \in AllRows : Home(i) < 2
    BY <1>5
  <2> QED
    BY <1>1, <1>3, <1>4, <1>5, <1>6, <1>7, <2>1, <2>2, <2>3, <2>4 DEF PartsOK
<1> QED
  BY <1>8, <1>9, <1>10, <1>11 DEF IInv

(* The row that is next joins the group of a key, which is one of KeyRange. *)
LEMMA AssignKeeps ==
  ASSUME IInv, pc \in {"ints", "keys"}, pc' = pc, r <= Len(Shard),
         NEW key \in KeyRange, Assign(key),
         pc = "ints" => IntRow(r) /\ key = Raw(Key(r)[1]),
         pc = "keys" => key = KeyText(Key(r))
  PROVE  IInv'
<1>1. /\ seen' = (IF {g \in DOMAIN seen : seen[g] = key} = {} THEN Append(seen, key) ELSE seen)
      /\ ids' = Append(ids, IF {g \in DOMAIN seen : seen[g] = key} = {} THEN Len(seen) + 1
                            ELSE Min({g \in DOMAIN seen : seen[g] = key}))
      /\ r' = r + 1 /\ given' = given /\ shards' = shards /\ parts' = parts /\ sh' = sh
  BY DEF Assign
<1>2. GivenOK /\ ProgressOK /\ pc \in Grouping_ /\ pc # "place"
  BY DEF IInv, Grouping_
<1>3. sh <= Len(shards)
  BY <1>2 DEF ProgressOK
<1>4. Len(Shard) \in Nat /\ r \in 1 .. Len(Shard)
  BY <1>2, <1>3, ShardFacts DEF ProgressOK
<1>5. /\ AllRows' = AllRows /\ Shard' = Shard /\ KeyRange' = KeyRange
      /\ \A i : Key(i)' = Key(i) /\ (IntRow(i)' <=> IntRow(i))
  BY <1>1, KeysStay
<1>6. Known(KeyRange, seen, ids, r - 1) /\ r - 1 \in Nat /\ (r - 1) + 1 = r
  BY <1>2, <1>4 DEF IInv, GroupsOK
<1>7. /\ Known(KeyRange, seen', ids', r)
      /\ \A i \in 1 .. (r - 1) : ids'[i] = ids[i] /\ seen'[ids'[i]] = seen[ids[i]]
      /\ seen'[ids'[r]] = key
  <2> DEFINE n == r - 1
  <2>1. Joined(seen', ids', seen, ids, key)
    BY <1>1 DEF Joined
  <2>2. Known(KeyRange, seen, ids, n) /\ n \in Nat /\ n + 1 = r
    BY <1>6
  <2> HIDE DEF n
  <2>3. Grown(KeyRange, seen', ids', seen, ids, n, key)
    BY <2>1, <2>2, JoinsGroup
  <2> QED
    BY <2>2, <2>3 DEF n, Grown
<1>8. r' - 1 = r /\ r' \in Nat \ {0} /\ r' <= Len(Shard) + 1
  BY <1>1, <1>4
<1>9. GivenOK' /\ ShardsOK' /\ PartsOK'
  BY <1>1, <1>2, ShardsStay, PartsStay
<1>10. ProgressOK'
  BY <1>1, <1>2, <1>5, <1>8 DEF ProgressOK, Grouping_
<1>11. GroupsOK'
  BY <1>2, <1>5, <1>7, <1>8 DEF GroupsOK
<1>12. PathOK'
  <2>1. CASE pc = "ints"
    <3>1. Len(given.tys) = 1 /\ given.tys[1].k \in IntegerFamily /\ ByInts(r - 1)
      BY <2>1 DEF IInv, PathOK
    <3>2. ASSUME NEW i \in 1 .. r
          PROVE  IntRow(i) /\ seen'[ids'[i]] = Raw(Key(i)[1])
      <4>1. CASE i = r
        BY <1>7, <2>1, <4>1
      <4>2. CASE i # r
        <5>1. i \in 1 .. (r - 1)
          BY <1>4, <4>2
        <5> QED
          BY <1>7, <3>1, <5>1 DEF ByInts
      <4> QED
        BY <4>1, <4>2
    <3>3. ByInts(r - 1)'
      BY <1>5, <1>8, <3>2 DEF ByInts
    <3> QED
      BY <1>1, <2>1, <3>1, <3>3 DEF PathOK
  <2>2. CASE pc = "keys"
    <3>1. ByTexts(r - 1)
      BY <2>2 DEF IInv, PathOK
    <3>2. ASSUME NEW i \in 1 .. r
          PROVE  seen'[ids'[i]] = KeyText(Key(i))
      <4>1. CASE i = r
        BY <1>7, <2>2, <4>1
      <4>2. CASE i # r
        <5>1. i \in 1 .. (r - 1)
          BY <1>4, <4>2
        <5> QED
          BY <1>7, <3>1, <5>1 DEF ByTexts
      <4> QED
        BY <4>1, <4>2
    <3>3. ByTexts(r - 1)'
      BY <1>5, <1>8, <3>2 DEF ByTexts
    <3> QED
      BY <2>2, <3>3 DEF PathOK
  <2> QED
    BY <2>1, <2>2
<1>13. PlacesOK'
  BY <1>2 DEF PlacesOK
<1> QED
  BY <1>9, <1>10, <1>11, <1>12, <1>13 DEF IInv

LEMMA GroupByIntKeeps ==
  ASSUME IInv, GroupByInt
  PROVE  IInv'
<1>1. /\ pc = "ints" /\ r <= Len(Shard) /\ Uniform(Key(r)[1], given.tys[1])
      /\ Assign(Raw(Key(r)[1])) /\ pc' = pc
  BY DEF GroupByInt, Assign
<1>2. GivenOK /\ ProgressOK /\ sh <= Len(shards) /\ r \in Nat \ {0}
  BY <1>1 DEF IInv, ProgressOK, Grouping_
<1>3. r \in DOMAIN Shard
  BY <1>1, <1>2, ShardFacts
<1>4. IntRow(r)
  BY <1>1 DEF IInv, PathOK, IntRow
<1>5. Raw(Key(r)[1]) \in KeyRange
  BY <1>3, <1>4 DEF KeyRange
<1> QED
  BY <1>1, <1>4, <1>5, AssignKeeps

LEMMA GroupByKeyKeeps ==
  ASSUME IInv, GroupByKey
  PROVE  IInv'
<1>1. /\ pc = "keys" /\ r <= Len(Shard) /\ Assign(KeyText(Key(r))) /\ pc' = pc
  BY DEF GroupByKey, Assign
<1>2. GivenOK /\ ProgressOK /\ sh <= Len(shards) /\ r \in Nat \ {0}
  BY <1>1 DEF IInv, ProgressOK, Grouping_
<1>3. r \in DOMAIN Shard
  BY <1>1, <1>2, ShardFacts
<1>4. KeyText(Key(r)) \in KeyRange
  BY <1>3 DEF KeyRange
<1> QED
  BY <1>1, <1>4, AssignKeeps

(* What was grouped by integers is forgotten. *)
LEMMA FallBackKeeps ==
  ASSUME IInv, FallBack
  PROVE  IInv'
<1>1. /\ pc = "ints" /\ pc' = "keys" /\ r' = 1 /\ seen' = <<>> /\ ids' = <<>>
      /\ given' = given /\ shards' = shards /\ parts' = parts /\ sh' = sh
  BY DEF FallBack
<1>2. GivenOK /\ ProgressOK /\ sh <= Len(shards)
  BY <1>1 DEF IInv, ProgressOK, Grouping_
<1>3. Shard' = Shard /\ Len(Shard) \in Nat
  BY <1>1, <1>2, ShardFacts, KeysStay
<1>4. GivenOK' /\ ShardsOK' /\ PartsOK'
  BY <1>1, ShardsStay, PartsStay
<1>5. ProgressOK'
  BY <1>1, <1>2, <1>3 DEF ProgressOK, Grouping_
<1>6. GroupsOK'
  <2>1. seen' \in Seq(KeyRange') /\ Distinct(seen') /\ ids' \in Seq(Nat) /\ Len(ids') = 0 /\ Len(seen') = 0
    BY <1>1 DEF Distinct
  <2>2. Known(KeyRange', seen', ids', 0)
    BY <2>1 DEF Groups, Known
  <2> QED
    BY <1>1, <2>1, <2>2 DEF GroupsOK
<1>7. PathOK' /\ PlacesOK'
  BY <1>1 DEF PathOK, PlacesOK, ByTexts
<1> QED
  BY <1>4, <1>5, <1>6, <1>7 DEF IInv

(* Each row has a group among those founded. *)
Numbered(seen_, ids_, n) ==
  /\ Len(seen_) \in Nat /\ DOMAIN seen_ = 1 .. Len(seen_) /\ DOMAIN ids_ = 1 .. n
  /\ ids_ \in [1 .. n -> 1 .. Len(seen_)]
  /\ Groups(ids_, n, Len(seen_))

LEMMA IdsRange ==
  ASSUME NEW S, NEW seen_, NEW n \in Nat, NEW ids_, Known(S, seen_, ids_, n)
  PROVE  Numbered(seen_, ids_, n)
<1>1. /\ seen_ \in Seq(S) /\ ids_ \in Seq(Nat) /\ Len(ids_) = n /\ Groups(ids_, n, Len(seen_))
  BY DEF Known
<1>2. Len(seen_) \in Nat /\ DOMAIN seen_ = 1 .. Len(seen_) /\ DOMAIN ids_ = 1 .. n
      /\ ids_ \in [1 .. Len(ids_) -> Nat]
  BY <1>1, LenProperties
<1>3. \A i \in 1 .. n : ids_[i] \in 1 .. Len(seen_)
  BY <1>1 DEF Groups
<1> QED
  BY <1>1, <1>2, <1>3 DEF Numbered

(* The groups are counted, and no row is placed yet. *)
LEMMA SizeKeeps ==
  ASSUME IInv, Size
  PROVE  IInv'
<1>1. /\ pc \in {"ints", "keys"} /\ r > Len(Shard)
      /\ bounds' = [g \in 1 .. (Len(seen) + 1) |-> Cardinality({i \in DOMAIN ids : ids[i] < g})]
      /\ cursor' = [g \in DOMAIN seen |-> bounds'[g]]
      /\ rows' = [i \in DOMAIN Shard |-> 0]
      /\ r' = 1 /\ pc' = "place" /\ given' = given /\ shards' = shards /\ parts' = parts
      /\ sh' = sh /\ seen' = seen /\ ids' = ids
  BY DEF Size
<1>2. GivenOK /\ ProgressOK /\ sh <= Len(shards) /\ r <= Len(Shard) + 1 /\ r \in Nat \ {0}
  BY <1>1 DEF IInv, ProgressOK, Grouping_
<1> DEFINE n == Len(Shard)
           m == Len(seen)
<1>3. n \in Nat /\ DOMAIN Shard = 1 .. n
  BY <1>2, ShardFacts
<1>4. /\ AllRows' = AllRows /\ Shard' = Shard /\ KeyRange' = KeyRange
      /\ \A i : Key(i)' = Key(i) /\ (IntRow(i)' <=> IntRow(i))
  BY <1>1, KeysStay
<1>5. r - 1 = n
  BY <1>1, <1>2, <1>3
<1>6. Known(KeyRange, seen, ids, n)
  BY <1>1, <1>5 DEF IInv, GroupsOK, Grouping_
<1>7. m \in Nat /\ DOMAIN seen = 1 .. m /\ DOMAIN ids = 1 .. n /\ ids \in [1 .. n -> 1 .. m]
  <2>1. Numbered(seen, ids, n)
    BY <1>3, <1>6, IdsRange
  <2> QED
    BY <2>1 DEF Numbered
<1>8. GivenOK' /\ ShardsOK' /\ PartsOK'
  BY <1>1, ShardsStay, PartsStay
<1>9. ProgressOK'
  BY <1>1, <1>2, <1>3, <1>4 DEF ProgressOK, Grouping_
<1>10. GroupsOK'
  BY <1>1, <1>4, <1>6 DEF GroupsOK
<1>11. PathOK'
  <2>1. ByInts(n) \/ ByTexts(n)
    BY <1>1, <1>5 DEF IInv, PathOK
  <2>2. ByInts(n)' <=> ByInts(n)
    BY <1>1, <1>4 DEF ByInts
  <2>3. ByTexts(n)' <=> ByTexts(n)
    BY <1>1, <1>4 DEF ByTexts
  <2> QED
    BY <1>1, <1>4, <2>1, <2>2, <2>3 DEF PathOK
<1>12. PlacesOK'
  <2>1. bounds' = [g \in 1 .. (m + 1) |-> Lower(ids, n, g)]
    BY <1>1, <1>7 DEF Lower
  <2>2. ASSUME NEW g \in 1 .. m
        PROVE  bounds'[g] = Lower(ids, n, g) + Within(ids, 0, g)
    <3>1. bounds'[g] = Lower(ids, n, g)
      BY <1>7, <2>1
    <3>2. Lower(ids, n, g) \in Nat
      <4>1. g \in Int
        OBVIOUS
      <4> QED
        BY <1>3, <1>7, <4>1, LowerGrows
    <3>3. Within(ids, 0, g) = 0
      <4>1. {j \in 1 .. 0 : ids[j] = g} = {}
        OBVIOUS
      <4> QED
        BY <4>1, FS_EmptySet DEF Within
    <3> QED
      BY <3>1, <3>2, <3>3
  <2>3. cursor' = [g \in 1 .. m |-> Lower(ids, n, g) + Within(ids, 0, g)]
    BY <1>1, <1>7, <2>2
  <2>4. rows' \in [1 .. n -> Nat]
    BY <1>1, <1>3
  <2>5. r' - 1 = 0 /\ 1 .. 0 = {}
    BY <1>1
  <2> HIDE DEF n, m
  <2> QED
    BY <1>1, <1>4, <2>1, <2>3, <2>4, <2>5 DEF PlacesOK, n, m
<1> QED
  BY <1>8, <1>9, <1>10, <1>11, <1>12 DEF IInv

(* The next row is put in its slot, which no row before it has. *)
LEMMA PlaceKeeps ==
  ASSUME IInv, Place
  PROVE  IInv'
<1>1. /\ pc = "place" /\ r <= Len(Shard)
      /\ rows' = [rows EXCEPT ![cursor[ids[r]] + 1] = Shard[r]]
      /\ cursor' = [cursor EXCEPT ![ids[r]] = cursor[ids[r]] + 1]
      /\ r' = r + 1 /\ pc' = pc /\ given' = given /\ shards' = shards /\ parts' = parts
      /\ sh' = sh /\ seen' = seen /\ ids' = ids /\ bounds' = bounds
  BY DEF Place
<1>2. GivenOK /\ ProgressOK /\ sh <= Len(shards) /\ r \in Nat \ {0}
  BY <1>1 DEF IInv, ProgressOK, Grouping_
<1> DEFINE n == Len(Shard)
           m == Len(seen)
<1>3. n \in Nat /\ \A i \in 1 .. n : Shard[i] \in Nat
  BY <1>2, ShardFacts
<1>4. /\ AllRows' = AllRows /\ Shard' = Shard /\ KeyRange' = KeyRange
      /\ \A i : Key(i)' = Key(i) /\ (IntRow(i)' <=> IntRow(i))
  BY <1>1, KeysStay
<1>5. Known(KeyRange, seen, ids, n)
  BY <1>1 DEF IInv, GroupsOK, Grouping_
<1>6. m \in Nat /\ ids \in [1 .. n -> 1 .. m]
  BY <1>3, <1>5, IdsRange DEF Numbered
<1>7. /\ bounds = [g \in 1 .. (m + 1) |-> Lower(ids, n, g)]
      /\ cursor = [g \in 1 .. m |-> Lower(ids, n, g) + Within(ids, r - 1, g)]
      /\ rows \in [1 .. n -> Nat]
      /\ \A i \in 1 .. (r - 1) : rows[Slot(ids, n, i)] = Shard[i]
  BY <1>1 DEF IInv, PlacesOK
<1>8. r \in 1 .. n /\ ids[r] \in 1 .. m
  <2>1. r \in 1 .. n
    BY <1>1, <1>2, <1>3
  <2> QED
    BY <1>6, <2>1
<1>9. GivenOK' /\ ShardsOK' /\ PartsOK'
  BY <1>1, ShardsStay, PartsStay
<1>10. ProgressOK'
  BY <1>1, <1>2, <1>3, <1>4 DEF ProgressOK, Grouping_
<1>11. GroupsOK'
  BY <1>1, <1>4, <1>5 DEF GroupsOK
<1>12. PathOK'
  <2>1. ByInts(n) \/ ByTexts(n)
    BY <1>1 DEF IInv, PathOK
  <2>2. ByInts(n)' <=> ByInts(n)
    BY <1>1, <1>4 DEF ByInts
  <2>3. ByTexts(n)' <=> ByTexts(n)
    BY <1>1, <1>4 DEF ByTexts
  <2> QED
    BY <1>1, <1>4, <2>1, <2>2, <2>3 DEF PathOK
<1>13. cursor[ids[r]] + 1 = Slot(ids, n, r)
  BY <1>7, <1>8 DEF Slot
<1>14. Slot(ids, n, r) \in 1 .. n /\ \A i \in 1 .. (r - 1) : Slot(ids, n, i) # Slot(ids, n, r)
  <2>0. SlotsFill(ids, n)
    BY <1>3, <1>6, SlotsAreAPermutation
  <2>1. /\ \A i \in 1 .. n : Slot(ids, n, i) \in 1 .. n
        /\ \A i, j \in 1 .. n : <<i, j>> \in BySlot(ids, n) => Slot(ids, n, i) < Slot(ids, n, j)
    BY <2>0 DEF SlotsFill
  <2>2. ASSUME NEW i \in 1 .. (r - 1)
        PROVE  <<i, r>> \in BySlot(ids, n) \/ <<r, i>> \in BySlot(ids, n)
    <3>1. i \in 1 .. n /\ i < r
      BY <1>3, <1>8
    <3>2. ids[i] \in Int /\ ids[r] \in Int
      BY <1>6, <1>8, <3>1
    <3> QED
      BY <1>8, <3>1, <3>2 DEF BySlot
  <2>3. ASSUME NEW i \in 1 .. (r - 1)
        PROVE  Slot(ids, n, i) # Slot(ids, n, r)
    <3>1. i \in 1 .. n
      BY <1>3, <1>8
    <3>2. Slot(ids, n, i) \in 1 .. n /\ Slot(ids, n, r) \in 1 .. n
      BY <1>8, <2>1, <3>1
    <3>3. Slot(ids, n, i) < Slot(ids, n, r) \/ Slot(ids, n, r) < Slot(ids, n, i)
      BY <1>8, <2>1, <2>2, <3>1
    <3> QED
      BY <3>2, <3>3
  <2> QED
    BY <1>8, <2>1, <2>3
<1>15. PlacesOK'
  <2> DEFINE p == Slot(ids, n, r)
  <2>1. rows' = [rows EXCEPT ![p] = Shard[r]]
    BY <1>1, <1>13
  <2>2. rows' \in [1 .. n -> Nat]
    BY <1>3, <1>7, <1>8, <2>1
  <2>3. ASSUME NEW i \in 1 .. r
        PROVE  rows'[Slot(ids, n, i)] = Shard[i]
    <3>1. CASE i = r
      BY <1>7, <1>14, <2>1, <3>1
    <3>2. CASE i # r
      <4>1. i \in 1 .. (r - 1) /\ i \in 1 .. n
        BY <1>8, <3>2
      <4>2. rows[Slot(ids, n, i)] = Shard[i] /\ Slot(ids, n, i) # p
        BY <1>7, <1>14, <4>1
      <4>3. Slot(ids, n, i) \in 1 .. n
        BY <1>3, <1>6, <4>1, SlotsAreAPermutation DEF SlotsFill
      <4> QED
        BY <1>7, <2>1, <4>2, <4>3
    <3> QED
      BY <3>1, <3>2
  <2>4. ASSUME NEW g \in 1 .. m
        PROVE  cursor'[g] = Lower(ids, n, g) + Within(ids, r, g)
    <3>1. Within(ids, r, g) = Within(ids, r - 1, g) + (IF ids[r] = g THEN 1 ELSE 0)
      BY <1>3, <1>6, <1>8, OneMoreWithin
    <3>2. Lower(ids, n, g) \in Nat /\ Within(ids, r - 1, g) \in Nat
      <4>1. g \in Int /\ r - 1 \in Nat
        BY <1>8
      <4> QED
        BY <1>3, <1>6, <4>1, LowerGrows
    <3>3. cursor[g] = Lower(ids, n, g) + Within(ids, r - 1, g)
      BY <1>7
    <3>4. cursor'[g] = IF ids[r] = g THEN cursor[g] + 1 ELSE cursor[g]
      BY <1>1, <1>7, <1>8
    <3> QED
      BY <3>1, <3>2, <3>3, <3>4
  <2>5. DOMAIN cursor' = 1 .. m /\ cursor' = [g \in DOMAIN cursor' |-> cursor'[g]]
    BY <1>1, <1>7
  <2>6. cursor' = [g \in 1 .. m |-> Lower(ids, n, g) + Within(ids, r, g)]
    BY <2>4, <2>5
  <2>7. r' - 1 = r
    BY <1>1, <1>2
  <2> HIDE DEF n, m
  <2> QED
    BY <1>1, <1>4, <1>7, <2>2, <2>3, <2>6, <2>7 DEF PlacesOK, n, m
<1> QED
  BY <1>9, <1>10, <1>11, <1>12, <1>15 DEF IInv

(* What each group of a shard is cut out of the rows as. *)
LEMMA GroupProduced ==
  ASSUME IInv, pc = "place", r > Len(Shard), NEW g \in 1 .. Len(seen)
  PROVE  /\ SubSeq(rows, bounds[g] + 1, bounds[g + 1]) \in Seq(AllRows)
         /\ HoldsGroup(SubSeq(rows, bounds[g] + 1, bounds[g + 1]), Shard, ids, g)
<1> DEFINE n == Len(Shard)
           m == Len(seen)
           lo == Lower(ids, n, g)
           hi == Lower(ids, n, g + 1)
           at == [i \in 1 .. n |-> Slot(ids, n, i)]
           part == SubSeq(rows, bounds[g] + 1, bounds[g + 1])
           width == hi - lo
<1>2. /\ GivenOK /\ ProgressOK /\ ShardsOK /\ sh <= Len(shards) /\ r <= Len(Shard) + 1
      /\ r \in Nat \ {0}
  BY DEF IInv, ProgressOK, Grouping_
<1>3. /\ n \in Nat /\ sh \in 1 .. Len(shards) /\ AllRows \in SUBSET Nat
      /\ \A i \in 1 .. n : Shard[i] \in AllRows
      /\ Shard \in [1 .. n -> Nat]
  <2>1. /\ n \in Nat /\ sh \in 1 .. Len(shards) /\ AllRows \in SUBSET Nat
        /\ Shard \in Seq(AllRows) /\ \A i \in 1 .. n : Shard[i] \in AllRows
    BY <1>2, ShardFacts
  <2>2. Shard \in [1 .. n -> AllRows]
    BY <2>1, LenProperties
  <2>3. Shard \in [1 .. n -> Nat]
    BY <2>1, <2>2
  <2> QED
    BY <2>1, <2>3
<1>4. \A i, j \in 1 .. n : i < j => Shard[i] < Shard[j]
  BY <1>2, <1>3 DEF ShardsOK, Ascends, Shard
<1>5. Known(KeyRange, seen, ids, n)
  BY DEF IInv, GroupsOK, Grouping_
<1>6. m \in Nat /\ ids \in [1 .. n -> 1 .. m] /\ Groups(ids, n, m)
  BY <1>3, <1>5, IdsRange DEF Numbered
<1>7. /\ bounds = [h \in 1 .. (m + 1) |-> Lower(ids, n, h)]
      /\ \A i \in 1 .. n : rows[Slot(ids, n, i)] = Shard[i]
  <2>1. r - 1 = n
    BY <1>2, <1>3
  <2> QED
    BY <2>1 DEF IInv, PlacesOK
<1>8. bounds[g] = lo /\ bounds[g + 1] = hi
  <2>1. g \in 1 .. (m + 1) /\ g + 1 \in 1 .. (m + 1)
    BY <1>6
  <2> QED
    BY <1>7, <2>1
<1>9. lo \in Nat /\ hi \in Nat
  <2>1. g \in Int /\ g + 1 \in Int
    OBVIOUS
  <2> QED
    BY <1>3, <1>6, <2>1, LowerGrows
<1>10. Stands(ids, at, n, g, lo, hi) /\ lo <= hi
  <2>1. g \in 1 .. m
    OBVIOUS
  <2> HIDE DEF m, n
  <2> QED
    BY <1>3, <1>6, <1>9, <2>1, GroupStands
<1>11. \A i \in 1 .. n : rows[at[i]] = Shard[i]
  BY <1>7
<1>12. PICK i0 \in 1 .. n : ids[i0] = g
  BY <1>6 DEF Groups
<1> HIDE DEF lo, hi, at, m, n
<1>13. \A p \in (lo + 1) .. hi : rows[p] \in AllRows
  BY <1>3, <1>10, <1>11 DEF Stands
<1>14. /\ part \in Seq(AllRows) /\ Len(part) = width
       /\ \A k \in 1 .. width : part[k] = rows[lo + k]
  BY <1>8, <1>9, <1>10, <1>13, Segment
<1>15. width \in Nat
  BY <1>9, <1>10
<1> HIDE DEF part
<1>16. ReadAt(part, width, Shard, at, n, lo)
  BY <1>4, <1>11, <1>14 DEF ReadAt
<1>w. width = hi - lo
  OBVIOUS
<1> HIDE DEF width
<1>r. IsRead(part, width, Shard, ids, n, g)
  BY <1>3, <1>9, <1>10, <1>12, <1>15, <1>16, <1>w, GroupRead
<1>17. /\ 1 \in 1 .. width
       /\ \A k, l \in 1 .. width : k < l => part[k] < part[l]
       /\ \A k \in 1 .. width : \E i \in 1 .. n : ids[i] = g /\ Shard[i] = part[k]
       /\ \A i \in 1 .. n : ids[i] = g => \E k \in 1 .. width : part[k] = Shard[i]
       /\ \E i \in 1 .. n : /\ ids[i] = g /\ part[1] = Shard[i]
                            /\ \A j \in 1 .. n : ids[j] = g => i <= j
  BY <1>r DEF IsRead
<1>18. \A x : x \in ToSet(part) <=> \E k \in 1 .. width : part[k] = x
  BY <1>14, LenProperties DEF ToSet
<1>19. \A x : x \in ToSet(part) <=> \E i \in 1 .. n : ids[i] = g /\ Shard[i] = x
  <2> SUFFICES ASSUME NEW x
               PROVE  x \in ToSet(part) <=> \E i \in 1 .. n : ids[i] = g /\ Shard[i] = x
    OBVIOUS
  <2>1. ASSUME x \in ToSet(part)
        PROVE  \E i \in 1 .. n : ids[i] = g /\ Shard[i] = x
    <3>1. PICK k \in 1 .. width : part[k] = x
      BY <1>18, <2>1
    <3>2. PICK i \in 1 .. n : ids[i] = g /\ Shard[i] = part[k]
      BY <1>17
    <3> QED
      BY <3>1, <3>2
  <2>2. ASSUME NEW i \in 1 .. n, ids[i] = g, Shard[i] = x
        PROVE  x \in ToSet(part)
    BY <1>17, <1>18, <2>2
  <2> QED
    BY <2>1, <2>2
<1>20. part # <<>> /\ Ascends(part)
  <2>1. Len(part) # 0
    BY <1>14, <1>15, <1>17
  <2> QED
    BY <1>14, <1>17, <2>1, EmptySeq DEF Ascends
<1>21. HoldsGroup(part, Shard, ids, g)
  BY <1>17, <1>19, <1>20 DEF HoldsGroup, n
<1> QED
  BY <1>14, <1>21 DEF part

(* Two groups of a shard have no row in common, and their first rows rise. *)
LEMMA GroupsApart ==
  ASSUME NEW n \in Nat, NEW m \in Nat, NEW ids_ \in [1 .. n -> 1 .. m], Groups(ids_, n, m),
         NEW shard \in [1 .. n -> Nat], Len(shard) = n,
         \A i, j \in 1 .. n : i < j => shard[i] < shard[j],
         NEW g \in 1 .. m, NEW h \in 1 .. m, NEW a, NEW b,
         HoldsGroup(a, shard, ids_, g), HoldsGroup(b, shard, ids_, h)
  PROVE  (g # h => Disjoint(a, b)) /\ (g < h => a[1] < b[1])
<1>1. \A x : x \in ToSet(a) <=> \E i \in 1 .. n : ids_[i] = g /\ shard[i] = x
  BY DEF HoldsGroup
<1>2. \A x : x \in ToSet(b) <=> \E i \in 1 .. n : ids_[i] = h /\ shard[i] = x
  BY DEF HoldsGroup
<1>3. ASSUME g # h
      PROVE  Disjoint(a, b)
  <2> SUFFICES ASSUME NEW x \in ToSet(a), x \in ToSet(b)
               PROVE  FALSE
    BY DEF Disjoint
  <2>1. PICK i \in 1 .. n : ids_[i] = g /\ shard[i] = x
    BY <1>1
  <2>2. PICK j \in 1 .. n : ids_[j] = h /\ shard[j] = x
    BY <1>2
  <2>3. i < j \/ j < i
    BY <1>3, <2>1, <2>2
  <2>4. shard[i] < shard[j] \/ shard[j] < shard[i]
    BY <2>3
  <2>5. shard[i] \in Nat /\ shard[j] \in Nat
    OBVIOUS
  <2> QED
    BY <2>1, <2>2, <2>4, <2>5
<1>4. ASSUME g < h
      PROVE  a[1] < b[1]
  <2>1. PICK i \in 1 .. n : /\ ids_[i] = g /\ a[1] = shard[i]
                            /\ \A j \in 1 .. n : ids_[j] = g => i <= j
    BY DEF HoldsGroup
  <2>2. PICK j \in 1 .. n : ids_[j] = h /\ b[1] = shard[j]
    BY DEF HoldsGroup
  <2>3. PICK k \in 1 .. n : k < j /\ ids_[k] = g
    BY <1>4, <2>2 DEF Groups
  <2>4. i < j
    BY <2>1, <2>3
  <2> QED
    BY <2>1, <2>2, <2>4
<1> QED
  BY <1>3, <1>4

(* One partition more for each group of the shard. *)
PartsAdded(np, m) ==
  /\ Len(Shard) \in Nat /\ Known(KeyRange, seen, ids, Len(Shard))
  /\ ids \in [1 .. Len(Shard) -> 1 .. m] /\ Groups(ids, Len(Shard), m) /\ DOMAIN seen = 1 .. m
  /\ parts' \in Seq(Seq(AllRows)) /\ np \in Nat /\ m \in Nat /\ Len(parts') = np + m
  /\ \A p \in 1 .. np : parts'[p] = parts[p]
  /\ \A g \in 1 .. m : parts'[np + g] \in Seq(AllRows) /\ HoldsGroup(parts'[np + g], Shard, ids, g)
  /\ \A p \in 1 .. (np + m) : p \in 1 .. np \/ \E g \in 1 .. m : p = np + g

LEMMA ProduceAdds ==
  ASSUME IInv, Produce
  PROVE  PartsAdded(Len(parts), Len(seen))
<1> DEFINE n == Len(Shard)
           m == Len(seen)
           new == [g \in 1 .. m |-> SubSeq(rows, bounds[g] + 1, bounds[g + 1])]
           np == Len(parts)
<1>1. /\ pc = "place" /\ r > Len(Shard)
      /\ parts' = parts \o [g \in DOMAIN seen |-> SubSeq(rows, bounds[g] + 1, bounds[g + 1])]
  BY DEF Produce
<1>2. GivenOK /\ ProgressOK /\ PartsOK /\ sh <= Len(shards)
  BY <1>1 DEF IInv, ProgressOK, Grouping_
<1>3. n \in Nat
  BY <1>2, ShardFacts
<1>4. Known(KeyRange, seen, ids, n)
  BY <1>1 DEF IInv, GroupsOK, Grouping_
<1>5. m \in Nat /\ ids \in [1 .. n -> 1 .. m] /\ Groups(ids, n, m) /\ DOMAIN seen = 1 .. m
  <2>1. Numbered(seen, ids, n)
    BY <1>3, <1>4, IdsRange
  <2> QED
    BY <2>1 DEF Numbered
<1>6. \A g \in 1 .. m : new[g] \in Seq(AllRows) /\ HoldsGroup(new[g], Shard, ids, g)
  BY <1>1, GroupProduced
<1>7. new \in Seq(Seq(AllRows)) /\ Len(new) = m
  BY <1>5, <1>6
<1>8. parts' = parts \o new
  BY <1>1, <1>5
<1>9. parts \in Seq(Seq(AllRows)) /\ np \in Nat
  BY <1>2 DEF PartsOK
<1> HIDE DEF new, m
<1>10. /\ parts \o new \in Seq(Seq(AllRows)) /\ Len(parts \o new) = np + m
       /\ \A i \in 1 .. np + m : (parts \o new)[i] = IF i <= np THEN parts[i] ELSE new[i - np]
  BY <1>7, <1>9, ConcatProperties
<1>11. \A g \in 1 .. m : np + g \in 1 .. np + m /\ ~(np + g <= np) /\ (np + g) - np = g
  BY <1>5, <1>9
<1>12. \A p \in 1 .. np : p \in 1 .. np + m /\ p <= np
  BY <1>5, <1>9
<1> HIDE DEF np, n
<1>13. /\ parts' \in Seq(Seq(AllRows)) /\ np \in Nat /\ m \in Nat /\ Len(parts') = np + m
       /\ \A p \in 1 .. np : parts'[p] = parts[p]
  BY <1>5, <1>8, <1>9, <1>10, <1>12
<1>14. \A g \in 1 .. m : parts'[np + g] = new[g]
  BY <1>8, <1>10, <1>11
<1>15. \A g \in 1 .. m : parts'[np + g] \in Seq(AllRows) /\ HoldsGroup(parts'[np + g], Shard, ids, g)
  BY <1>6, <1>14
<1>16. \A p \in 1 .. (np + m) : p \in 1 .. np \/ \E g \in 1 .. m : p = np + g
  <2> SUFFICES ASSUME NEW p \in 1 .. (np + m)
               PROVE  p \in 1 .. np \/ \E g \in 1 .. m : p = np + g
    OBVIOUS
  <2>1. p \in 1 .. np \/ (p - np \in 1 .. m /\ p = np + (p - np))
    BY <1>13
  <2> QED
    BY <2>1
<1> QED
  BY <1>3, <1>4, <1>5, <1>13, <1>15, <1>16 DEF PartsAdded, np, m, n

(* The groups of the shard are its partitions. *)
LEMMA ProduceKeeps ==
  ASSUME IInv, Produce
  PROVE  IInv'
<1> DEFINE n == Len(Shard)
           m == Len(seen)
           np == Len(parts)
           new == [g \in 1 .. m |-> parts'[np + g]]
<1>1. /\ pc = "place" /\ r > Len(Shard)
      /\ sh' = sh + 1 /\ pc' = "open" /\ r' = 1 /\ seen' = <<>> /\ ids' = <<>>
      /\ given' = given /\ shards' = shards
  BY DEF Produce
<1>2. /\ GivenOK /\ ProgressOK /\ ShardsOK /\ PartsOK /\ sh <= Len(shards)
      /\ given.tys # <<>>
  BY <1>1 DEF IInv, ProgressOK, Grouping_
<1>3. /\ n \in Nat /\ sh \in 1 .. Len(shards) /\ AllRows \in SUBSET Nat
      /\ \A i \in 1 .. n : Shard[i] \in AllRows
      /\ Shard \in [1 .. n -> Nat] /\ DOMAIN Shard = 1 .. n
  <2>1. /\ n \in Nat /\ sh \in 1 .. Len(shards) /\ AllRows \in SUBSET Nat
        /\ Shard \in Seq(AllRows) /\ \A i \in 1 .. n : Shard[i] \in AllRows
        /\ DOMAIN Shard = 1 .. n
    BY <1>2, ShardFacts
  <2>2. Shard \in [1 .. n -> AllRows]
    BY <2>1, LenProperties
  <2>3. Shard \in [1 .. n -> Nat]
    BY <2>1, <2>2
  <2> QED
    BY <2>1, <2>3
<1>4. \A i, j \in 1 .. n : i < j => Shard[i] < Shard[j]
  BY <1>2, <1>3 DEF ShardsOK, Ascends, Shard
<1>5. PartsAdded(np, m)
  BY ProduceAdds
<1>6. m \in Nat /\ ids \in [1 .. n -> 1 .. m] /\ Groups(ids, n, m) /\ DOMAIN seen = 1 .. m
  BY <1>5 DEF PartsAdded
<1>7. \A g \in 1 .. m : new[g] \in Seq(AllRows) /\ HoldsGroup(new[g], Shard, ids, g)
  BY <1>5 DEF PartsAdded
<1>8. AllRows' = AllRows /\ \A i : Home(i)' = Home(i)
  BY <1>1 DEF AllRows, Home
<1>9. GivenOK'
  BY <1>1, <1>2, <1>8 DEF GivenOK
<1>10. ShardsOK'
  BY <1>1, <1>2, <1>8 DEF ShardsOK
<1>11. ProgressOK'
  BY <1>1, <1>2, <1>3 DEF ProgressOK, Grouping_
<1>12. GroupsOK' /\ PathOK' /\ PlacesOK'
  BY <1>1 DEF GroupsOK, PathOK, PlacesOK, Grouping_
<1>13. /\ parts' \in Seq(Seq(AllRows)) /\ np \in Nat /\ Len(parts') = np + m
       /\ \A p \in 1 .. np : parts'[p] = parts[p]
       /\ \A g \in 1 .. m : parts'[np + g] = new[g]
  BY <1>5 DEF PartsAdded
<1> HIDE DEF new, m, np
<1>14. ASSUME NEW p \in 1 .. (np + m)
       PROVE  p \in 1 .. np \/ \E g \in 1 .. m : p = np + g
  BY <1>5 DEF PartsAdded
<1>15. \A g, h \in 1 .. m : (g # h => Disjoint(new[g], new[h])) /\ (g < h => new[g][1] < new[h][1])
  BY <1>3, <1>4, <1>6, <1>7, GroupsApart DEF n
<1>16. \A i : i \in ToSet(Shard) <=> \E g \in 1 .. m : i \in ToSet(new[g])
  <2>1. \A i : i \in ToSet(Shard) <=> \E k \in 1 .. n : Shard[k] = i
    BY <1>3 DEF ToSet
  <2>2. \A g \in 1 .. m : \A i : i \in ToSet(new[g]) <=> \E k \in 1 .. n : ids[k] = g /\ Shard[k] = i
    BY <1>7 DEF HoldsGroup, n
  <2>3. \A k \in 1 .. n : ids[k] \in 1 .. m
    BY <1>6
  <2> SUFFICES ASSUME NEW i
               PROVE  i \in ToSet(Shard) <=> \E g \in 1 .. m : i \in ToSet(new[g])
    OBVIOUS
  <2>4. ASSUME i \in ToSet(Shard)
        PROVE  \E g \in 1 .. m : i \in ToSet(new[g])
    <3>1. PICK k \in 1 .. n : Shard[k] = i
      BY <2>1, <2>4
    <3> QED
      BY <2>2, <2>3, <3>1
  <2>5. ASSUME NEW g \in 1 .. m, i \in ToSet(new[g])
        PROVE  i \in ToSet(Shard)
    BY <2>1, <2>2, <2>5
  <2> QED
    BY <2>4, <2>5
<1>17. \A i \in AllRows : i \in ToSet(Shard) <=> Home(i) = sh
  BY <1>1, <1>2, <1>3 DEF ShardsOK, Shard
<1>18. \A i \in AllRows : (\E p \in 1 .. np : i \in ToSet(parts[p])) <=> Home(i) < sh
  BY <1>1, <1>2 DEF PartsOK, np
<1>19. \A i \in AllRows : Home(i) \in Nat
  BY <1>2, GivenFacts
<1>20. \A g \in 1 .. m : \A i \in ToSet(new[g]) : i \in AllRows /\ Home(i) = sh
  <2>1. \A i \in ToSet(Shard) : i \in AllRows
    BY <1>3 DEF ToSet
  <2> QED
    BY <1>16, <1>17, <2>1
<1>21. \A p \in 1 .. np : \A i \in ToSet(parts[p]) : i \in AllRows /\ Home(i) < sh
  <2>1. parts \in Seq(Seq(AllRows))
    BY <1>2 DEF PartsOK
  <2>2. \A p \in 1 .. np : parts[p] \in Seq(AllRows)
    BY <2>1, ElementOfSeq DEF np
  <2>3. \A p \in 1 .. np : \A i \in ToSet(parts[p]) : i \in AllRows
    BY <2>2, LenProperties, ElementOfSeq DEF ToSet
  <2> QED
    BY <1>18, <2>3
<1>22. PartsOK'
  <2>1. ASSUME NEW p \in 1 .. (np + m)
        PROVE  Ascends(parts'[p]) /\ parts'[p] # <<>>
    <3>1. CASE p \in 1 .. np
      BY <1>2, <1>13, <3>1 DEF PartsOK, np
    <3>2. ASSUME NEW g \in 1 .. m, p = np + g
          PROVE  Ascends(parts'[p]) /\ parts'[p] # <<>>
      <4>1. HoldsGroup(new[g], Shard, ids, g) /\ parts'[p] = new[g]
        BY <1>7, <1>13, <3>2
      <4> QED
        BY <4>1 DEF HoldsGroup
    <3> QED
      BY <1>14, <3>1, <3>2
  <2>a. \A g \in 1 .. m, q \in 1 .. np : \A x : ~(x \in ToSet(new[g]) /\ x \in ToSet(parts[q]))
    <3>1. ~(sh < sh)
      BY <1>3
    <3> QED
      BY <1>20, <1>21, <3>1
  <2>2. ASSUME NEW p \in 1 .. (np + m), NEW q \in 1 .. (np + m), p # q
        PROVE  Disjoint(parts'[p], parts'[q])
    <3>1. CASE p \in 1 .. np /\ q \in 1 .. np
      BY <1>2, <1>13, <2>2, <3>1 DEF PartsOK, np
    <3>2. ASSUME NEW g \in 1 .. m, p = np + g, q \in 1 .. np
          PROVE  Disjoint(parts'[p], parts'[q])
      <4>1. parts'[p] = new[g] /\ parts'[q] = parts[q]
        BY <1>13, <3>2
      <4> QED
        BY <2>a, <3>2, <4>1 DEF Disjoint
    <3>3. ASSUME NEW g \in 1 .. m, q = np + g, p \in 1 .. np
          PROVE  Disjoint(parts'[p], parts'[q])
      <4>1. parts'[q] = new[g] /\ parts'[p] = parts[p]
        BY <1>13, <3>3
      <4> QED
        BY <2>a, <3>3, <4>1 DEF Disjoint
    <3>4. ASSUME NEW g \in 1 .. m, NEW h \in 1 .. m, p = np + g, q = np + h
          PROVE  Disjoint(parts'[p], parts'[q])
      <4>1. g # h
        BY <2>2, <3>4
      <4> QED
        BY <1>13, <1>15, <3>4, <4>1
    <3> QED
      BY <1>14, <3>1, <3>2, <3>3, <3>4
  <2>3. ASSUME NEW i \in AllRows
        PROVE  (\E p \in 1 .. (np + m) : i \in ToSet(parts'[p])) <=> Home(i) < sh + 1
    <3>1. (\E p \in 1 .. (np + m) : i \in ToSet(parts'[p]))
            <=> (\E p \in 1 .. np : i \in ToSet(parts[p])) \/ (\E g \in 1 .. m : i \in ToSet(new[g]))
      <4>1. \A p \in 1 .. np : p \in 1 .. (np + m)
        BY <1>6, <1>13
      <4>2. \A g \in 1 .. m : np + g \in 1 .. (np + m)
        BY <1>6, <1>13
      <4> QED
        BY <1>13, <1>14, <4>1, <4>2
    <3>2. Home(i) < sh + 1 <=> Home(i) < sh \/ Home(i) = sh
      BY <1>3, <1>19
    <3> QED
      BY <1>16, <1>17, <1>18, <3>1, <3>2
  <2>4. ASSUME Len(shards) = 1, NEW p \in 1 .. (np + m), NEW q \in 1 .. (np + m), p < q
        PROVE  parts'[p][1] < parts'[q][1]
    <3>1. sh = 1
      BY <1>3, <2>4
    <3>2. parts = <<>> /\ np = 0
      BY <1>2, <3>1 DEF PartsOK, np
    <3>3. \A k \in 1 .. m : parts'[k] = new[k]
      BY <1>13, <3>2
    <3>4. p \in 1 .. m /\ q \in 1 .. m
      BY <1>6, <3>2
    <3> QED
      BY <1>15, <2>4, <3>3, <3>4
  <2>5. sh' # 1
    BY <1>1, <1>3
  <2> QED
    BY <1>1, <1>8, <1>13, <2>1, <2>2, <2>3, <2>4, <2>5 DEF PartsOK
<1> QED
  BY <1>9, <1>10, <1>11, <1>12, <1>22 DEF IInv

LEMMA NothingKeeps ==
  ASSUME IInv, UNCHANGED vars
  PROVE  IInv'
<1>1. /\ given' = given /\ shards' = shards /\ parts' = parts /\ sh' = sh /\ r' = r
      /\ seen' = seen /\ ids' = ids /\ bounds' = bounds /\ cursor' = cursor
      /\ rows' = rows /\ pc' = pc
  BY DEF vars
<1>2. /\ AllRows' = AllRows /\ Shard' = Shard /\ KeyRange' = KeyRange
      /\ \A i : Key(i)' = Key(i) /\ (IntRow(i)' <=> IntRow(i))
  BY <1>1, KeysStay
<1>3. \A i : Home(i)' = Home(i)
  BY <1>1 DEF Home
<1>4. GivenOK' /\ ProgressOK' /\ ShardsOK' /\ PartsOK'
  BY <1>1, <1>2, <1>3 DEF IInv, GivenOK, ProgressOK, ShardsOK, PartsOK
<1>5. GroupsOK'
  BY <1>1, <1>2 DEF IInv, GroupsOK
<1>6. PathOK'
  BY <1>1, <1>2 DEF IInv, PathOK, ByInts, ByTexts
<1>7. PlacesOK'
  BY <1>1, <1>2 DEF IInv, PlacesOK
<1> QED
  BY <1>4, <1>5, <1>6, <1>7 DEF IInv

(* The invariants hold of every run. *)
THEOREM Grouped == Spec => []IInv
<1>1. Init => IInv
  BY InitHolds
<1>2. IInv /\ [Next]_vars => IInv'
  <2> SUFFICES ASSUME IInv, [Next]_vars
               PROVE  IInv'
    OBVIOUS
  <2>1. ASSUME Next
        PROVE  IInv'
    BY <2>1, RouteKeeps, RoutedKeeps, OpenKeeps, GroupByIntKeeps, FallBackKeeps,
       GroupByKeyKeeps, SingleKeeps, SizeKeeps, PlaceKeeps, ProduceKeeps DEF Next
  <2> QED
    BY <2>1, NothingKeeps
<1> QED
  BY <1>1, <1>2, PTL DEF Spec

(***************************************************************************)
(* The type invariant: every row has its place, and the cursor of a group  *)
(* (Partitions::from_ids) stays between its bounds.                        *)
(***************************************************************************)
THEOREM GroupingTyped == Spec => []TypeOK
<1>1. IInv => TypeOK
  <2> SUFFICES ASSUME IInv
               PROVE  TypeOK
    OBVIOUS
  <2>1. GivenOK /\ ProgressOK
    BY DEF IInv
  <2>2. pc \in {"split", "open", "single", "ints", "keys", "place"}
    BY <2>1 DEF ProgressOK, Grouping_
  <2>3. \A s \in DOMAIN shards : ToSet(shards[s]) \subseteq AllRows
    <3>1. DOMAIN shards = 1 .. Len(shards)
      BY <2>1, LenProperties DEF GivenOK
    <3> QED
      BY <2>1, <3>1, GivenFacts DEF ToSet
  <2>4. ASSUME pc \in {"ints", "keys"}
        PROVE  Len(ids) = r - 1 /\ ToSet(ids) = DOMAIN seen
    <3> DEFINE n == r - 1
    <3>1. Known(KeyRange, seen, ids, n)
      BY <2>4 DEF IInv, GroupsOK, Grouping_
    <3>2. n \in Nat
      BY <2>1 DEF ProgressOK
    <3>3. Len(ids) = n
      BY <3>1 DEF Known
    <3> HIDE DEF n
    <3>4. Numbered(seen, ids, n)
      BY <3>1, <3>2, IdsRange
    <3>5. ToSet(ids) = DOMAIN seen
      BY <3>4 DEF Numbered, Groups, ToSet
    <3> QED
      BY <3>3, <3>5 DEF n
  <2>5. ASSUME pc = "place"
        PROVE  /\ Len(rows) = Len(Shard)
               /\ \A g \in DOMAIN seen : cursor[g] \in bounds[g] .. bounds[g + 1]
    <3> DEFINE n == Len(Shard)
               m == Len(seen)
    <3>1. sh <= Len(shards) /\ r \in Nat \ {0} /\ r <= Len(Shard) + 1
      BY <2>1, <2>5 DEF ProgressOK, Grouping_
    <3>2. n \in Nat
      BY <2>1, <3>1, ShardFacts
    <3>3. Known(KeyRange, seen, ids, n)
      BY <2>5 DEF IInv, GroupsOK, Grouping_
    <3>4. m \in Nat /\ DOMAIN seen = 1 .. m /\ ids \in [1 .. n -> 1 .. m]
      BY <3>2, <3>3, IdsRange DEF Numbered
    <3>5. /\ bounds = [g \in 1 .. (m + 1) |-> Lower(ids, n, g)]
          /\ cursor = [g \in 1 .. m |-> Lower(ids, n, g) + Within(ids, r - 1, g)]
          /\ rows \in [1 .. n -> Nat]
      BY <2>5 DEF IInv, PlacesOK
    <3> HIDE DEF n, m
    <3>6. Len(rows) = n
      BY <3>2, <3>5
    <3>7. ASSUME NEW g \in 1 .. m
          PROVE  cursor[g] \in bounds[g] .. bounds[g + 1]
      <4>1. g \in 1 .. (m + 1) /\ g + 1 \in 1 .. (m + 1) /\ r - 1 \in 0 .. n /\ r - 1 \in Nat
            /\ g \in Int /\ g + 1 \in Int
        BY <3>1, <3>2, <3>4 DEF n
      <4>2. /\ Lower(ids, n, g) \in Nat /\ Lower(ids, n, g + 1) \in Nat
            /\ Within(ids, r - 1, g) \in Nat
        BY <3>2, <3>4, <4>1, LowerGrows
      <4>3. Lower(ids, n, g) + Within(ids, r - 1, g) <= Lower(ids, n, g + 1)
        BY <3>2, <3>4, <4>1, GroupWidth
      <4>4. /\ bounds[g] = Lower(ids, n, g) /\ bounds[g + 1] = Lower(ids, n, g + 1)
            /\ cursor[g] = Lower(ids, n, g) + Within(ids, r - 1, g)
        BY <3>5, <4>1
      <4> QED
        BY <4>2, <4>3, <4>4
    <3> QED
      BY <3>4, <3>6, <3>7 DEF n
  <2> QED
    BY <2>2, <2>3, <2>4, <2>5 DEF TypeOK
<1> QED
  BY <1>1, Grouped, PTL

(***************************************************************************)
(* No row is lost, doubled or overwritten by the counting placement, and   *)
(* each partition keeps the order of the input, on every path of           *)
(* Plan::partitions and for every split.                                   *)
(***************************************************************************)
THEOREM RowsOnce == Spec => []EachRowOnce
<1>1. IInv => EachRowOnce
  <2> SUFFICES ASSUME IInv
               PROVE  EachRowOnce
    OBVIOUS
  <2>1. GivenOK /\ ProgressOK /\ PartsOK
    BY DEF IInv
  <2>2. /\ DOMAIN parts = 1 .. Len(parts)
        /\ \A p \in DOMAIN parts : parts[p] \in Seq(AllRows) /\ DOMAIN parts[p] = 1 .. Len(parts[p])
    <3>1. parts \in Seq(Seq(AllRows)) /\ DOMAIN parts = 1 .. Len(parts)
      BY <2>1, LenProperties DEF PartsOK
    <3>2. \A p \in DOMAIN parts : parts[p] \in Seq(AllRows)
      BY <3>1, ElementOfSeq
    <3> QED
      BY <3>1, <3>2, LenProperties
  <2>3. \A p \in DOMAIN parts : \A i, j \in DOMAIN parts[p] : i < j => parts[p][i] < parts[p][j]
    BY <2>1, <2>2 DEF PartsOK, Ascends
  <2>4. \A p, q \in DOMAIN parts : p # q => ToSet(parts[p]) \cap ToSet(parts[q]) = {}
    <3> SUFFICES ASSUME NEW p \in DOMAIN parts, NEW q \in DOMAIN parts, p # q
                 PROVE  ToSet(parts[p]) \cap ToSet(parts[q]) = {}
      OBVIOUS
    <3>1. Disjoint(parts[p], parts[q])
      BY <2>1, <2>2 DEF PartsOK
    <3> QED
      BY <3>1 DEF Disjoint
  <2>5. ASSUME Complete
        PROVE  UNION Classes = AllRows
    <3>1. pc # "split" /\ \A i \in AllRows : Home(i) < sh
      <4>1. pc = "open" /\ sh > Len(shards) /\ Len(shards) \in Nat /\ sh \in Nat
        BY <2>1, <2>5 DEF Complete, GivenOK, ProgressOK
      <4>2. \A i \in AllRows : Home(i) \in 1 .. Len(shards)
        BY <2>1, GivenFacts
      <4> QED
        BY <4>1, <4>2
    <3>2. \A i \in AllRows : \E p \in DOMAIN parts : i \in ToSet(parts[p])
      BY <2>1, <2>2, <3>1 DEF PartsOK
    <3>3. \A p \in DOMAIN parts : \A i \in ToSet(parts[p]) : i \in AllRows
      BY <2>2, ElementOfSeq DEF ToSet
    <3> QED
      BY <3>2, <3>3 DEF Classes
  <2>6. ASSUME Complete, Len(shards) = 1
        PROVE  \A p, q \in DOMAIN parts : p < q => parts[p][1] < parts[q][1]
    BY <2>1, <2>2, <2>6 DEF PartsOK
  <2> QED
    BY <2>3, <2>4, <2>5, <2>6 DEF EachRowOnce
<1> QED
  BY <1>1, Grouped, PTL

-----------------------------------------------------------------------------
(* Keys.                                                                    *)

(* Different integers are written differently, and by no other character. *)
LEMMA DigitsApart ==
  /\ \A x \in Int : Digits(x) \in Nat /\ Digits(x) >= 1000
  /\ \A x, y \in Int : Digits(x) = Digits(y) => x = y
BY DEF Digits

(* A raw integer of 64 bits is the cell's, up to a multiple of 2^64. *)
LEMMA TurnApart ==
  ASSUME NEW h \in Nat \ {0}, NEW m \in Nat, m = 2 * h
  PROVE  /\ \A x, y \in (-h) .. (h - 1) : (x + h) % m = (y + h) % m => x = y
         /\ \A x, y \in 0 .. (m - 1) : (x + h) % m = (y + h) % m => x = y
<1>1. \A x \in (-h) .. (h - 1) : (x + h) % m = x + h
  OBVIOUS
<1>2. ASSUME NEW x \in 0 .. (m - 1)
      PROVE  (x + h) % m = IF x < h THEN x + h ELSE x - h
  <2>1. CASE x < h
    BY <2>1
  <2>2. CASE ~(x < h)
    <3>1. x + h = m + (x - h) /\ x - h \in 0 .. (m - 1)
      BY <2>2
    <3> QED
      BY <2>2, <3>1
  <2> QED
    BY <2>1, <2>2
<1> QED
  BY <1>1, <1>2

LEMMA WrapApart ==
  /\ I64 \in SUBSET Int /\ U64 \in SUBSET Int
  /\ \A x, y \in I64 : Wrap(x, Bits64) = Wrap(y, Bits64) => x = y
  /\ \A x, y \in U64 : Wrap(x, Bits64) = Wrap(y, Bits64) => x = y
<1> DEFINE h == 2^(Bits64 - 1)
           m == 2^Bits64
<1>1. h \in Nat \ {0} /\ m \in Nat /\ m = 2 * h
  BY WidthAssumption
<1>2. I64 = (-h) .. (h - 1) /\ U64 = 0 .. (m - 1)
  BY DEF I64, U64, Signed
<1>3. \A x : Wrap(x, Bits64) = ((x + h) % m) - h
  BY DEF Wrap
<1> HIDE DEF h, m
<1>4. /\ \A x, y \in (-h) .. (h - 1) : (x + h) % m = (y + h) % m => x = y
      /\ \A x, y \in 0 .. (m - 1) : (x + h) % m = (y + h) % m => x = y
  BY <1>1, TurnApart
<1>5. \A x \in Int : (x + h) % m \in Int
  BY <1>1
<1>6. \A p, q \in Int : p - h = q - h => p = q
  BY <1>1
<1>7. I64 \in SUBSET Int /\ U64 \in SUBSET Int
  BY <1>2
<1>8. ASSUME NEW x \in Int, NEW y \in Int, Wrap(x, Bits64) = Wrap(y, Bits64)
      PROVE  (x + h) % m = (y + h) % m
  BY <1>3, <1>5, <1>6, <1>8
<1>9. \A x, y \in I64 : Wrap(x, Bits64) = Wrap(y, Bits64) => x = y
  BY <1>2, <1>4, <1>7, <1>8
<1>10. \A x, y \in U64 : Wrap(x, Bits64) = Wrap(y, Bits64) => x = y
  BY <1>2, <1>4, <1>7, <1>8
<1> QED
  BY <1>7, <1>9, <1>10

(* How a key cell that is not NULL is written. *)
IsRendered(v, ty) ==
  \/ ty.k \in {"Int64", "UInt64"} /\ v.k \in {"Int", "UInt", "HugeInt"} /\ v.n \in Int
       /\ v = [k |-> v.k, n |-> v.n] /\ KeyPart(v) = <<Digits(v.n)>>
  \/ ty.k = "Date" /\ v = DateV(v.d) /\ v.d \in Int /\ KeyPart(v) = <<4, Digits(v.d)>>
  \/ ty.k = "Timestamp" /\ v = TimestampV(v.t, ty.unit) /\ v.t \in Int /\ KeyPart(v) = <<5, Digits(v.t)>>
  \/ ty.k = "Time" /\ v = TimeV(v.t, ty.unit) /\ v.t \in Int /\ KeyPart(v) = <<6, Digits(v.t)>>
  \/ ty.k = "Boolean" /\ \/ v = True /\ KeyPart(v) = << 2 >>
                         \/ v = False /\ KeyPart(v) = << 3 >>
  \/ ty.k = "Varchar" /\ v = StrV(v.s) /\ v.s \in Seq(PlainText) /\ KeyPart(v) = v.s
  \/ ty.k = "Double" /\
       (\/ v = NaN /\ KeyPart(v) = << 7 >>
        \/ v = [k |-> "Double", cls |-> "num", h |-> v.h] /\ v.h \in Int
             /\ KeyPart(v) = (IF v.h % 2 = 1 THEN <<Digits(v.h \div 2), 9, Digits(5)>>
                              ELSE <<Digits(v.h \div 2)>>))
  \/ ty.k = "Decimal" /\ v = DecimalV(v.u, ty.sc) /\ v.u \in Int /\ ty.sc \in Int
       /\ KeyPart(v) = <<Digits(v.u), 9, Digits(ty.sc)>>
  \/ ty.k = "Interval" /\ v = IntervalV(v.mo, v.d, v.ns) /\ v.mo \in Int /\ v.d \in Int /\ v.ns \in Int
       /\ KeyPart(v) = <<Digits(v.mo), 13, Digits(v.d), 13, Digits(v.ns)>>

LEMMA Rendered ==
  ASSUME NEW ty, NEW v, Declared(v, ty), v # Null
  PROVE  IsRendered(v, ty)
<1>0. /\ \A x \in I32 \cup I64 \cup I128 \cup U64 : x \in Int
      /\ KeyPart(v) = RenderScalar(v)
  BY DEF I32, I64, I128, U64, Signed, KeyPart
<1>1. CASE ty.k \in {"Int64", "UInt64"} /\ v.k \in DOMAIN Width
             /\ v = [k |-> v.k, n |-> v.n] /\ v.n \in Width[v.k]
  <2>1. v.k \in {"Int", "UInt", "HugeInt"} /\ v.n \in Int
    BY <1>0, <1>1 DEF Width
  <2>2. RenderScalar(v) = <<Digits(v.n)>>
    BY <2>1 DEF RenderScalar, IsInteger
  <2> QED
    BY <1>0, <1>1, <2>1, <2>2 DEF IsRendered
<1>2. CASE ty.k = "Date" /\ v.k = "Date" /\ v = DateV(v.d) /\ v.d \in I32
  <2>1. RenderScalar(v) = <<4, Digits(v.d)>>
    BY <1>2 DEF RenderScalar, IsInteger, Word
  <2> QED
    BY <1>0, <1>2, <2>1 DEF IsRendered
<1>3. CASE ty.k = "Timestamp" /\ v.k = "Timestamp" /\ v = TimestampV(v.t, ty.unit) /\ v.t \in I64
  <2>1. RenderScalar(v) = <<5, Digits(v.t)>>
    BY <1>3 DEF RenderScalar, IsInteger, Word
  <2> QED
    BY <1>0, <1>3, <2>1 DEF IsRendered
<1>4. CASE ty.k = "Time" /\ v.k = "Time" /\ v = TimeV(v.t, ty.unit) /\ v.t \in I64
  <2>1. RenderScalar(v) = <<6, Digits(v.t)>>
    BY <1>4 DEF RenderScalar, IsInteger, Word
  <2> QED
    BY <1>0, <1>4, <2>1 DEF IsRendered
<1>5. CASE ty.k = "Boolean" /\ v \in {True, False}
  <2>1. ASSUME v = True
        PROVE  RenderScalar(v) = << 2 >>
    <3>1. v.k = "Bool" /\ v.b = TRUE
      BY <2>1 DEF BoolV, True
    <3> QED
      BY <3>1 DEF RenderScalar, IsInteger, Word
  <2>2. ASSUME v = False
        PROVE  RenderScalar(v) = << 3 >>
    <3>1. v.k = "Bool" /\ v.b = FALSE
      BY <2>2 DEF BoolV, False
    <3> QED
      BY <3>1 DEF RenderScalar, IsInteger, Word
  <2> QED
    BY <1>0, <1>5, <2>1, <2>2 DEF IsRendered
<1>6. CASE ty.k = "Varchar" /\ v.k = "Str" /\ v = StrV(v.s) /\ v.s \in Seq(PlainText)
  <2>1. RenderScalar(v) = v.s
    BY <1>6 DEF RenderScalar, IsInteger
  <2> QED
    BY <1>0, <1>6, <2>1 DEF IsRendered
<1>7. CASE ty.k = "Double" /\ v.k = "Double" /\ v = NaN
  <2>1. RenderScalar(v) = << 7 >>
    BY <1>7 DEF RenderScalar, IsInteger, Word, NaN, IsNaN
  <2> QED
    BY <1>0, <1>7, <2>1 DEF IsRendered
<1>8. CASE ty.k = "Double" /\ v = [k |-> "Double", cls |-> "num", h |-> v.h] /\ v.h \in Int
  <2>1. v.k = "Double" /\ v.cls = "num"
    BY <1>8
  <2>2. RenderScalar(v) = IF v.h % 2 = 1 THEN <<Digits(v.h \div 2), 9, Digits(5)>>
                          ELSE <<Digits(v.h \div 2)>>
    BY <2>1 DEF RenderScalar, IsInteger, Word, IsNaN
  <2> QED
    BY <1>0, <1>8, <2>2 DEF IsRendered
<1>9. CASE ty.k = "Decimal" /\ v.k = "Decimal" /\ v = DecimalV(v.u, ty.sc) /\ v.u \in I128
             /\ ty.sc \in Int
  <2>1. RenderScalar(v) = <<Digits(v.u), 9, Digits(ty.sc)>>
    <3>1. v.sc = ty.sc
      BY <1>9 DEF DecimalV
    <3> QED
      BY <1>9, <3>1 DEF RenderScalar, IsInteger, Word
  <2> QED
    BY <1>0, <1>9, <2>1 DEF IsRendered
<1>10. CASE ty.k = "Interval" /\ v.k = "Interval" /\ v = IntervalV(v.mo, v.d, v.ns)
              /\ v.mo \in I32 /\ v.d \in I32 /\ v.ns \in I64
  <2>1. RenderScalar(v) = <<Digits(v.mo), 13, Digits(v.d), 13, Digits(v.ns)>>
    BY <1>10 DEF RenderScalar, IsInteger, Word
  <2> QED
    BY <1>0, <1>10, <2>1 DEF IsRendered
<1> QED
  BY <1>1, <1>2, <1>3, <1>4, <1>5, <1>6, <1>7, <1>8, <1>9, <1>10 DEF Declared

(* A string compares equal with itself alone. *)
LEMMA StringsApart ==
  ASSUME NEW s \in Seq(PlainText), NEW t \in Seq(PlainText)
  PROVE  StrOrd(s, t) = "Equal" => s = t
<1> DEFINE D == {i \in DOMAIN s \cap DOMAIN t : s[i] # t[i]}
<1>1. /\ Len(s) \in Nat /\ DOMAIN s = 1 .. Len(s) /\ s = [i \in DOMAIN s |-> s[i]]
      /\ Len(t) \in Nat /\ DOMAIN t = 1 .. Len(t) /\ t = [i \in DOMAIN t |-> t[i]]
  BY LenProperties
<1>2. CASE D = {}
  <2>1. StrOrd(s, t) = Ord(Len(s), Len(t))
    BY <1>2 DEF StrOrd
  <2>2. Ord(Len(s), Len(t)) = "Equal" => Len(s) = Len(t)
    BY DEF Ord
  <2>3. Len(s) = Len(t) => s = t
    BY <1>1, <1>2
  <2> QED
    BY <2>1, <2>2, <2>3
<1>3. CASE D # {}
  <2>1. D \in SUBSET Nat
    BY <1>1
  <2>2. Min(D) \in D
    <3> HIDE DEF D
    <3> QED
      BY <1>3, <2>1, MinOfSet
  <2>3. s[Min(D)] # t[Min(D)] /\ StrOrd(s, t) = Ord(s[Min(D)], t[Min(D)])
    BY <1>3, <2>2 DEF StrOrd
  <2>4. Ord(s[Min(D)], t[Min(D)]) # "Equal"
    <3> HIDE DEF D
    <3> QED
      BY <2>3 DEF Ord
  <2> QED
    BY <2>3, <2>4
<1> QED
  BY <1>2, <1>3

(* A NULL is the key part of a NULL alone, and is the same as no other cell. *)
LEMMA NullApart ==
  ASSUME NEW ty, NEW v, Declared(v, ty), v # Null
  PROVE  /\ KeyPart(v) # KeyPart(Null)
         /\ ~SameValue(v, Null) /\ ~SameValue(Null, v)
<1>1. IsRendered(v, ty)
  BY Rendered
<1>2. KeyPart(Null) = <<14, 1>>
  BY DEF KeyPart, Word
<1>3. Compare(v, Null) = "None" /\ Compare(Null, v) = "None"
  BY DEF Compare
<1>4. KeyPart(v) # <<14, 1>>
  <2>1. \A x \in Int : Digits(x) # 14
    BY DigitsApart
  <2>2. ASSUME NEW s \in Seq(PlainText)
        PROVE  s # <<14, 1>>
    <3> SUFFICES ASSUME s = <<14, 1>> PROVE FALSE
      OBVIOUS
    <3>1. s[1] \in PlainText
      BY ElementOfSeq
    <3> QED
      BY <3>1 DEF PlainText, Word
  <2>3. \A x \in Int : x \div 2 \in Int
    OBVIOUS
  <2>4. \A a, b, c, d, e :
          /\ <<a>> # <<14, 1>> /\ <<a, b, c>> # <<14, 1>> /\ <<a, b, c, d, e>> # <<14, 1>>
          /\ a # 14 => <<a, b>> # <<14, 1>>
    OBVIOUS
  <2>5. CASE ty.k = "Double"
    <3>1. \/ KeyPart(v) = << 7 >>
          \/ KeyPart(v) = <<Digits(v.h \div 2), 9, Digits(5)>>
          \/ KeyPart(v) = <<Digits(v.h \div 2)>>
      BY <1>1, <2>5 DEF IsRendered
    <3> QED
      BY <2>4, <3>1
  <2>6. CASE ty.k = "Varchar"
    BY <1>1, <2>2, <2>6 DEF IsRendered
  <2>7. CASE ty.k \in {"Int64", "UInt64", "Boolean"}
    <3>1. \E a : KeyPart(v) = <<a>>
      BY <1>1, <2>7 DEF IsRendered
    <3> QED
      BY <2>4, <3>1
  <2>8. CASE ty.k \in {"Date", "Timestamp", "Time"}
    <3>1. \E a, b : a # 14 /\ KeyPart(v) = <<a, b>>
      BY <1>1, <2>8 DEF IsRendered
    <3> QED
      BY <2>4, <3>1
  <2>9. CASE ty.k = "Decimal"
    <3>1. \E a, b, c : KeyPart(v) = <<a, b, c>>
      BY <1>1, <2>9 DEF IsRendered
    <3> QED
      BY <2>4, <3>1
  <2>10. CASE ty.k = "Interval"
    <3>1. \E a, b, c, d, e : KeyPart(v) = <<a, b, c, d, e>>
      BY <1>1, <2>10 DEF IsRendered
    <3> QED
      BY <2>4, <3>1
  <2> QED
    BY <1>1, <2>5, <2>6, <2>7, <2>8, <2>9, <2>10 DEF IsRendered
<1> QED
  BY <1>2, <1>3, <1>4 DEF SameValue

(* Two cells of a column are written alike when SQL does not tell them apart. *)
LEMMA PartsMean ==
  ASSUME NEW ty, NEW v, NEW w, Declared(v, ty), Declared(w, ty),
         ty.k \in {"Decimal", "Interval"} /\ SameValue(v, w) => v = w
  PROVE  KeyPart(v) = KeyPart(w) <=> SameValue(v, w)
<1>1. CASE v = Null \/ w = Null
  <2>1. CASE v = Null /\ w = Null
    BY <2>1 DEF SameValue
  <2>2. CASE v = Null /\ w # Null
    BY <2>2, NullApart
  <2>3. CASE v # Null /\ w = Null
    BY <2>3, NullApart
  <2> QED
    BY <1>1, <2>1, <2>2, <2>3
<1>2. CASE v # Null /\ w # Null
  <2>1. IsRendered(v, ty) /\ IsRendered(w, ty)
    BY <1>2, Rendered
  <2>2. v = w => KeyPart(v) = KeyPart(w) /\ SameValue(v, w)
    BY DEF SameValue
  <2>d. \A x, y \in Int : Digits(x) = Digits(y) => x = y
    BY DigitsApart
  <2>o. \A x, y \in Int : Ord(x, y) = "Equal" <=> x = y
    BY DEF Ord
  <2>3. CASE ty.k \in {"Int64", "UInt64"}
    <3>1. /\ v.k \in {"Int", "UInt", "HugeInt"} /\ v.n \in Int /\ KeyPart(v) = <<Digits(v.n)>>
          /\ w.k \in {"Int", "UInt", "HugeInt"} /\ w.n \in Int /\ KeyPart(w) = <<Digits(w.n)>>
      BY <2>1, <2>3 DEF IsRendered
    <3>2. Compare(v, w) = Ord(v.n, w.n)
      BY <1>2, <3>1 DEF Compare, CmpInts, IsInteger
    <3>3. KeyPart(v) = KeyPart(w) <=> v.n = w.n
      BY <2>d, <3>1
    <3> QED
      BY <2>2, <2>o, <3>1, <3>2, <3>3 DEF SameValue
  <2>4. CASE ty.k = "Date"
    <3>1. /\ v = DateV(v.d) /\ v.d \in Int /\ KeyPart(v) = <<4, Digits(v.d)>>
          /\ w = DateV(w.d) /\ w.d \in Int /\ KeyPart(w) = <<4, Digits(w.d)>>
      BY <2>1, <2>4 DEF IsRendered
    <3>2. v.k = "Date" /\ w.k = "Date" /\ (v.d = w.d => v = w)
      BY <3>1 DEF DateV
    <3>3. Compare(v, w) = Ord(v.d, w.d)
      BY <1>2, <3>2 DEF Compare, IsInteger
    <3>4. KeyPart(v) = KeyPart(w) => v.d = w.d
      BY <2>d, <3>1
    <3> QED
      BY <2>2, <2>o, <3>1, <3>2, <3>3, <3>4 DEF SameValue
  <2>5. CASE ty.k = "Timestamp"
    <3>1. /\ v = TimestampV(v.t, ty.unit) /\ v.t \in Int /\ KeyPart(v) = <<5, Digits(v.t)>>
          /\ w = TimestampV(w.t, ty.unit) /\ w.t \in Int /\ KeyPart(w) = <<5, Digits(w.t)>>
      BY <2>1, <2>5 DEF IsRendered
    <3>2. v.k = "Timestamp" /\ w.k = "Timestamp" /\ v.unit = w.unit /\ (v.t = w.t => v = w)
      BY <3>1 DEF TimestampV
    <3>3. Compare(v, w) = Ord(v.t, w.t)
      BY <1>2, <3>2 DEF Compare, IsInteger
    <3>4. KeyPart(v) = KeyPart(w) => v.t = w.t
      BY <2>d, <3>1
    <3> QED
      BY <2>2, <2>o, <3>1, <3>2, <3>3, <3>4 DEF SameValue
  <2>6. CASE ty.k = "Time"
    <3>1. /\ v = TimeV(v.t, ty.unit) /\ v.t \in Int /\ KeyPart(v) = <<6, Digits(v.t)>>
          /\ w = TimeV(w.t, ty.unit) /\ w.t \in Int /\ KeyPart(w) = <<6, Digits(w.t)>>
      BY <2>1, <2>6 DEF IsRendered
    <3>2. v.k = "Time" /\ w.k = "Time" /\ v.unit = w.unit /\ (v.t = w.t => v = w)
      BY <3>1 DEF TimeV
    <3>3. Compare(v, w) = Ord(v.t, w.t)
      BY <1>2, <3>2 DEF Compare, IsInteger
    <3>4. KeyPart(v) = KeyPart(w) => v.t = w.t
      BY <2>d, <3>1
    <3> QED
      BY <2>2, <2>o, <3>1, <3>2, <3>3, <3>4 DEF SameValue
  <2>7. CASE ty.k = "Boolean"
    <3>1. /\ \/ v = True /\ KeyPart(v) = << 2 >>
             \/ v = False /\ KeyPart(v) = << 3 >>
          /\ \/ w = True /\ KeyPart(w) = << 2 >>
             \/ w = False /\ KeyPart(w) = << 3 >>
      BY <2>1, <2>7 DEF IsRendered
    <3>2. Compare(True, False) # "Equal" /\ Compare(False, True) # "Equal"
      BY DEF Compare, IsInteger, True, False, BoolV, Null, Ord
    <3>3. << 2 >> # << 3 >>
      OBVIOUS
    <3>4. SameValue(v, w) => v = w
      BY <3>1, <3>2 DEF SameValue
    <3>5. KeyPart(v) = KeyPart(w) => v = w
      BY <3>1, <3>3
    <3> QED
      BY <2>2, <3>4, <3>5
  <2>8. CASE ty.k = "Varchar"
    <3>1. /\ v = StrV(v.s) /\ v.s \in Seq(PlainText) /\ KeyPart(v) = v.s
          /\ w = StrV(w.s) /\ w.s \in Seq(PlainText) /\ KeyPart(w) = w.s
      BY <2>1, <2>8 DEF IsRendered
    <3>2. v.k = "Str" /\ w.k = "Str" /\ (v.s = w.s => v = w)
      BY <3>1 DEF StrV
    <3>3. Compare(v, w) = StrOrd(v.s, w.s)
      BY <1>2, <3>2 DEF Compare, IsInteger
    <3>4. StrOrd(v.s, w.s) = "Equal" => v.s = w.s
      BY <3>1, StringsApart
    <3> QED
      BY <2>2, <3>1, <3>2, <3>3, <3>4 DEF SameValue
  <2>9. CASE ty.k = "Double"
    <3> DEFINE IsNum(x) == /\ x = [k |-> "Double", cls |-> "num", h |-> x.h] /\ x.h \in Int
                           /\ KeyPart(x) = (IF x.h % 2 = 1 THEN <<Digits(x.h \div 2), 9, Digits(5)>>
                                            ELSE <<Digits(x.h \div 2)>>)
    <3>1. /\ (v = NaN /\ KeyPart(v) = << 7 >>) \/ IsNum(v)
          /\ (w = NaN /\ KeyPart(w) = << 7 >>) \/ IsNum(w)
      BY <2>1, <2>9 DEF IsRendered
    <3>2. ASSUME NEW x, NEW y, IsNum(x), y = NaN, KeyPart(y) = << 7 >>
          PROVE  KeyPart(x) # KeyPart(y) /\ ~SameValue(x, y) /\ ~SameValue(y, x)
      <4>1. x.k = "Double" /\ x.cls = "num" /\ y.k = "Double" /\ y.cls = "nan" /\ IsNaN(y)
        BY <3>2 DEF NaN, IsNaN
      <4>2. Compare(x, y) = "None" /\ Compare(y, x) = "None"
        BY <4>1 DEF Compare, IsInteger, AsF64, PartialCmp, Null
      <4>3. Digits(x.h \div 2) # 7
        BY <3>2, DigitsApart
      <4> QED
        BY <3>2, <4>1, <4>2, <4>3 DEF SameValue
    <3>3. ASSUME IsNum(v), IsNum(w)
          PROVE  KeyPart(v) = KeyPart(w) <=> SameValue(v, w)
      <4>1. v.k = "Double" /\ v.cls = "num" /\ w.k = "Double" /\ w.cls = "num" /\ (v.h = w.h => v = w)
        BY <3>3
      <4>2. Compare(v, w) = Ord(v.h, w.h)
        BY <4>1 DEF Compare, IsInteger, AsF64, PartialCmp, Null, IsNaN
      <4>3. ASSUME KeyPart(v) = KeyPart(w)
            PROVE  v.h = w.h
        <5>1. v.h \div 2 \in Int /\ w.h \div 2 \in Int
          BY <3>3
        <5>2. Digits(v.h \div 2) = Digits(w.h \div 2) /\ (v.h % 2 = 1 <=> w.h % 2 = 1)
          BY <3>3, <4>3
        <5>3. v.h \div 2 = w.h \div 2
          BY <2>d, <5>1, <5>2
        <5> QED
          BY <3>3, <5>2, <5>3
      <4> QED
        BY <2>2, <2>o, <3>3, <4>1, <4>2, <4>3 DEF SameValue
    <3> HIDE DEF IsNum
    <3> QED
      BY <2>2, <3>1, <3>2, <3>3
  <2>10. CASE ty.k = "Decimal"
    <3>1. /\ v = DecimalV(v.u, ty.sc) /\ v.u \in Int /\ KeyPart(v) = <<Digits(v.u), 9, Digits(ty.sc)>>
          /\ w = DecimalV(w.u, ty.sc) /\ w.u \in Int /\ KeyPart(w) = <<Digits(w.u), 9, Digits(ty.sc)>>
      BY <2>1, <2>10 DEF IsRendered
    <3>2. KeyPart(v) = KeyPart(w) => v.u = w.u
      BY <2>d, <3>1
    <3> QED
      BY <2>2, <2>10, <3>1, <3>2
  <2>11. CASE ty.k = "Interval"
    <3>1. /\ v = IntervalV(v.mo, v.d, v.ns) /\ v.mo \in Int /\ v.d \in Int /\ v.ns \in Int
          /\ KeyPart(v) = <<Digits(v.mo), 13, Digits(v.d), 13, Digits(v.ns)>>
          /\ w = IntervalV(w.mo, w.d, w.ns) /\ w.mo \in Int /\ w.d \in Int /\ w.ns \in Int
          /\ KeyPart(w) = <<Digits(w.mo), 13, Digits(w.d), 13, Digits(w.ns)>>
      BY <2>1, <2>11 DEF IsRendered
    <3>2. KeyPart(v) = KeyPart(w) => v.mo = w.mo /\ v.d = w.d /\ v.ns = w.ns
      BY <2>d, <3>1
    <3> QED
      BY <2>2, <2>11, <3>1, <3>2
  <2> QED
    BY <2>1, <2>3, <2>4, <2>5, <2>6, <2>7, <2>8, <2>9, <2>10, <2>11 DEF IsRendered
<1> QED
  BY <1>1, <1>2

(* What is written of a cell has no separator in it. *)
LEMMA PartsPlain ==
  ASSUME NEW ty, NEW v, Declared(v, ty)
  PROVE  KeyPart(v) \in Seq(Nat \ {15})
<1>1. \A x \in Int : Digits(x) \in Nat \ {15}
  BY DigitsApart
<1>2. CASE v = Null
  <2>1. KeyPart(v) = <<14, 1>>
    BY <1>2 DEF KeyPart, Word
  <2> QED
    BY <2>1
<1>3. CASE v # Null
  <2>1. IsRendered(v, ty)
    BY <1>3, Rendered
  <2>2. Seq(PlainText) \in SUBSET Seq(Nat \ {15})
    <3>1. PlainText \in SUBSET (Nat \ {15})
      BY DEF PlainText, Word
    <3> QED
      BY <3>1, SeqMonotonic
  <2>3. \A x \in Int : x \div 2 \in Int
    OBVIOUS
  <2>4. \A a, b, c \in Nat \ {15} :
          /\ <<a>> \in Seq(Nat \ {15}) /\ <<a, b>> \in Seq(Nat \ {15})
          /\ <<a, b, c>> \in Seq(Nat \ {15})
    OBVIOUS
  <2>5. \A a, b, c, d, e \in Nat \ {15} : <<a, b, c, d, e>> \in Seq(Nat \ {15})
    OBVIOUS
  <2>7. CASE ty.k = "Double"
    <3>1. \/ KeyPart(v) = << 7 >>
          \/ v.h \in Int /\ KeyPart(v) = <<Digits(v.h \div 2), 9, Digits(5)>>
          \/ v.h \in Int /\ KeyPart(v) = <<Digits(v.h \div 2)>>
      BY <2>1, <2>7 DEF IsRendered
    <3>2. v.h \in Int => Digits(v.h \div 2) \in Nat \ {15}
      BY <1>1, <2>3
    <3>3. Digits(5) \in Nat \ {15} /\ 7 \in Nat \ {15} /\ 9 \in Nat \ {15}
      BY <1>1
    <3> QED
      BY <2>4, <3>1, <3>2, <3>3
  <2>8. CASE ty.k = "Interval"
    <3>1. v.mo \in Int /\ v.d \in Int /\ v.ns \in Int
          /\ KeyPart(v) = <<Digits(v.mo), 13, Digits(v.d), 13, Digits(v.ns)>>
      BY <2>1, <2>8 DEF IsRendered
    <3>2. Digits(v.mo) \in Nat \ {15} /\ Digits(v.d) \in Nat \ {15} /\ Digits(v.ns) \in Nat \ {15}
          /\ 13 \in Nat \ {15}
      BY <1>1, <3>1
    <3> QED
      BY <2>5, <3>1, <3>2
  <2>9. CASE ty.k = "Varchar"
    BY <2>1, <2>2, <2>9 DEF IsRendered
  <2>10. CASE ty.k = "Decimal"
    <3>1. v.u \in Int /\ ty.sc \in Int /\ KeyPart(v) = <<Digits(v.u), 9, Digits(ty.sc)>>
      BY <2>1, <2>10 DEF IsRendered
    <3>2. Digits(v.u) \in Nat \ {15} /\ Digits(ty.sc) \in Nat \ {15} /\ 9 \in Nat \ {15}
      BY <1>1, <3>1
    <3> QED
      BY <2>4, <3>1, <3>2
  <2>11. CASE ty.k \in {"Int64", "UInt64"}
    <3>1. v.n \in Int /\ KeyPart(v) = <<Digits(v.n)>>
      BY <2>1, <2>11 DEF IsRendered
    <3> QED
      BY <1>1, <2>4, <3>1
  <2>12. CASE ty.k = "Date"
    <3>1. v.d \in Int /\ KeyPart(v) = <<4, Digits(v.d)>> /\ 4 \in Nat \ {15}
      BY <2>1, <2>12 DEF IsRendered
    <3> QED
      BY <1>1, <2>4, <3>1
  <2>13. CASE ty.k \in {"Timestamp", "Time"}
    <3>1. v.t \in Int /\ (KeyPart(v) = <<5, Digits(v.t)>> \/ KeyPart(v) = <<6, Digits(v.t)>>)
          /\ 5 \in Nat \ {15} /\ 6 \in Nat \ {15}
      BY <2>1, <2>13 DEF IsRendered
    <3> QED
      BY <1>1, <2>4, <3>1
  <2>14. CASE ty.k = "Boolean"
    <3>1. (KeyPart(v) = << 2 >> \/ KeyPart(v) = << 3 >>) /\ 2 \in Nat \ {15} /\ 3 \in Nat \ {15}
      BY <2>1, <2>14 DEF IsRendered
    <3> QED
      BY <2>4, <3>1
  <2> QED
    BY <2>1, <2>7, <2>8, <2>9, <2>10, <2>11, <2>12, <2>13, <2>14 DEF IsRendered
<1> QED
  BY <1>2, <1>3

(* A separator stands before every part but the first. *)
Lead(k) == IF k > 1 THEN 1 ELSE 0

(* The text of n parts, each after its separator, as far as an index tells. *)
Cut(flat, part, n, off) ==
  /\ off \in [0 .. n -> Nat] /\ Len(flat) = off[n]
  /\ off[0] = 0
  /\ \A j, k \in 0 .. n : j <= k => off[j] <= off[k]
  /\ \A k \in 1 .. n :
       /\ off[k] = off[k - 1] + Lead(k) + Len(part[k])
       /\ \A i \in 1 .. Len(part[k]) : flat[off[k - 1] + Lead(k) + i] = part[k][i]
       /\ k > 1 => flat[off[k - 1] + 1] = 15

LEMMA CutExists ==
  ASSUME NEW n \in Nat, NEW part \in [1 .. n -> Seq(Nat \ {15})]
  PROVE  \E off : Cut(FlattenSeq([k \in 1 .. n |-> (IF k > 1 THEN << 15 >> ELSE <<>>) \o part[k]]), part, n, off)
<1> DEFINE ss == [k \in 1 .. n |-> (IF k > 1 THEN << 15 >> ELSE <<>>) \o part[k]]
           flat == FlattenSeq(ss)
           off == Offsets(ss)
<1>1. ASSUME NEW k \in 1 .. n
      PROVE  /\ part[k] \in Seq(Nat) /\ Len(part[k]) \in Nat
             /\ ss[k] \in Seq(Nat) /\ Len(ss[k]) = Lead(k) + Len(part[k])
             /\ \A i \in 1 .. Len(part[k]) : ss[k][Lead(k) + i] = part[k][i]
             /\ k > 1 => ss[k][1] = 15
  <2> DEFINE p == part[k]
             lead == IF k > 1 THEN << 15 >> ELSE <<>>
             l == Lead(k)
  <2>1. p \in Seq(Nat) /\ Len(p) \in Nat
    <3>1. part[k] \in Seq(Nat \ {15})
      OBVIOUS
    <3>2. part[k] \in Seq(Nat)
      BY <3>1, SeqMonotonic
    <3> QED
      BY <3>2
  <2>2. lead \in Seq(Nat) /\ Len(lead) = l /\ (k > 1 => l = 1 /\ lead[1] = 15) /\ l \in Nat
    BY DEF Lead
  <2>3. ss[k] = lead \o p
    OBVIOUS
  <2> HIDE DEF p, lead, l, ss
  <2>4. /\ lead \o p \in Seq(Nat) /\ Len(lead \o p) = l + Len(p)
        /\ \A i \in 1 .. l + Len(p) : (lead \o p)[i] = IF i <= l THEN lead[i] ELSE p[i - l]
    BY <2>1, <2>2, ConcatProperties
  <2>5. \A i \in 1 .. Len(p) : l + i \in 1 .. l + Len(p) /\ ~(l + i <= l) /\ (l + i) - l = i
    BY <2>1, <2>2
  <2>6. \A i \in 1 .. Len(p) : (lead \o p)[l + i] = p[i]
    BY <2>4, <2>5
  <2>7. k > 1 => (lead \o p)[1] = 15
    <3>1. k > 1 => 1 \in 1 .. l + Len(p) /\ 1 <= l
      BY <2>1, <2>2
    <3> QED
      BY <2>2, <2>4, <3>1
  <2> QED
    BY <2>1, <2>3, <2>4, <2>6, <2>7 DEF p, l
<1>2. ss \in [1 .. n -> Seq(Nat)] /\ Len(ss) = n
  BY <1>1
<1> HIDE DEF ss
<1>3. /\ Lengths(ss) \in [1 .. n -> Nat]
      /\ IsOffsets(n, Lengths(ss), off)
      /\ IsJoin(flat, ss, n, Nat, off)
  BY <1>2, FlattenProperties
<1>4. \A k \in 1 .. n : Lengths(ss)[k] = Len(ss[k])
  BY <1>2 DEF Lengths
<1> HIDE DEF flat, off
<1>5. /\ off \in [0 .. n -> Nat] /\ Len(flat) = off[n] /\ off[0] = 0
      /\ \A k \in 1 .. n : off[k] = off[k - 1] + Len(ss[k])
  BY <1>3, <1>4 DEF IsOffsets, IsJoin
<1>6. \A j, k \in 0 .. n : j <= k => off[j] <= off[k]
  BY <1>3, OffsetsGrow
<1>7. ASSUME NEW k \in 1 .. n
      PROVE  /\ off[k] = off[k - 1] + Lead(k) + Len(part[k])
             /\ \A i \in 1 .. Len(part[k]) : flat[off[k - 1] + Lead(k) + i] = part[k][i]
             /\ k > 1 => flat[off[k - 1] + 1] = 15
  <2> DEFINE l == Lead(k)
             b == off[k - 1]
             w == Len(part[k])
  <2>1. l \in Nat /\ (k > 1 => l = 1) /\ b \in Nat /\ w \in Nat
    <3>1. k - 1 \in 0 .. n
      OBVIOUS
    <3> QED
      BY <1>1, <1>5, <3>1 DEF Lead
  <2>2. \A i \in 1 .. Len(ss[k]) : flat[b + i] = ss[k][i]
    BY <1>3 DEF IsJoin
  <2>3. Len(ss[k]) = l + w /\ off[k] = b + Len(ss[k])
    BY <1>1, <1>5
  <2>4. \A i \in 1 .. w : ss[k][l + i] = part[k][i]
    BY <1>1
  <2>5. k > 1 => ss[k][1] = 15
    BY <1>1
  <2> HIDE DEF l, b, w
  <2>6. \A i \in 1 .. w : l + i \in 1 .. Len(ss[k]) /\ b + (l + i) = b + l + i
    BY <2>1, <2>3
  <2>7. \A i \in 1 .. w : flat[b + l + i] = part[k][i]
    BY <2>2, <2>4, <2>6
  <2>8. k > 1 => flat[b + 1] = 15
    <3>1. k > 1 => 1 \in 1 .. Len(ss[k])
      BY <2>1, <2>3
    <3> QED
      BY <2>2, <2>5, <3>1
  <2>9. off[k] = b + l + w
    BY <2>1, <2>3
  <2> QED
    BY <2>7, <2>8, <2>9 DEF l, b, w
<1>8. Cut(flat, part, n, off)
  BY <1>5, <1>6, <1>7 DEF Cut
<1> QED
  BY <1>8 DEF flat, ss

(* A part does not end where another text of as many parts has it go on. *)
LEMMA NotShorter ==
  ASSUME NEW n \in Nat, NEW flat,
         NEW a \in [1 .. n -> Seq(Nat \ {15})], NEW oa, Cut(flat, a, n, oa),
         NEW b \in [1 .. n -> Seq(Nat \ {15})], NEW ob, Cut(flat, b, n, ob),
         NEW k \in 1 .. n, oa[k - 1] = ob[k - 1]
  PROVE  ~(Len(a[k]) < Len(b[k]))
<1> SUFFICES ASSUME Len(a[k]) < Len(b[k])
             PROVE  FALSE
  OBVIOUS
<1> DEFINE x == oa[k - 1]
           l == Lead(k)
           wa == Len(a[k])
           wb == Len(b[k])
           p == wa + 1
<1>1. a[k] \in Seq(Nat \ {15}) /\ b[k] \in Seq(Nat \ {15})
  OBVIOUS
<1>2. wa \in Nat /\ wb \in Nat /\ wa < wb /\ l \in Nat
  BY <1>1 DEF Lead
<1>3. k - 1 \in 0 .. n /\ k \in 0 .. n /\ n \in 0 .. n
  OBVIOUS
<1>4. oa \in [0 .. n -> Nat] /\ oa[n] = ob[n]
  BY DEF Cut
<1>e. ob[k] <= ob[n]
  <2>1. \A i, j \in 0 .. n : i <= j => ob[i] <= ob[j]
    BY DEF Cut
  <2>2. k <= n
    OBVIOUS
  <2> QED
    BY <1>3, <2>1, <2>2
<1>a. oa[k] = x + l + wa
  BY DEF Cut
<1>b. ob[k] = x + l + wb
  BY DEF Cut
<1>c. \A i \in 1 .. wb : flat[x + l + i] = b[k][i]
  BY DEF Cut
<1>5. x \in Nat /\ oa[k] \in Nat /\ oa[n] \in Nat
  BY <1>3, <1>4
<1>d. \A i \in 1 .. wb : b[k][i] \in Nat \ {15}
  BY <1>1, ElementOfSeq
<1> HIDE DEF x, l, wa, wb
<1>6. flat[oa[k] + 1] # 15
  <2>1. p \in 1 .. wb /\ x + l + p = oa[k] + 1
    BY <1>2, <1>5, <1>a
  <2> HIDE DEF p
  <2>2. b[k][p] # 15 /\ flat[x + l + p] = b[k][p]
    BY <1>c, <1>d, <2>1
  <2> QED
    BY <2>1, <2>2
<1> HIDE DEF p
<1>7. oa[k] < oa[n]
  <2>1. x + l + wb <= oa[n]
    BY <1>4, <1>b, <1>e
  <2>2. \A t, u, v, w, e \in Nat : v < w /\ t + u + w <= e => t + u + v < e
    OBVIOUS
  <2>3. x + l + wa < oa[n]
    BY <1>2, <1>5, <2>1, <2>2, Zenon
  <2> QED
    BY <1>a, <2>3
<1>8. k < n
  BY <1>5, <1>7
<1>9. k + 1 \in 1 .. n /\ k + 1 > 1 /\ (k + 1) - 1 = k
  BY <1>8
<1>10. flat[oa[(k + 1) - 1] + 1] = 15
  BY <1>9 DEF Cut
<1> QED
  BY <1>6, <1>9, <1>10

(* A text has been written of one list of parts only. *)
LEMMA CutUnique ==
  ASSUME NEW n \in Nat, NEW flat,
         NEW a \in [1 .. n -> Seq(Nat \ {15})], NEW oa, Cut(flat, a, n, oa),
         NEW b \in [1 .. n -> Seq(Nat \ {15})], NEW ob, Cut(flat, b, n, ob)
  PROVE  \A k \in 1 .. n : a[k] = b[k]
<1> DEFINE T == {j \in 0 .. n : oa[j] = ob[j] /\ \A k \in 1 .. j : a[k] = b[k]}
<1>1. 0 \in T
  BY DEF Cut
<1>2. ASSUME NEW j \in 0 .. n, j < n /\ j \in T
      PROVE  j + 1 \in T
  <2> DEFINE k == j + 1
  <2>1. k \in 1 .. n /\ k - 1 = j /\ k \in 0 .. n /\ oa[j] = ob[j] /\ \A i \in 1 .. j : a[i] = b[i]
    BY <1>2
  <2> HIDE DEF k
  <2>2. oa[k - 1] = ob[k - 1] /\ ob[k - 1] = oa[k - 1]
    BY <2>1
  <2>3. ~(Len(a[k]) < Len(b[k])) /\ ~(Len(b[k]) < Len(a[k]))
    BY <2>1, <2>2, NotShorter
  <2>4. /\ a[k] \in Seq(Nat \ {15}) /\ b[k] \in Seq(Nat \ {15})
        /\ Len(a[k]) \in Nat /\ Len(b[k]) \in Nat
    BY <2>1
  <2>5. Len(a[k]) = Len(b[k])
    BY <2>3, <2>4
  <2>6. /\ oa[k] = oa[k - 1] + Lead(k) + Len(a[k]) /\ ob[k] = ob[k - 1] + Lead(k) + Len(b[k])
        /\ \A i \in 1 .. Len(a[k]) : flat[oa[k - 1] + Lead(k) + i] = a[k][i]
        /\ \A i \in 1 .. Len(b[k]) : flat[ob[k - 1] + Lead(k) + i] = b[k][i]
    BY <2>1 DEF Cut
  <2>7. \A i \in 1 .. Len(a[k]) : a[k][i] = b[k][i]
    BY <2>2, <2>5, <2>6
  <2>8. a[k] = b[k]
    BY <2>4, <2>5, <2>7, SeqEqual
  <2>9. oa[k] = ob[k]
    BY <2>2, <2>5, <2>6
  <2>10. \A i \in 1 .. k : i \in 1 .. j \/ i = k
    BY <2>1
  <2> QED
    BY <2>1, <2>8, <2>9, <2>10 DEF k
<1>3. 0 .. n \subseteq T
  <2> HIDE DEF T
  <2> QED
    BY <1>1, <1>2, IntervalInduction
<1>4. n \in T
  BY <1>3
<1> QED
  BY <1>4

(* Texts of keys of as many cells: equal when the parts are. *)
PlainKey(key, n) == DOMAIN key = 1 .. n /\ \A c \in 1 .. n : KeyPart(key[c]) \in Seq(Nat \ {15})
TextsTell(key, other, n) ==
  KeyText(key) = KeyText(other) <=> \A c \in 1 .. n : KeyPart(key[c]) = KeyPart(other[c])

LEMMA TextsMean ==
  ASSUME NEW n \in Nat, NEW key, PlainKey(key, n), NEW other, PlainKey(other, n)
  PROVE  TextsTell(key, other, n)
<1> DEFINE a == [c \in 1 .. n |-> KeyPart(key[c])]
           b == [c \in 1 .. n |-> KeyPart(other[c])]
           ssa == [k \in 1 .. n |-> (IF k > 1 THEN << 15 >> ELSE <<>>) \o a[k]]
           ssb == [k \in 1 .. n |-> (IF k > 1 THEN << 15 >> ELSE <<>>) \o b[k]]
<1>0. DOMAIN key = 1 .. n /\ DOMAIN other = 1 .. n
  BY DEF PlainKey
<1>1. a \in [1 .. n -> Seq(Nat \ {15})] /\ b \in [1 .. n -> Seq(Nat \ {15})]
  BY DEF PlainKey
<1>2. KeyText(key) = FlattenSeq(ssa) /\ KeyText(other) = FlattenSeq(ssb)
  <2>1. Word("sep") = 15
    BY DEF Word
  <2>2. ssa = [j \in 1 .. n |-> (IF j > 1 THEN <<Word("sep")>> ELSE <<>>) \o KeyPart(key[j])]
    BY <1>0, <2>1
  <2>3. ssb = [j \in 1 .. n |-> (IF j > 1 THEN <<Word("sep")>> ELSE <<>>) \o KeyPart(other[j])]
    BY <1>0, <2>1
  <2> HIDE DEF ssa, ssb
  <2> QED
    BY <1>0, <2>2, <2>3 DEF KeyText
<1>3. ASSUME KeyText(key) = KeyText(other)
      PROVE  \A c \in 1 .. n : KeyPart(key[c]) = KeyPart(other[c])
  <2> HIDE DEF a, b
  <2>1. PICK oa : Cut(FlattenSeq(ssa), a, n, oa)
    BY <1>1, CutExists
  <2>2. PICK ob : Cut(FlattenSeq(ssb), b, n, ob)
    BY <1>1, CutExists
  <2> HIDE DEF ssa, ssb
  <2>3. FlattenSeq(ssa) = FlattenSeq(ssb)
    BY <1>2, <1>3
  <2>4. \A c \in 1 .. n : a[c] = b[c]
    BY <1>1, <2>1, <2>2, <2>3, CutUnique
  <2> QED
    BY <2>4 DEF a, b
<1>4. ASSUME \A c \in 1 .. n : KeyPart(key[c]) = KeyPart(other[c])
      PROVE  KeyText(key) = KeyText(other)
  <2>1. a = b
    BY <1>4
  <2>2. ssa = ssb
    <3> HIDE DEF a, b
    <3> QED
      BY <2>1
  <2> HIDE DEF ssa, ssb
  <2> QED
    BY <1>2, <2>2
<1> QED
  BY <1>3, <1>4 DEF TextsTell

(* Cells that are what their column declares are the same when they are written alike. *)
LEMMA PartsSame ==
  ASSUME NEW ty, NEW v, NEW w, Declared(v, ty), Declared(w, ty),
         ty.k \in IntegerFamily => Uniform(v, ty) /\ Uniform(w, ty)
  PROVE  KeyPart(v) = KeyPart(w) => v = w
<1>1. CASE v = Null \/ w = Null
  BY <1>1, NullApart
<1>2. CASE v # Null /\ w # Null
  <2>1. IsRendered(v, ty) /\ IsRendered(w, ty)
    BY <1>2, Rendered
  <2>d. \A x, y \in Int : Digits(x) = Digits(y) => x = y
    BY DigitsApart
  <2>3. CASE ty.k \in {"Int64", "UInt64"}
    <3>1. /\ v = [k |-> v.k, n |-> v.n] /\ v.n \in Int /\ KeyPart(v) = <<Digits(v.n)>>
          /\ w = [k |-> w.k, n |-> w.n] /\ w.n \in Int /\ KeyPart(w) = <<Digits(w.n)>>
          /\ v.k \in {"Int", "UInt", "HugeInt"} /\ w.k \in {"Int", "UInt", "HugeInt"}
      BY <2>1, <2>3 DEF IsRendered
    <3>2. v.k = w.k
      BY <1>2, <2>3, <3>1 DEF Uniform, IntegerFamily
    <3>3. KeyPart(v) = KeyPart(w) => v.n = w.n
      BY <2>d, <3>1
    <3>4. v.k = w.k /\ v.n = w.n => v = w
      BY <3>1
    <3> QED
      BY <3>2, <3>3, <3>4
  <2>4. CASE ty.k = "Date"
    <3>1. /\ v = DateV(v.d) /\ v.d \in Int /\ KeyPart(v) = <<4, Digits(v.d)>>
          /\ w = DateV(w.d) /\ w.d \in Int /\ KeyPart(w) = <<4, Digits(w.d)>>
      BY <2>1, <2>4 DEF IsRendered
    <3>2. v.d = w.d => v = w
      BY <3>1 DEF DateV
    <3>3. KeyPart(v) = KeyPart(w) => v.d = w.d
      BY <2>d, <3>1
    <3> QED
      BY <3>2, <3>3
  <2>5. CASE ty.k = "Timestamp"
    <3>1. /\ v = TimestampV(v.t, ty.unit) /\ v.t \in Int /\ KeyPart(v) = <<5, Digits(v.t)>>
          /\ w = TimestampV(w.t, ty.unit) /\ w.t \in Int /\ KeyPart(w) = <<5, Digits(w.t)>>
      BY <2>1, <2>5 DEF IsRendered
    <3>2. v.t = w.t => v = w
      BY <3>1 DEF TimestampV
    <3>3. KeyPart(v) = KeyPart(w) => v.t = w.t
      BY <2>d, <3>1
    <3> QED
      BY <3>2, <3>3
  <2>6. CASE ty.k = "Time"
    <3>1. /\ v = TimeV(v.t, ty.unit) /\ v.t \in Int /\ KeyPart(v) = <<6, Digits(v.t)>>
          /\ w = TimeV(w.t, ty.unit) /\ w.t \in Int /\ KeyPart(w) = <<6, Digits(w.t)>>
      BY <2>1, <2>6 DEF IsRendered
    <3>2. v.t = w.t => v = w
      BY <3>1 DEF TimeV
    <3>3. KeyPart(v) = KeyPart(w) => v.t = w.t
      BY <2>d, <3>1
    <3> QED
      BY <3>2, <3>3
  <2>7. CASE ty.k = "Boolean"
    <3>1. /\ (v = True /\ KeyPart(v) = << 2 >>) \/ (v = False /\ KeyPart(v) = << 3 >>)
          /\ (w = True /\ KeyPart(w) = << 2 >>) \/ (w = False /\ KeyPart(w) = << 3 >>)
      BY <2>1, <2>7 DEF IsRendered
    <3>2. << 2 >> # << 3 >>
      OBVIOUS
    <3> QED
      BY <3>1, <3>2
  <2>8. CASE ty.k = "Varchar"
    BY <2>1, <2>8 DEF IsRendered
  <2>9. CASE ty.k = "Double"
    <3> DEFINE IsNum(x) == /\ x = [k |-> "Double", cls |-> "num", h |-> x.h] /\ x.h \in Int
                           /\ KeyPart(x) = (IF x.h % 2 = 1 THEN <<Digits(x.h \div 2), 9, Digits(5)>>
                                            ELSE <<Digits(x.h \div 2)>>)
    <3>1. /\ (v = NaN /\ KeyPart(v) = << 7 >>) \/ IsNum(v)
          /\ (w = NaN /\ KeyPart(w) = << 7 >>) \/ IsNum(w)
      BY <2>1, <2>9 DEF IsRendered
    <3>2. ASSUME NEW x, IsNum(x)
          PROVE  KeyPart(x) # << 7 >>
      <4>1. Digits(x.h \div 2) # 7
        BY <3>2, DigitsApart
      <4> QED
        BY <3>2, <4>1
    <3>3. ASSUME IsNum(v), IsNum(w), KeyPart(v) = KeyPart(w)
          PROVE  v = w
      <4>1. v.h \div 2 \in Int /\ w.h \div 2 \in Int
        BY <3>3
      <4>2. Digits(v.h \div 2) = Digits(w.h \div 2) /\ (v.h % 2 = 1 <=> w.h % 2 = 1)
        BY <3>3
      <4>3. v.h \div 2 = w.h \div 2
        BY <2>d, <4>1, <4>2
      <4>4. \A x, y \in Int : (x \div 2 = y \div 2 /\ (x % 2 = 1 <=> y % 2 = 1)) => x = y
        OBVIOUS
      <4>5. v.h \in Int /\ w.h \in Int /\ (v.h = w.h => v = w)
        BY <3>3
      <4>6. v.h = w.h
        BY <4>2, <4>3, <4>4, <4>5, Zenon
      <4> QED
        BY <4>5, <4>6
    <3> HIDE DEF IsNum
    <3> QED
      BY <3>1, <3>2, <3>3
  <2>10. CASE ty.k = "Decimal"
    <3>1. /\ v = DecimalV(v.u, ty.sc) /\ v.u \in Int /\ KeyPart(v) = <<Digits(v.u), 9, Digits(ty.sc)>>
          /\ w = DecimalV(w.u, ty.sc) /\ w.u \in Int /\ KeyPart(w) = <<Digits(w.u), 9, Digits(ty.sc)>>
      BY <2>1, <2>10 DEF IsRendered
    <3>2. v.u = w.u => v = w
      BY <3>1 DEF DecimalV
    <3>3. KeyPart(v) = KeyPart(w) => v.u = w.u
      BY <2>d, <3>1
    <3> QED
      BY <3>2, <3>3
  <2>11. CASE ty.k = "Interval"
    <3>1. /\ v = IntervalV(v.mo, v.d, v.ns) /\ v.mo \in Int /\ v.d \in Int /\ v.ns \in Int
          /\ KeyPart(v) = <<Digits(v.mo), 13, Digits(v.d), 13, Digits(v.ns)>>
          /\ w = IntervalV(w.mo, w.d, w.ns) /\ w.mo \in Int /\ w.d \in Int /\ w.ns \in Int
          /\ KeyPart(w) = <<Digits(w.mo), 13, Digits(w.d), 13, Digits(w.ns)>>
      BY <2>1, <2>11 DEF IsRendered
    <3>2. KeyPart(v) = KeyPart(w) => v.mo = w.mo /\ v.d = w.d /\ v.ns = w.ns
      BY <2>d, <3>1
    <3>3. v.mo = w.mo /\ v.d = w.d /\ v.ns = w.ns => v = w
      BY <3>1 DEF IntervalV
    <3> QED
      BY <3>2, <3>3
  <2> QED
    BY <2>1, <2>3, <2>4, <2>5, <2>6, <2>7, <2>8, <2>9, <2>10, <2>11 DEF IsRendered
<1> QED
  BY <1>1, <1>2

(* The raw integers of an integer column tell apart what its texts do. *)
LEMMA RawMeans ==
  ASSUME NEW ty, NEW v, NEW w, Declared(v, ty), Declared(w, ty), ty.k \in IntegerFamily,
         Uniform(v, ty), Uniform(w, ty)
  PROVE  Raw(v) = Raw(w) <=> KeyPart(v) = KeyPart(w)
<1>1. ASSUME KeyPart(v) = KeyPart(w)
      PROVE  v = w
  BY <1>1, PartsSame
<1> SUFFICES ASSUME Raw(v) = Raw(w), v # w
             PROVE  FALSE
  BY <1>1
<1>2. ASSUME NEW x, Declared(x, ty), Uniform(x, ty)
      PROVE  \/ x = Null /\ Raw(x) = <<>>
             \/ ty.k = "Int64" /\ x = [k |-> "Int", n |-> x.n] /\ x.n \in I64 /\ Raw(x) = <<Wrap(x.n, Bits64)>>
             \/ ty.k = "UInt64" /\ x = [k |-> "UInt", n |-> x.n] /\ x.n \in U64 /\ Raw(x) = <<Wrap(x.n, Bits64)>>
             \/ ty.k = "Date" /\ x = DateV(x.d) /\ Raw(x) = <<x.d>>
             \/ ty.k = "Timestamp" /\ x = TimestampV(x.t, ty.unit) /\ Raw(x) = <<x.t>>
             \/ ty.k = "Time" /\ x = TimeV(x.t, ty.unit) /\ Raw(x) = <<x.t>>
  <2>1. CASE x = Null
    BY <2>1 DEF Raw, Null
  <2>2. CASE x # Null /\ ty.k \in {"Int64", "UInt64"}
    <3>1. /\ x = [k |-> x.k, n |-> x.n] /\ x.k \in DOMAIN Width /\ x.n \in Width[x.k]
      BY <1>2, <2>2 DEF Declared
    <3>2. \/ ty.k = "Int64" /\ x.k = "Int"
          \/ ty.k = "UInt64" /\ x.k = "UInt"
      BY <1>2, <2>2 DEF Uniform
    <3>3. Raw(x) = <<Wrap(x.n, Bits64)>>
      BY <2>2, <3>2 DEF Raw
    <3> QED
      BY <3>1, <3>2, <3>3 DEF Width
  <2>3. CASE x # Null /\ ty.k = "Date"
    <3>1. x.k = "Date" /\ x = DateV(x.d)
      BY <1>2, <2>3 DEF Declared
    <3> QED
      BY <2>3, <3>1 DEF Raw
  <2>4. CASE x # Null /\ ty.k = "Timestamp"
    <3>1. x.k = "Timestamp" /\ x = TimestampV(x.t, ty.unit)
      BY <1>2, <2>4 DEF Declared
    <3> QED
      BY <2>4, <3>1 DEF Raw
  <2>5. CASE x # Null /\ ty.k = "Time"
    <3>1. x.k = "Time" /\ x = TimeV(x.t, ty.unit)
      BY <1>2, <2>5 DEF Declared
    <3> QED
      BY <2>5, <3>1 DEF Raw
  <2> QED
    BY <2>1, <2>2, <2>3, <2>4, <2>5 DEF IntegerFamily
<1>3. \A x : <<x>> # <<>>
  OBVIOUS
<1>4. \A x, y : <<x>> = <<y>> => x = y
  OBVIOUS
<1>n. Raw(Null) = <<>>
  BY DEF Raw, Null
<1>s. ASSUME NEW x, Declared(x, ty), Uniform(x, ty), x # Null
      PROVE  \E y : Raw(x) = <<y>>
  BY <1>2, <1>s, Zenon
<1>5. CASE v = Null \/ w = Null
  <2>1. CASE v = Null
    <3>1. PICK y : Raw(w) = <<y>>
      BY <1>s, <2>1
    <3> QED
      BY <1>3, <1>n, <2>1, <3>1
  <2>2. CASE w = Null
    <3>1. PICK y : Raw(v) = <<y>>
      BY <1>s, <2>2
    <3> QED
      BY <1>3, <1>n, <2>2, <3>1
  <2> QED
    BY <1>5, <2>1, <2>2
<1>6. CASE v # Null /\ w # Null /\ ty.k \in {"Int64", "UInt64"}
  <2>1. \/ ty.k = "Int64" /\ v.n \in I64 /\ w.n \in I64
        \/ ty.k = "UInt64" /\ v.n \in U64 /\ w.n \in U64
    BY <1>2, <1>6
  <2>2. Wrap(v.n, Bits64) = Wrap(w.n, Bits64)
    BY <1>2, <1>4, <1>6
  <2>3. v.n = w.n
    BY <2>1, <2>2, WrapApart
  <2> QED
    BY <1>2, <1>6, <2>1, <2>3
<1>7. CASE v # Null /\ w # Null /\ ty.k = "Date"
  <2>1. v = DateV(v.d) /\ w = DateV(w.d) /\ Raw(v) = <<v.d>> /\ Raw(w) = <<w.d>>
    BY <1>2, <1>7
  <2>2. v.d = w.d => v = w
    BY <2>1 DEF DateV
  <2> QED
    BY <1>4, <2>1, <2>2
<1>8. CASE v # Null /\ w # Null /\ ty.k = "Timestamp"
  <2>1. v = TimestampV(v.t, ty.unit) /\ w = TimestampV(w.t, ty.unit) /\ Raw(v) = <<v.t>> /\ Raw(w) = <<w.t>>
    BY <1>2, <1>8
  <2>2. v.t = w.t => v = w
    BY <2>1 DEF TimestampV
  <2> QED
    BY <1>4, <2>1, <2>2
<1>9. CASE v # Null /\ w # Null /\ ty.k = "Time"
  <2>1. v = TimeV(v.t, ty.unit) /\ w = TimeV(w.t, ty.unit) /\ Raw(v) = <<v.t>> /\ Raw(w) = <<w.t>>
    BY <1>2, <1>9
  <2>2. v.t = w.t => v = w
    BY <2>1 DEF TimeV
  <2> QED
    BY <1>4, <2>1, <2>2
<1> QED
  BY <1>5, <1>6, <1>7, <1>8, <1>9 DEF IntegerFamily

-----------------------------------------------------------------------------
(* Partitions and keys.                                                     *)

(* What does not change of a run over plain keys; without partition_by each shard that *)
(* is done has given one partition.                                                    *)
KeysOK ==
  /\ Plain(given)
  /\ Len(shards) > 1 => MaySplit(given)
  /\ \A i \in AllRows : given.rows[i] \in Seq(ToSet(given.rows[i])) /\ Len(given.rows[i]) = Len(given.tys)
SingleOK == given.tys = <<>> => Len(parts) = sh - 1

(* The key of a row, cell by cell. *)
LEMMA KeyFacts ==
  ASSUME GivenOK, KeysOK
  PROVE  /\ Len(given.tys) \in Nat /\ DOMAIN given.tys = 1 .. Len(given.tys)
         /\ DOMAIN given.rows = AllRows
         /\ \A i \in AllRows : given.rows[i] \in Seq(ToSet(given.rows[i]))
                                 /\ DOMAIN given.rows[i] = 1 .. Len(given.tys)
         /\ \A i \in AllRows, c \in 1 .. Len(given.tys) : Declared(given.rows[i][c], given.tys[c])
         /\ \A i, j \in AllRows, c \in 1 .. Len(given.tys) :
              given.tys[c].k \in {"Decimal", "Interval"} /\ SameValue(given.rows[i][c], given.rows[j][c])
                => given.rows[i][c] = given.rows[j][c]
<1>1. Len(given.tys) \in Nat /\ DOMAIN given.tys = 1 .. Len(given.tys)
  BY LenProperties DEF GivenOK
<1>2. DOMAIN given.rows = AllRows
  BY DEF AllRows
<1>3. \A i \in AllRows : given.rows[i] \in Seq(ToSet(given.rows[i])) /\ DOMAIN given.rows[i] = 1 .. Len(given.tys)
  BY LenProperties DEF KeysOK
<1> QED
  BY <1>1, <1>2, <1>3 DEF KeysOK, Plain

(* The texts of two keys are equal when SQL does not tell the keys apart. *)
LEMMA KeysMean ==
  ASSUME GivenOK, KeysOK, NEW i \in AllRows, NEW j \in AllRows
  PROVE  /\ KeyText(given.rows[i]) = KeyText(given.rows[j]) <=> SameKey(i, j)
         /\ KeyText(given.rows[i]) = KeyText(given.rows[j])
              <=> \A c \in 1 .. Len(given.tys) : KeyPart(given.rows[i][c]) = KeyPart(given.rows[j][c])
<1> DEFINE n == Len(given.tys)
           a == given.rows[i]
           b == given.rows[j]
<1>1. /\ n \in Nat /\ DOMAIN given.tys = 1 .. n /\ DOMAIN a = 1 .. n /\ DOMAIN b = 1 .. n
      /\ \A c \in 1 .. n : Declared(a[c], given.tys[c]) /\ Declared(b[c], given.tys[c])
      /\ \A c \in 1 .. n : given.tys[c].k \in {"Decimal", "Interval"} /\ SameValue(a[c], b[c]) => a[c] = b[c]
  BY KeyFacts
<1>2. SameKey(i, j) <=> \A c \in 1 .. n : SameValue(a[c], b[c])
  BY <1>1 DEF SameKey
<1> HIDE DEF n, a, b
<1>3. PlainKey(a, n) /\ PlainKey(b, n)
  BY <1>1, PartsPlain DEF PlainKey
<1>4. \A c \in 1 .. n : KeyPart(a[c]) = KeyPart(b[c]) <=> SameValue(a[c], b[c])
  BY <1>1, PartsMean
<1>5. TextsTell(a, b, n)
  BY <1>1, <1>3, TextsMean
<1> QED
  BY <1>2, <1>4, <1>5 DEF TextsTell, n, a, b

(* Rows with one text are in one shard: of a split relation such keys are identical, *)
(* and so is their hash.                                                             *)
LEMMA HomesMean ==
  ASSUME GivenOK, KeysOK, NEW i \in AllRows, NEW j \in AllRows,
         KeyText(given.rows[i]) = KeyText(given.rows[j])
  PROVE  Home(i) = Home(j)
<1>1. Len(shards) \in Nat \ {0} /\ Home(i) \in 1 .. Len(shards) /\ Home(j) \in 1 .. Len(shards)
  BY GivenFacts DEF GivenOK
<1>2. CASE Len(shards) = 1
  BY <1>1, <1>2
<1>3. CASE Len(shards) > 1
  <2> DEFINE n == Len(given.tys)
             a == given.rows[i]
             b == given.rows[j]
  <2>1. /\ n \in Nat /\ DOMAIN a = 1 .. n /\ DOMAIN b = 1 .. n /\ a \in Seq(ToSet(a)) /\ b \in Seq(ToSet(b))
        /\ DOMAIN given.tys = 1 .. n
        /\ \A c \in 1 .. n : Declared(a[c], given.tys[c]) /\ Declared(b[c], given.tys[c])
    BY KeyFacts
  <2>2. \A c \in 1 .. n : KeyPart(a[c]) = KeyPart(b[c])
    BY KeysMean
  <2>3. \A c \in 1 .. n : given.tys[c].k \in IntegerFamily
          => Uniform(a[c], given.tys[c]) /\ Uniform(b[c], given.tys[c])
    BY <1>3, <2>1 DEF KeysOK, MaySplit, AllRows
  <2> HIDE DEF n, a, b
  <2>4. \A c \in 1 .. n : a[c] = b[c]
    BY <2>1, <2>2, <2>3, PartsSame
  <2>5. Len(a) = n /\ Len(b) = n
    BY <2>1, LenProperties
  <2>6. a = b
    BY <2>1, <2>4, <2>5, SeqEqual
  <2> QED
    BY <2>6 DEF Home, a, b
<1> QED
  BY <1>1, <1>2, <1>3

(* Of one integer column the raw integers say what the texts say. *)
LEMMA IntsMean ==
  ASSUME GivenOK, KeysOK, NEW k, NEW l, Shard[k] \in AllRows, Shard[l] \in AllRows, IntRow(k), IntRow(l)
  PROVE  Raw(Key(k)[1]) = Raw(Key(l)[1]) <=> KeyText(Key(k)) = KeyText(Key(l))
<1>1. /\ Len(given.tys) = 1 /\ given.tys[1].k \in IntegerFamily
      /\ Uniform(Key(k)[1], given.tys[1]) /\ Uniform(Key(l)[1], given.tys[1])
  BY DEF IntRow
<1>2. Declared(Key(k)[1], given.tys[1]) /\ Declared(Key(l)[1], given.tys[1])
  BY <1>1, KeyFacts DEF Key
<1>3. Raw(Key(k)[1]) = Raw(Key(l)[1]) <=> KeyPart(Key(k)[1]) = KeyPart(Key(l)[1])
  BY <1>1, <1>2, RawMeans
<1>4. KeyText(Key(k)) = KeyText(Key(l)) <=> \A c \in 1 .. 1 : KeyPart(Key(k)[c]) = KeyPart(Key(l)[c])
  BY <1>1, KeysMean DEF Key
<1> QED
  BY <1>3, <1>4

(* Of the partitions a shard adds, two of its rows share one when their texts are the same. *)
LEMMA ProduceTells ==
  ASSUME IInv, KeysOK, Produce, NEW k \in 1 .. Len(Shard), NEW l \in 1 .. Len(Shard)
  PROVE  (\E p \in 1 .. Len(parts') : Shard[k] \in ToSet(parts'[p]) /\ Shard[l] \in ToSet(parts'[p]))
           <=> KeyText(Key(k)) = KeyText(Key(l))
<1> DEFINE n == Len(Shard)
           m == Len(seen)
           np == Len(parts)
<1>1. pc = "place"
  BY DEF Produce
<1>2. GivenOK /\ ProgressOK /\ ShardsOK /\ PartsOK /\ sh <= Len(shards)
  BY <1>1 DEF IInv, ProgressOK, Grouping_
<1>3. PartsAdded(np, m)
  BY ProduceAdds
<1>4. /\ sh \in 1 .. Len(shards) /\ AllRows \in SUBSET Nat /\ n \in Nat /\ DOMAIN Shard = 1 .. n
      /\ \A x \in 1 .. n : Shard[x] \in AllRows
  BY <1>2, ShardFacts
<1>5. \A x, y \in 1 .. n : Shard[x] = Shard[y] => x = y
  <2>1. \A x, y \in 1 .. n : x < y => Shard[x] < Shard[y]
    BY <1>2, <1>4 DEF ShardsOK, Ascends, Shard
  <2>2. \A x \in 1 .. n : Shard[x] \in Nat
    BY <1>4
  <2>3. \A x, y \in 1 .. n : x < y \/ y < x \/ x = y
    OBVIOUS
  <2>4. \A x, y \in Nat : x < y => x # y
    OBVIOUS
  <2> QED
    BY <2>1, <2>2, <2>3, <2>4, Zenon
<1>6. /\ ids \in [1 .. n -> 1 .. m] /\ np \in Nat /\ m \in Nat /\ Len(parts') = np + m
      /\ \A p \in 1 .. np : parts'[p] = parts[p]
      /\ \A g \in 1 .. m : HoldsGroup(parts'[np + g], Shard, ids, g)
      /\ \A p \in 1 .. (np + m) : p \in 1 .. np \/ \E g \in 1 .. m : p = np + g
      /\ Distinct(seen)
  BY <1>3 DEF PartsAdded, Known
<1>7. \A g \in 1 .. m, x \in 1 .. n : Shard[x] \in ToSet(parts'[np + g]) <=> ids[x] = g
  <2>1. \A g \in 1 .. m : \A y : y \in ToSet(parts'[np + g])
          <=> \E x \in 1 .. n : ids[x] = g /\ Shard[x] = y
    <3>1. \A g \in 1 .. m : HoldsGroup(parts'[np + g], Shard, ids, g)
      BY <1>6
    <3> QED
      BY <3>1 DEF HoldsGroup
  <2> SUFFICES ASSUME NEW g \in 1 .. m, NEW x \in 1 .. n
               PROVE  Shard[x] \in ToSet(parts'[np + g]) <=> ids[x] = g
    OBVIOUS
  <2> DEFINE new == ToSet(parts'[np + g])
             at == Shard[x]
  <2>2. at \in new <=> \E y \in 1 .. n : ids[y] = g /\ Shard[y] = at
    BY <2>1
  <2>3. \A y \in 1 .. n : Shard[y] = at <=> y = x
    BY <1>5
  <2> HIDE DEF new, at, n
  <2>4. at \in new <=> ids[x] = g
    BY <2>2, <2>3
  <2> QED
    BY <2>4 DEF new, at
<1>8. \A p \in 1 .. np : Shard[k] \notin ToSet(parts'[p])
  <2>1. Home(Shard[k]) = sh
    <3>1. Shard[k] \in ToSet(Shard)
      BY <1>4 DEF ToSet
    <3> QED
      BY <1>2, <1>4, <3>1 DEF ShardsOK, Shard
  <2>2. ~(Home(Shard[k]) < sh)
    BY <1>4, <2>1
  <2>3. \A p \in 1 .. np : Shard[k] \notin ToSet(parts[p])
    BY <1>2, <1>4, <2>2 DEF PartsOK
  <2> QED
    BY <1>6, <2>3
<1>9. ids[k] \in 1 .. m /\ ids[l] \in 1 .. m
  BY <1>6
<1>10. (\E p \in 1 .. (np + m) : Shard[k] \in ToSet(parts'[p]) /\ Shard[l] \in ToSet(parts'[p]))
         <=> ids[k] = ids[l]
  <2>1. \A g \in 1 .. m : np + g \in 1 .. (np + m)
    BY <1>6
  <2>2. ASSUME ids[k] = ids[l]
        PROVE  \E p \in 1 .. (np + m) : Shard[k] \in ToSet(parts'[p]) /\ Shard[l] \in ToSet(parts'[p])
    BY <1>7, <1>9, <2>1, <2>2
  <2>3. ASSUME NEW p \in 1 .. (np + m), Shard[k] \in ToSet(parts'[p]), Shard[l] \in ToSet(parts'[p])
        PROVE  ids[k] = ids[l]
    <3>1. PICK g \in 1 .. m : p = np + g
      BY <1>6, <1>8, <2>3
    <3> QED
      BY <1>7, <2>3, <3>1
  <2> QED
    BY <2>2, <2>3
<1>11. ids[k] = ids[l] <=> seen[ids[k]] = seen[ids[l]]
  BY <1>6, <1>9 DEF Distinct
<1>12. seen[ids[k]] = seen[ids[l]] <=> KeyText(Key(k)) = KeyText(Key(l))
  <2>1. CASE ByTexts(n)
    BY <2>1 DEF ByTexts
  <2>2. CASE ByInts(n)
    <3>1. /\ IntRow(k) /\ IntRow(l)
          /\ seen[ids[k]] = Raw(Key(k)[1]) /\ seen[ids[l]] = Raw(Key(l)[1])
      BY <2>2 DEF ByInts
    <3> QED
      BY <1>2, <1>4, <3>1, IntsMean
  <2> QED
    BY <1>1, <2>1, <2>2 DEF IInv, PathOK
<1> QED
  BY <1>6, <1>10, <1>11, <1>12

LEMMA ProduceKeyed ==
  ASSUME IInv, KeysOK, PartsKeyed, Produce
  PROVE  PartsKeyed'
<1> DEFINE n == Len(Shard)
           np == Len(parts)
           m == Len(seen)
<1>1. pc = "place" /\ given' = given /\ shards' = shards /\ sh' = sh + 1 /\ pc' = "open"
  BY DEF Produce
<1>2. GivenOK /\ ProgressOK /\ ShardsOK /\ PartsOK /\ sh <= Len(shards) /\ given.tys # <<>>
  BY <1>1 DEF IInv, ProgressOK, Grouping_
<1>3. /\ sh \in 1 .. Len(shards) /\ n \in Nat /\ DOMAIN Shard = 1 .. n
      /\ \A x \in 1 .. n : Shard[x] \in AllRows
  BY <1>2, ShardFacts
<1>4. AllRows' = AllRows /\ \A i : Home(i)' = Home(i)
  BY <1>1 DEF AllRows, Home
<1>5. \A i \in AllRows : Home(i) \in Nat
  BY <1>2, GivenFacts
<1>6. /\ np \in Nat /\ m \in Nat /\ Len(parts') = np + m
      /\ \A p \in 1 .. np : parts'[p] = parts[p]
      /\ \A g \in 1 .. m : HoldsGroup(parts'[np + g], Shard, ids, g)
      /\ \A p \in 1 .. (np + m) : p \in 1 .. np \/ \E g \in 1 .. m : p = np + g
  BY ProduceAdds DEF PartsAdded
<1>7. \A i \in AllRows : Home(i) = sh => \E k \in 1 .. n : Shard[k] = i
  <2>1. \A i \in AllRows : Home(i) = sh => i \in ToSet(Shard)
    BY <1>1, <1>2, <1>3 DEF ShardsOK, Shard
  <2> QED
    BY <1>3, <2>1 DEF ToSet
<1>8. \A i \in AllRows : \A g \in 1 .. m : i \in ToSet(parts'[np + g]) => Home(i) = sh
  <2> SUFFICES ASSUME NEW i \in AllRows, NEW g \in 1 .. m, i \in ToSet(parts'[np + g])
               PROVE  Home(i) = sh
    OBVIOUS
  <2>1. HoldsGroup(parts'[np + g], Shard, ids, g)
    BY <1>6
  <2>0. PICK k \in 1 .. n : Shard[k] = i
    BY <2>1 DEF HoldsGroup
  <2>2. i \in ToSet(Shard)
    BY <1>3, <2>0 DEF ToSet
  <2> QED
    BY <1>1, <1>2, <1>3, <2>2 DEF ShardsOK, Shard
<1>9. \A i \in AllRows : \A p \in 1 .. np : i \in ToSet(parts'[p]) => Home(i) < sh
  BY <1>2, <1>6 DEF PartsOK
<1>10. \A i \in AllRows : ~(Home(i) < sh /\ Home(i) = sh)
  BY <1>3, <1>5
<1>11. \A p \in 1 .. np : p \in 1 .. (np + m)
  BY <1>6
<1> HIDE DEF np, m
<1>12. SUFFICES ASSUME NEW i \in AllRows, NEW j \in AllRows, Home(i) < sh + 1, Home(j) < sh + 1
                PROVE  (\E p \in 1 .. Len(parts') : i \in ToSet(parts'[p]) /\ j \in ToSet(parts'[p]))
                         <=> KeyText(given.rows[i]) = KeyText(given.rows[j])
  BY <1>1, <1>4 DEF PartsKeyed
<1>13. (Home(i) < sh \/ Home(i) = sh) /\ (Home(j) < sh \/ Home(j) = sh)
  BY <1>3, <1>5, <1>12
<1>14. CASE Home(i) < sh /\ Home(j) < sh
  <2>1. (\E p \in 1 .. (np + m) : i \in ToSet(parts'[p]) /\ j \in ToSet(parts'[p]))
          <=> \E p \in 1 .. np : i \in ToSet(parts[p]) /\ j \in ToSet(parts[p])
    BY <1>6, <1>8, <1>10, <1>11, <1>14
  <2>2. (\E p \in 1 .. np : i \in ToSet(parts[p]) /\ j \in ToSet(parts[p]))
          <=> KeyText(given.rows[i]) = KeyText(given.rows[j])
    BY <1>1, <1>2, <1>14 DEF PartsKeyed, np
  <2> QED
    BY <1>6, <2>1, <2>2
<1>15. CASE Home(i) = sh /\ Home(j) = sh
  <2>1. PICK k \in 1 .. n : Shard[k] = i
    BY <1>7, <1>15
  <2>2. PICK l \in 1 .. n : Shard[l] = j
    BY <1>7, <1>15
  <2>3. Key(k) = given.rows[i] /\ Key(l) = given.rows[j]
    BY <2>1, <2>2 DEF Key
  <2>4. (\E p \in 1 .. Len(parts') : Shard[k] \in ToSet(parts'[p]) /\ Shard[l] \in ToSet(parts'[p]))
          <=> KeyText(Key(k)) = KeyText(Key(l))
    BY ProduceTells
  <2> QED
    BY <2>1, <2>2, <2>3, <2>4
<1>16. CASE Home(i) # Home(j)
  <2>1. KeyText(given.rows[i]) # KeyText(given.rows[j])
    BY <1>2, <1>16, HomesMean
  <2>2. ASSUME NEW p \in 1 .. (np + m), i \in ToSet(parts'[p]), j \in ToSet(parts'[p])
        PROVE  FALSE
    <3>1. CASE p \in 1 .. np
      <4>1. Home(i) < sh /\ Home(j) < sh
        BY <1>9, <2>2, <3>1
      <4>2. \A q \in 1 .. np : i \in ToSet(parts[q]) => parts'[q] = parts[q]
        BY <1>6
      <4>3. i \in ToSet(parts[p]) /\ j \in ToSet(parts[p])
        BY <1>6, <2>2, <3>1
      <4> QED
        BY <1>1, <1>2, <2>1, <3>1, <4>1, <4>3 DEF PartsKeyed, np
    <3>2. ASSUME NEW g \in 1 .. m, p = np + g
          PROVE  FALSE
      BY <1>8, <1>16, <2>2, <3>2
    <3> QED
      BY <1>6, <3>1, <3>2
  <2> QED
    BY <1>6, <2>1, <2>2
<1> QED
  BY <1>13, <1>14, <1>15, <1>16

(* The actions that leave the partitions alone. *)
LEMMA KeyedStays ==
  ASSUME KeysOK, SingleOK, PartsKeyed, given' = given, shards' = shards, parts' = parts,
         sh' = sh, pc # "split" \/ pc' = "split"
  PROVE  KeysOK' /\ SingleOK' /\ PartsKeyed'
<1>1. AllRows' = AllRows /\ \A i : Home(i)' = Home(i)
  BY DEF AllRows, Home
<1>2. KeysOK'
  <2>1. Plain(given)' /\ (Len(shards) > 1 => MaySplit(given))'
    BY DEF KeysOK
  <2> QED
    BY <1>1, <2>1 DEF KeysOK
<1>3. SingleOK'
  BY DEF SingleOK
<1>4. PartsKeyed'
  BY <1>1 DEF PartsKeyed
<1> QED
  BY <1>2, <1>3, <1>4

LEMMA KeyedKeeps ==
  ASSUME IInv, KeysOK, SingleOK, PartsKeyed, Next
  PROVE  KeysOK' /\ SingleOK' /\ PartsKeyed'
<1>0. GivenOK /\ ProgressOK /\ PartsOK
  BY DEF IInv
<1>1. CASE Route
  <2>1. /\ pc = "split" /\ pc' = "split" /\ given' = given /\ parts' = parts /\ sh' = sh
        /\ shards' = [shards EXCEPT ![given.hash[given.rows[r]]] = Append(@, r)]
    BY <1>1, <1>0 DEF Route
  <2>2. Len(shards') = Len(shards)
    BY <1>0, <2>1 DEF GivenOK
  <2>3. AllRows' = AllRows /\ \A i : Home(i)' = Home(i)
    BY <2>1 DEF AllRows, Home
  <2>4. KeysOK'
    BY <2>1, <2>2, <2>3 DEF KeysOK
  <2>5. SingleOK' /\ PartsKeyed'
    BY <2>1 DEF SingleOK, PartsKeyed
  <2> QED
    BY <2>4, <2>5
<1>2. CASE Routed
  <2>1. /\ pc = "split" /\ given' = given /\ parts' = parts /\ sh' = sh /\ sh = 1 /\ shards' = shards
    BY <1>0, <1>2 DEF Routed, ProgressOK
  <2>2. AllRows' = AllRows /\ \A i : Home(i)' = Home(i)
    BY <2>1 DEF AllRows, Home
  <2>3. KeysOK' /\ SingleOK'
    BY <2>1, <2>2 DEF KeysOK, SingleOK
  <2>4. \A i \in AllRows : ~(Home(i) < sh)
    <3>1. \A i \in AllRows : Home(i) \in 1 .. Len(shards) /\ Len(shards) \in Nat
      BY <1>0, GivenFacts DEF GivenOK
    <3> QED
      BY <2>1, <3>1
  <2>5. PartsKeyed'
    BY <2>1, <2>2, <2>4 DEF PartsKeyed
  <2> QED
    BY <2>3, <2>5
<1>3. CASE Open \/ GroupByInt \/ FallBack \/ GroupByKey \/ Size \/ Place
  <2>1. given' = given /\ shards' = shards /\ parts' = parts /\ sh' = sh /\ pc # "split"
    BY <1>3 DEF Open, GroupByInt, FallBack, GroupByKey, Assign, Size, Place
  <2> QED
    BY <2>1, KeyedStays
<1>4. CASE Single
  <2>1. /\ pc = "single" /\ given' = given /\ shards' = shards /\ sh' = sh + 1
        /\ parts' = Append(parts, Shard) /\ given.tys = <<>>
    BY <1>0, <1>4 DEF Single, ProgressOK
  <2>2. AllRows' = AllRows
    BY <2>1 DEF AllRows
  <2>3. KeysOK'
    BY <2>1, <2>2 DEF KeysOK
  <2>4. SingleOK'
    <3>1. Len(parts') = Len(parts) + 1
      BY <1>0, <2>1 DEF PartsOK
    <3>2. sh \in Nat
      BY <1>0 DEF ProgressOK, GivenOK
    <3> QED
      BY <2>1, <3>1, <3>2 DEF SingleOK
  <2>5. PartsKeyed'
    BY <2>1 DEF PartsKeyed
  <2> QED
    BY <2>3, <2>4, <2>5
<1>5. CASE Produce
  <2>1. given' = given /\ shards' = shards /\ given.tys # <<>>
    BY <1>0, <1>5 DEF Produce, ProgressOK, Grouping_
  <2>2. AllRows' = AllRows
    BY <2>1 DEF AllRows
  <2>3. KeysOK' /\ SingleOK'
    BY <2>1, <2>2 DEF KeysOK, SingleOK
  <2> QED
    BY <1>5, <2>3, ProduceKeyed
<1> QED
  BY <1>1, <1>2, <1>3, <1>4, <1>5 DEF Next

(***************************************************************************)
(* Rows of the shards that are done are in one partition when the texts of *)
(* their keys (write_key_part) are equal: the raw integers, the first-seen *)
(* numbering and the fallback make no difference.  Of plain keys.          *)
(***************************************************************************)
THEOREM KeyedPartitions ==
  ASSUME \A g \in Keyed : Plain(g)
  PROVE  Spec => [](IInv /\ KeysOK /\ SingleOK /\ PartsKeyed)
<1> DEFINE Inv == IInv /\ KeysOK /\ SingleOK /\ PartsKeyed
<1>1. Init => Inv
  <2> SUFFICES ASSUME Init
               PROVE  Inv
    OBVIOUS
  <2>1. PICK g \in Keyed, n \in ShardCounts :
          /\ n > 1 => MaySplit(g)
          /\ \E h \in [HashKeys(g) -> 1 .. n] : given = [tys |-> g.tys, rows |-> g.rows, hash |-> h]
          /\ shards = IF n = 1 THEN <<[i \in 1..Len(g.rows) |-> i]>> ELSE [s \in 1..n |-> <<>>]
    BY DEF Init
  <2>2. given.tys = g.tys /\ given.rows = g.rows /\ Plain(g)
    BY <2>1
  <2>3. n \in Nat \ {0}
    BY KeyedAssumption
  <2>4. Len(shards) = n
    BY <2>1, <2>3
  <2>5. Plain(given)
    BY <2>2 DEF Plain
  <2>6. Len(shards) > 1 => MaySplit(given)
    BY <2>1, <2>2, <2>4 DEF MaySplit
  <2>7. \A i \in AllRows : given.rows[i] \in ToSet(g.rows)
    BY <2>2 DEF AllRows, ToSet
  <2>8. KeysOK
    BY <2>2, <2>5, <2>6, <2>7, KeyedAssumption DEF KeysOK
  <2>9. sh = 1 /\ parts = <<>>
    BY DEF Init
  <2>10. IInv
    BY InitHolds
  <2>11. \A i \in AllRows : ~(Home(i) < sh)
    <3>1. \A i \in AllRows : Home(i) \in 1 .. Len(shards) /\ Len(shards) \in Nat
      BY <2>10, GivenFacts DEF IInv, GivenOK
    <3> QED
      BY <2>9, <3>1
  <2>12. PartsKeyed
    BY <2>11 DEF PartsKeyed
  <2>13. SingleOK
    BY <2>9 DEF SingleOK
  <2> QED
    BY <2>8, <2>10, <2>12, <2>13
<1>2. Inv /\ [Next]_vars => Inv'
  <2> SUFFICES ASSUME Inv, [Next]_vars
               PROVE  KeysOK' /\ SingleOK' /\ PartsKeyed'
    <3>1. ASSUME IInv, [Next]_vars
          PROVE  IInv'
      <4>1. ASSUME Next
            PROVE  IInv'
        BY <3>1, <4>1, RouteKeeps, RoutedKeeps, OpenKeeps, GroupByIntKeeps, FallBackKeeps,
           GroupByKeyKeeps, SingleKeeps, SizeKeeps, PlaceKeeps, ProduceKeeps DEF Next
      <4> QED
        BY <3>1, <4>1, NothingKeeps
    <3> QED
      BY <3>1
  <2>1. CASE Next
    BY <2>1, KeyedKeeps
  <2>2. CASE UNCHANGED vars
    <3>1. given' = given /\ shards' = shards /\ parts' = parts /\ sh' = sh /\ pc' = pc
      BY <2>2 DEF vars
    <3> QED
      BY <3>1, KeyedStays
  <2> QED
    BY <2>1, <2>2
<1> HIDE DEF Inv
<1>3. Spec => []Inv
  BY <1>1, <1>2, PTL DEF Spec
<1> QED
  BY <1>3 DEF Inv

(* When every shard is done. *)
LEMMA CompleteFacts ==
  ASSUME IInv, KeysOK, SingleOK, PartsKeyed, Complete
  PROVE  /\ DOMAIN parts = 1 .. Len(parts)
         /\ \A p \in 1 .. Len(parts) : \A i \in ToSet(parts[p]) : i \in AllRows
         /\ \A i \in AllRows : \E p \in 1 .. Len(parts) : i \in ToSet(parts[p])
         /\ \A i, j \in AllRows :
              (\E p \in 1 .. Len(parts) : i \in ToSet(parts[p]) /\ j \in ToSet(parts[p])) <=> SameKey(i, j)
<1>1. GivenOK /\ ProgressOK /\ PartsOK
  BY DEF IInv
<1>2. pc = "open" /\ sh > Len(shards) /\ Len(shards) \in Nat \ {0} /\ sh \in 1 .. (Len(shards) + 1)
  BY <1>1 DEF Complete, GivenOK, ProgressOK
<1>3. \A i \in AllRows : Home(i) < sh
  <2>1. \A i \in AllRows : Home(i) \in 1 .. Len(shards)
    BY <1>1, GivenFacts
  <2> QED
    BY <1>2, <2>1
<1>4. DOMAIN parts = 1 .. Len(parts) /\ \A p \in 1 .. Len(parts) : \A i \in ToSet(parts[p]) : i \in AllRows
  <2>1. parts \in Seq(Seq(AllRows)) /\ DOMAIN parts = 1 .. Len(parts)
    BY <1>1, LenProperties DEF PartsOK
  <2>2. \A p \in DOMAIN parts : parts[p] \in Seq(AllRows)
    BY <2>1, ElementOfSeq
  <2>3. \A p \in DOMAIN parts : \A i \in ToSet(parts[p]) : i \in AllRows
    BY <2>2, LenProperties, ElementOfSeq DEF ToSet
  <2> QED
    BY <2>1, <2>3
<1>5. \A i \in AllRows : \E p \in 1 .. Len(parts) : i \in ToSet(parts[p])
  BY <1>1, <1>2, <1>3 DEF PartsOK
<1>6. ASSUME NEW i \in AllRows, NEW j \in AllRows
      PROVE  (\E p \in 1 .. Len(parts) : i \in ToSet(parts[p]) /\ j \in ToSet(parts[p])) <=> SameKey(i, j)
  <2>1. CASE given.tys = <<>>
    <3>1. SameKey(i, j)
      BY <2>1 DEF SameKey
    <3>2. Len(shards) = 1
      BY <1>1, <2>1 DEF GivenOK
    <3>3. Len(parts) = 1
      BY <1>2, <2>1, <3>2 DEF SingleOK
    <3>4. \A p \in 1 .. Len(parts) : p = 1
      BY <3>3
    <3> QED
      BY <1>5, <3>1, <3>4
  <2>2. CASE given.tys # <<>>
    <3>1. KeyText(given.rows[i]) = KeyText(given.rows[j]) <=> SameKey(i, j)
      BY <1>1, KeysMean
    <3> QED
      BY <1>2, <1>3, <2>2, <3>1 DEF PartsKeyed
  <2> QED
    BY <2>1, <2>2
<1> QED
  BY <1>4, <1>5, <1>6

(***************************************************************************)
(* Plan::partitions gives the classes of the rows under "the same key",    *)
(* each once and in the order of the input: on the raw integers, on the    *)
(* renderings, after a fallback from one to the other, split into shards   *)
(* or not.  Of relations whose keys are plain.                             *)
(***************************************************************************)
THEOREM GroupingExact ==
  ASSUME \A g \in Keyed : Plain(g)
  PROVE  Spec => []PartitionsExact
<1>1. IInv /\ KeysOK /\ SingleOK /\ PartsKeyed => KeysTogether /\ KeysApart
  <2> SUFFICES ASSUME IInv, KeysOK, SingleOK, PartsKeyed, Complete
               PROVE  /\ \A i, j \in AllRows : SameKey(i, j) => \E C \in Classes : {i, j} \subseteq C
                      /\ \A C \in Classes : \A i, j \in C : SameKey(i, j)
    BY DEF KeysTogether, KeysApart
  <2>1. /\ DOMAIN parts = 1 .. Len(parts)
        /\ \A p \in 1 .. Len(parts) : \A i \in ToSet(parts[p]) : i \in AllRows
        /\ \A i, j \in AllRows :
             (\E p \in 1 .. Len(parts) : i \in ToSet(parts[p]) /\ j \in ToSet(parts[p])) <=> SameKey(i, j)
    BY CompleteFacts
  <2>2. ASSUME NEW i \in AllRows, NEW j \in AllRows, SameKey(i, j)
        PROVE  \E C \in Classes : {i, j} \subseteq C
    <3>1. PICK p \in 1 .. Len(parts) : i \in ToSet(parts[p]) /\ j \in ToSet(parts[p])
      BY <2>1, <2>2
    <3>2. ToSet(parts[p]) \in Classes
      BY <2>1 DEF Classes
    <3> QED
      BY <3>1, <3>2
  <2>3. ASSUME NEW C \in Classes, NEW i \in C, NEW j \in C
        PROVE  SameKey(i, j)
    <3>1. PICK p \in 1 .. Len(parts) : C = ToSet(parts[p])
      BY <2>1 DEF Classes
    <3> QED
      BY <2>1, <3>1
  <2> QED
    BY <2>2, <2>3
<1>2. Spec => [](IInv /\ KeysOK /\ SingleOK /\ PartsKeyed)
  BY KeyedPartitions
<1>3. EachRowOnce /\ KeysTogether /\ KeysApart => PartitionsExact
  BY DEF PartitionsExact
<1> QED
  BY <1>1, <1>2, <1>3, RowsOnce, PTL

(***************************************************************************)
(* Splitting a relation into shards (shard.rs: "never a wrong grouping")   *)
(* leaves the partitions what they are of the relation grouped whole,      *)
(* whatever the hash.  Of relations whose keys are plain.                  *)
(***************************************************************************)
THEOREM ShardingHidden ==
  ASSUME \A g \in Keyed : Plain(g)
  PROVE  Spec => []ShardingInvisible
<1>1. IInv /\ KeysOK /\ SingleOK /\ PartsKeyed => ShardingInvisible
  <2> DEFINE Alike(i) == {j \in AllRows : KeyText(given.rows[j]) = KeyText(given.rows[i])}
  <2> SUFFICES ASSUME IInv, KeysOK, SingleOK, PartsKeyed, Complete, given.tys # <<>>
               PROVE  Classes = {Alike(i) : i \in AllRows}
    BY DEF ShardingInvisible
  <2>1. /\ DOMAIN parts = 1 .. Len(parts)
        /\ \A p \in 1 .. Len(parts) : \A i \in ToSet(parts[p]) : i \in AllRows
        /\ \A i \in AllRows : \E p \in 1 .. Len(parts) : i \in ToSet(parts[p])
        /\ \A i, j \in AllRows :
             (\E p \in 1 .. Len(parts) : i \in ToSet(parts[p]) /\ j \in ToSet(parts[p])) <=> SameKey(i, j)
    BY CompleteFacts
  <2>2. \A i, j \in AllRows : KeyText(given.rows[j]) = KeyText(given.rows[i]) <=> SameKey(i, j)
    BY KeysMean DEF IInv
  <2>3. \A p, q \in 1 .. Len(parts) : \A i \in ToSet(parts[p]) : i \in ToSet(parts[q]) => p = q
    BY DEF IInv, PartsOK, Disjoint
  <2>4. ASSUME NEW p \in 1 .. Len(parts), NEW i \in ToSet(parts[p])
        PROVE  ToSet(parts[p]) = Alike(i)
    <3>1. i \in AllRows
      BY <2>1
    <3>2. ASSUME NEW j \in ToSet(parts[p])
          PROVE  j \in Alike(i)
      BY <2>1, <2>2, <3>1
    <3>3. ASSUME NEW j \in Alike(i)
          PROVE  j \in ToSet(parts[p])
      <4>1. PICK q \in 1 .. Len(parts) : i \in ToSet(parts[q]) /\ j \in ToSet(parts[q])
        BY <2>1, <2>2, <3>1
      <4> QED
        BY <2>3, <4>1
    <3> QED
      BY <3>2, <3>3
  <2>5. \A p \in 1 .. Len(parts) : \E i : i \in ToSet(parts[p])
    <3> SUFFICES ASSUME NEW p \in 1 .. Len(parts)
                 PROVE  \E i : i \in ToSet(parts[p])
      OBVIOUS
    <3>1. parts[p] # <<>> /\ parts[p] \in Seq(AllRows)
      BY ElementOfSeq DEF IInv, PartsOK
    <3>2. 1 \in DOMAIN parts[p]
      BY <3>1, LenProperties, EmptySeq
    <3> QED
      BY <3>2 DEF ToSet
  <2> HIDE DEF Alike
  <2>6. ASSUME NEW C \in Classes
        PROVE  \E i \in AllRows : C = Alike(i)
    <3>1. PICK p \in 1 .. Len(parts) : C = ToSet(parts[p])
      BY <2>1 DEF Classes
    <3>2. PICK i : i \in ToSet(parts[p])
      BY <2>5
    <3> QED
      BY <2>1, <2>4, <3>1, <3>2
  <2>7. ASSUME NEW i \in AllRows
        PROVE  Alike(i) \in Classes
    <3>1. PICK p \in 1 .. Len(parts) : i \in ToSet(parts[p])
      BY <2>1
    <3>2. ToSet(parts[p]) \in Classes
      BY <2>1 DEF Classes
    <3> QED
      BY <2>4, <3>1, <3>2
  <2> QED
    BY <2>6, <2>7
<1>2. Spec => [](IInv /\ KeysOK /\ SingleOK /\ PartsKeyed)
  BY KeyedPartitions
<1> QED
  BY <1>1, <1>2, PTL
=============================================================================
