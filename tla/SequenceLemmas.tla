---------------------------- MODULE SequenceLemmas ----------------------------
(***************************************************************************)
(* Facts about naturals and sequences that the proofs of several           *)
(* components need: least and greatest elements, induction stated for      *)
(* sets, what a function defined by recursion along an interval is, where  *)
(* FlattenSeq puts the elements of the sequences it joins, and sequences   *)
(* that repeat no element.                                                 *)
(***************************************************************************)
EXTENDS Naturals, Sequences, FiniteSetsExt, SequencesExt, TLAPS, SequenceTheorems,
        FiniteSetTheorems, WellFoundedInduction

(* Every non-empty set of naturals has a least element.  (Stated for sets,  *)
(* so that it can be cited where an induction would be needed.)             *)
LEMMA LeastNat ==
  ASSUME NEW T \in SUBSET Nat, T # {}
  PROVE  \E x \in T : \A y \in T : x <= y
<1>1. PICK x \in T : \A y \in T : ~ (<<y, x>> \in OpToRel(<, Nat))
  BY NatLessThanWellFounded, WFMin, Zenon
<1>2. \A y \in T : ~ (y < x)
  BY <1>1 DEF OpToRel
<1>. QED  BY <1>2

(* A non-empty set of naturals with an upper bound has a greatest element.  *)
LEMMA GreatestNat ==
  ASSUME NEW n \in Nat, NEW T \in SUBSET (0 .. n), T # {}
  PROVE  \E x \in T : \A y \in T : y <= x
<1>. DEFINE B == {u \in Nat : \A y \in T : y <= u}
<1>1. n \in B  OBVIOUS
<1>2. PICK u \in B : \A v \in B : u <= v
  <2>1. B \in SUBSET Nat  OBVIOUS
  <2>. HIDE DEF B
  <2>. QED  BY <1>1, <2>1, LeastNat
<1>3. u \in T
  <2>1. SUFFICES ASSUME u \notin T PROVE FALSE  OBVIOUS
  <2>2. \A y \in T : y <= u - 1  BY <2>1
  <2>3. u > 0
    <3>1. PICK y \in T : TRUE  OBVIOUS
    <3>. QED  BY <2>1, <3>1
  <2>4. u - 1 \in B  BY <2>2, <2>3
  <2>. QED  BY <1>2, <2>4
<1>. QED  BY <1>3

(* Min, of a non-empty set of naturals, is its least element. *)
LEMMA MinOfSet ==
  ASSUME NEW T \in SUBSET Nat, T # {}
  PROVE  Min(T) \in T /\ \A y \in T : Min(T) <= y
BY LeastNat DEF Min

(* Induction along m .. n: a set that has m and, with each element, the     *)
(* next has all of the interval.                                            *)
LEMMA IntervalInduction ==
  ASSUME NEW m \in Nat, NEW n \in Nat, NEW T, m \in T,
         \A i \in m .. n : i < n /\ i \in T => i + 1 \in T
  PROVE  m .. n \subseteq T
<1>. DEFINE Missing == {i \in m .. n : i \notin T}
<1>1. SUFFICES ASSUME Missing # {} PROVE FALSE  OBVIOUS
<1>2. PICK i \in Missing : \A j \in Missing : i <= j
  <2>1. Missing \in SUBSET Nat  OBVIOUS
  <2>. HIDE DEF Missing
  <2>. QED  BY <1>1, <2>1, LeastNat
<1>3. i > m /\ i - 1 \in m .. n /\ i - 1 \notin Missing  BY <1>2
<1>4. i - 1 \in T /\ i - 1 < n  BY <1>3
<1>5. (i - 1) + 1 \in T  BY <1>3, <1>4
<1>. QED  BY <1>2, <1>5

(* g is what a recursion along 1 .. n defines, by a value at 1 and a step   *)
(* from the value at i - 1 to the one at i.                                 *)
Follows(g, n, A, a, step) ==
  /\ g \in [1 .. n -> A]
  /\ g[1] = a
  /\ \A i \in 2 .. n : g[i] = step[<<i, g[i - 1]>>]

(* Such a recursion has a solution: what CHOOSE picks is one. *)
LEMMA RecursionExists ==
  ASSUME NEW n \in Nat \ {0}, NEW A, NEW a \in A, NEW step \in [(2 .. n) \X A -> A]
  PROVE  \E g : Follows(g, n, A, a, step)
<1>. DEFINE T == {k \in 1 .. n : \E g : Follows(g, k, A, a, step)}
<1>1. 1 \in T
  <2>. DEFINE h == [i \in 1 .. 1 |-> a]
  <2>1. h \in [1 .. 1 -> A] /\ h[1] = a /\ 2 .. 1 = {}  OBVIOUS
  <2>. HIDE DEF h
  <2>. QED  BY <2>1 DEF Follows
<1>2. ASSUME NEW k \in 1 .. n, k < n, k \in T PROVE k + 1 \in T
  <2>1. PICK g \in [1 .. k -> A] : /\ g[1] = a
                                   /\ \A i \in 2 .. k : g[i] = step[<<i, g[i - 1]>>]
    BY <1>2 DEF Follows
  <2>. DEFINE b == step[<<k + 1, g[k]>>]
              h == [i \in 1 .. k + 1 |-> IF i <= k THEN g[i] ELSE b]
  <2>2. g[k] \in A /\ k + 1 \in 2 .. n  BY <1>2, <2>1
  <2>3. b \in A  BY <2>2
  <2>4. h \in [1 .. k + 1 -> A]  BY <2>1, <2>3
  <2>5. h[1] = a  BY <2>1
  <2>6. ASSUME NEW i \in 2 .. k + 1 PROVE h[i] = step[<<i, h[i - 1]>>]
    <3>1. CASE i = k + 1
      <4>1. h[i] = b /\ h[i - 1] = g[k]  BY <3>1
      <4>. QED  BY <3>1, <4>1
    <3>2. CASE i <= k
      <4>1. h[i] = g[i] /\ h[i - 1] = g[i - 1]  BY <3>2
      <4>. QED  BY <2>1, <3>2, <4>1
    <3>. QED  BY <3>1, <3>2
  <2>7. Follows(h, k + 1, A, a, step)
    <3>. HIDE DEF h
    <3>. QED  BY <2>4, <2>5, <2>6 DEF Follows
  <2>. QED  BY <1>2, <2>7
<1>3. n \in T
  <2>. HIDE DEF T
  <2>. QED  BY <1>1, <1>2, IntervalInduction
<1>. QED  BY <1>3

-----------------------------------------------------------------------------
(* Sequences element by element.                                            *)

(* One element more at the end. *)
LEMMA ConcatOne ==
  ASSUME NEW S, NEW s \in Seq(S), NEW x \in S
  PROVE  /\ s \o <<x>> \in Seq(S) /\ Len(s \o <<x>>) = Len(s) + 1
         /\ \A i \in 1 .. Len(s) : (s \o <<x>>)[i] = s[i]
         /\ (s \o <<x>>)[Len(s) + 1] = x
<1>. DEFINE t == s \o <<x>>
            one == <<x>>
<1>1. one \in Seq(S) /\ Len(one) = 1 /\ one[1] = x /\ Len(s) \in Nat  OBVIOUS
<1>. HIDE DEF one
<1>2. s \o one \in Seq(S) /\ Len(s \o one) = Len(s) + 1
  BY <1>1, ConcatProperties
<1>3. ASSUME NEW i \in 1 .. Len(s) + 1
      PROVE  (s \o one)[i] = IF i <= Len(s) THEN s[i] ELSE one[i - Len(s)]
  BY <1>1, ConcatProperties
<1>4. \A i \in 1 .. Len(s) : (s \o one)[i] = s[i]
  <2>. SUFFICES ASSUME NEW i \in 1 .. Len(s) PROVE (s \o one)[i] = s[i]  OBVIOUS
  <2>1. i \in 1 .. Len(s) + 1 /\ i <= Len(s)  BY <1>1
  <2>. QED  BY <1>3, <2>1
<1>5. (s \o one)[Len(s) + 1] = x
  <2>1. Len(s) + 1 \in 1 .. Len(s) + 1 /\ ~(Len(s) + 1 <= Len(s))
        /\ (Len(s) + 1) - Len(s) = 1
    BY <1>1
  <2>. QED  BY <1>1, <1>3, <2>1
<1>. QED  BY <1>2, <1>4, <1>5 DEF one

(* Another element at the front. *)
LEMMA ReplaceHead ==
  ASSUME NEW S, NEW s \in Seq(S), s # <<>>, NEW x \in S
  PROVE  /\ <<x>> \o Tail(s) \in Seq(S) /\ Len(<<x>> \o Tail(s)) = Len(s)
         /\ (<<x>> \o Tail(s))[1] = x
         /\ \A i \in 2 .. Len(s) : (<<x>> \o Tail(s))[i] = s[i]
<1>. DEFINE one == <<x>>
            rest == Tail(s)
<1>1. one \in Seq(S) /\ Len(one) = 1 /\ one[1] = x  OBVIOUS
<1>2. /\ rest \in Seq(S) /\ Len(rest) = Len(s) - 1 /\ Len(s) \in Nat \ {0}
      /\ \A i \in 1 .. Len(rest) : rest[i] = s[i + 1]
  BY HeadTailProperties, EmptySeq
<1>. HIDE DEF one, rest
<1>3. one \o rest \in Seq(S) /\ Len(one \o rest) = Len(s)
  <2>1. one \o rest \in Seq(S) /\ Len(one \o rest) = Len(one) + Len(rest)
    BY <1>1, <1>2, ConcatProperties
  <2>. QED  BY <1>1, <1>2, <2>1
<1>4. ASSUME NEW i \in 1 .. Len(s)
      PROVE  (one \o rest)[i] = IF i <= 1 THEN one[i] ELSE rest[i - 1]
  <2>1. i \in 1 .. Len(one) + Len(rest)  BY <1>1, <1>2
  <2>2. (one \o rest)[i] = IF i <= Len(one) THEN one[i] ELSE rest[i - Len(one)]
    BY <1>1, <1>2, <2>1, ConcatProperties
  <2>. QED  BY <1>1, <2>2
<1>5. (one \o rest)[1] = x
  <2>1. 1 \in 1 .. Len(s) /\ 1 <= 1  BY <1>2
  <2>. QED  BY <1>1, <1>4, <2>1
<1>6. \A i \in 2 .. Len(s) : (one \o rest)[i] = s[i]
  <2>. SUFFICES ASSUME NEW i \in 2 .. Len(s) PROVE (one \o rest)[i] = s[i]  OBVIOUS
  <2>1. i \in 1 .. Len(s) /\ ~(i <= 1) /\ i - 1 \in 1 .. Len(rest) /\ (i - 1) + 1 = i
    BY <1>2
  <2>. QED  BY <1>2, <1>4, <2>1
<1>. QED  BY <1>3, <1>5, <1>6 DEF one, rest

-----------------------------------------------------------------------------
(* Where FlattenSeq puts what it joins.                                     *)

(* off[k] is the sum of the first k lengths. *)
IsOffsets(n, len, off) ==
  /\ off \in [0 .. n -> Nat]
  /\ off[0] = 0
  /\ \A k \in 1 .. n : off[k] = off[k - 1] + len[k]

Lengths(ss) == [k \in 1 .. Len(ss) |-> Len(ss[k])]
Offsets(ss) == CHOOSE off : IsOffsets(Len(ss), Lengths(ss), off)

(* Offsets only grow. *)
LEMMA OffsetsGrow ==
  ASSUME NEW n \in Nat, NEW len \in [1 .. n -> Nat], NEW off, IsOffsets(n, len, off)
  PROVE  \A j, k \in 0 .. n : j <= k => off[j] <= off[k]
<1>0. /\ off \in [0 .. n -> Nat]
      /\ \A k \in 1 .. n : off[k] = off[k - 1] + len[k]
  BY DEF IsOffsets
<1>. SUFFICES ASSUME NEW j \in 0 .. n
              PROVE  \A k \in j .. n : off[j] <= off[k]
  BY <1>0
<1>. DEFINE T == {k \in j .. n : off[j] <= off[k]}
<1>1. j \in T  BY <1>0
<1>2. ASSUME NEW k \in j .. n, k < n, k \in T PROVE k + 1 \in T
  <2>1. k + 1 \in 1 .. n /\ off[k + 1] = off[k] + len[k + 1]
        /\ off[k] \in Nat /\ off[j] \in Nat /\ len[k + 1] \in Nat
    BY <1>0, <1>2
  <2>. QED  BY <1>2, <2>1
<1>3. j .. n \subseteq T
  <2>. HIDE DEF T
  <2>1. j \in Nat  OBVIOUS
  <2>. QED  BY <1>1, <1>2, <2>1, IntervalInduction
<1>. QED  BY <1>3

(* Every list of lengths has offsets. *)
LEMMA OffsetsExist ==
  ASSUME NEW n \in Nat, NEW len \in [1 .. n -> Nat]
  PROVE  \E off : IsOffsets(n, len, off)
<1>. DEFINE m == n + 1
            step == [x \in (2 .. m) \X Nat |-> x[2] + len[x[1] - 1]]
<1>1. step \in [(2 .. m) \X Nat -> Nat]  OBVIOUS
<1>2. PICK g \in [1 .. m -> Nat] :
        /\ g[1] = 0
        /\ \A i \in 2 .. m : g[i] = step[<<i, g[i - 1]>>]
  <2>1. m \in Nat \ {0} /\ 0 \in Nat  OBVIOUS
  <2>2. \E g : Follows(g, m, Nat, 0, step)
    <3>. HIDE DEF step, m
    <3>. QED  BY <1>1, <2>1, RecursionExists
  <2>. HIDE DEF step
  <2>. QED  BY <2>2 DEF Follows
<1>. DEFINE off == [k \in 0 .. n |-> g[k + 1]]
<1>3. off \in [0 .. n -> Nat] /\ off[0] = 0  BY <1>2
<1>4. ASSUME NEW k \in 1 .. n PROVE off[k] = off[k - 1] + len[k]
  <2>1. k + 1 \in 2 .. m /\ g[k] \in Nat /\ (k + 1) - 1 = k  BY <1>2
  <2>2. step[<<k + 1, g[k]>>] = g[k] + len[k]  BY <2>1
  <2>3. g[k + 1] = step[<<k + 1, g[k]>>]
    <3>. HIDE DEF step
    <3>. QED  BY <1>2, <2>1
  <2>. QED  BY <2>2, <2>3
<1>5. IsOffsets(n, len, off)
  <2>. HIDE DEF off
  <2>. QED  BY <1>3, <1>4 DEF IsOffsets
<1>. QED  BY <1>5

(* flat is what joining the first n sequences of ss gives, as far as an     *)
(* index tells: the k-th sequence stands from its offset on.                *)
IsJoin(flat, ss, n, S, off) ==
  /\ flat \in Seq(S)
  /\ Len(flat) = off[n]
  /\ \A k \in 1 .. n : \A i \in 1 .. Len(ss[k]) : flat[off[k - 1] + i] = ss[k][i]

(* What stands within the width of one sequence stands before those that    *)
(* follow it.                                                               *)
LEMMA StandsBefore ==
  ASSUME NEW before \in Nat, NEW width \in Nat, NEW i \in 1 .. width,
         NEW last \in Nat, NEW end \in Nat, before + width <= last, last <= end
  PROVE  /\ before + i \in 1 .. last /\ before + i \in 1 .. end
         /\ before + i <= last
  OBVIOUS

(* And what stands in the last one, after those before it. *)
LEMMA StandsAfter ==
  ASSUME NEW before \in Nat, NEW width \in Nat, NEW i \in 1 .. width,
         NEW end \in Nat, end = before + width
  PROVE  /\ before + i \in 1 .. end /\ ~(before + i <= before)
         /\ (before + i) - before = i
  OBVIOUS

(* Joining one sequence more. *)
LEMMA JoinOneMore ==
  ASSUME NEW S, NEW n \in Nat, NEW ss \in [1 .. n -> Seq(S)], NEW off,
         IsOffsets(n, [k \in 1 .. n |-> Len(ss[k])], off),
         NEW k \in 0 .. n, k < n, NEW flat, IsJoin(flat, ss, k, S, off)
  PROVE  IsJoin(flat \o ss[k + 1], ss, k + 1, S, off)
<1>. DEFINE len == [j \in 1 .. n |-> Len(ss[j])]
            next == ss[k + 1]
            longer == flat \o next
<1>1. len \in [1 .. n -> Nat] /\ IsOffsets(n, len, off)
  <2>1. ASSUME NEW j \in 1 .. n PROVE Len(ss[j]) \in Nat
    <3>1. ss[j] \in Seq(S)  OBVIOUS
    <3>. QED  BY <3>1
  <2>. QED  BY <2>1
<1>2. /\ off \in [0 .. n -> Nat]
      /\ \A j \in 1 .. n : off[j] = off[j - 1] + len[j]
      /\ \A i, j \in 0 .. n : i <= j => off[i] <= off[j]
  <2>. HIDE DEF len
  <2>1. \A i, j \in 0 .. n : i <= j => off[i] <= off[j]  BY <1>1, OffsetsGrow
  <2>. QED  BY <1>1, <2>1 DEF IsOffsets
<1>3. /\ k + 1 \in 1 .. n /\ flat \in Seq(S) /\ next \in Seq(S)
      /\ Len(flat) = off[k] /\ Len(flat) \in Nat
      /\ Len(next) = len[k + 1] /\ Len(next) \in Nat
  BY <1>1 DEF IsJoin
<1>4. off[k + 1] = off[k] + Len(next)
  <2>1. (k + 1) - 1 = k  OBVIOUS
  <2>2. off[k + 1] = off[(k + 1) - 1] + len[k + 1]
    <3>. HIDE DEF len
    <3>. QED  BY <1>2, <1>3, Zenon
  <2>. HIDE DEF len, next
  <2>. QED  BY <1>3, <2>1, <2>2, Zenon
<1>5. /\ longer \in Seq(S)
      /\ Len(longer) = off[k + 1]
      /\ \A i \in 1 .. off[k + 1] :
           longer[i] = IF i <= off[k] THEN flat[i] ELSE next[i - off[k]]
  <2>. HIDE DEF next
  <2>1. /\ longer \in Seq(S)
        /\ Len(longer) = Len(flat) + Len(next)
        /\ \A i \in 1 .. Len(flat) + Len(next) :
             longer[i] = IF i <= Len(flat) THEN flat[i] ELSE next[i - Len(flat)]
    <3>1. longer \in Seq(S) /\ Len(longer) = Len(flat) + Len(next)
      BY <1>3, ConcatProperties
    <3>2. ASSUME NEW i \in 1 .. Len(flat) + Len(next)
          PROVE  longer[i] = IF i <= Len(flat) THEN flat[i] ELSE next[i - Len(flat)]
      BY <1>3, ConcatProperties, SMTT(30)
    <3>. HIDE DEF longer
    <3>. QED  BY <3>1, <3>2
  <2>2. off[k + 1] = Len(flat) + Len(next) /\ off[k] = Len(flat)  BY <1>3, <1>4
  <2>. HIDE DEF longer
  <2>. QED  BY <2>1, <2>2
<1>6. ASSUME NEW j \in 1 .. k + 1, NEW i \in 1 .. Len(ss[j])
      PROVE  longer[off[j - 1] + i] = ss[j][i]
  <2>1. /\ j \in 1 .. n /\ len[j] = Len(ss[j]) /\ len[j] \in Nat
        /\ off[j - 1] \in Nat /\ off[k] \in Nat /\ off[k + 1] \in Nat
    BY <1>1, <1>2, <1>3
  <2>2. off[j] = off[j - 1] + len[j]
    <3>. HIDE DEF len
    <3>. QED  BY <1>2, <2>1
  <2>. HIDE DEF len, longer
  <2>3. CASE j <= k
    <3>1. off[j] <= off[k] /\ off[k] <= off[k + 1]  BY <1>2, <1>3, <2>1, <2>3
    <3>2. i \in 1 .. len[j]  BY <2>1
    <3>3. /\ off[j - 1] + i \in 1 .. off[k] /\ off[j - 1] + i \in 1 .. off[k + 1]
          /\ off[j - 1] + i <= off[k]
      <4>1. off[j - 1] + len[j] <= off[k]  BY <2>2, <3>1
      <4>. DEFINE before == off[j - 1]
                  width == len[j]
                  last == off[k]
                  end == off[k + 1]
      <4>2. /\ before \in Nat /\ width \in Nat /\ i \in 1 .. width /\ last \in Nat /\ end \in Nat
            /\ before + width <= last /\ last <= end
        BY <2>1, <3>1, <3>2, <4>1
      <4>. HIDE DEF before, width, last, end, next
      <4>3. before + i \in 1 .. last /\ before + i \in 1 .. end /\ before + i <= last
        BY <4>2, StandsBefore
      <4>. QED  BY <4>3 DEF before, last, end
    <3>4. longer[off[j - 1] + i] = flat[off[j - 1] + i]  BY <1>5, <3>3
    <3>5. flat[off[j - 1] + i] = ss[j][i]  BY <2>3 DEF IsJoin
    <3>. QED  BY <3>4, <3>5
  <2>4. CASE j = k + 1
    <3>1. /\ off[j - 1] + i \in 1 .. off[k + 1] /\ ~(off[j - 1] + i <= off[k])
          /\ (off[j - 1] + i) - off[k] = i
      <4>1. i \in 1 .. len[j]  BY <2>1
      <4>2. j - 1 = k /\ j = k + 1  BY <2>4
      <4>3. off[j - 1] = off[k] /\ off[k + 1] = off[k] + len[j]
        BY <2>2, <4>2, Zenon
      <4>. DEFINE before == off[k]
                  width == len[j]
                  end == off[k + 1]
      <4>4. /\ before \in Nat /\ width \in Nat /\ i \in 1 .. width
            /\ end \in Nat /\ end = before + width
        BY <2>1, <4>1, <4>3
      <4>. HIDE DEF before, width, end, next
      <4>5. before + i \in 1 .. end /\ ~(before + i <= before) /\ (before + i) - before = i
        BY <4>4, StandsAfter
      <4>. QED  BY <4>3, <4>5 DEF before, end
    <3>. QED  BY <1>5, <2>4, <3>1
  <2>. QED  BY <2>3, <2>4
<1>. HIDE DEF longer
<1>. QED  BY <1>5, <1>6 DEF IsJoin, longer

(* FlattenSeq joins all of them. *)
LEMMA FlattenProperties ==
  ASSUME NEW S, NEW n \in Nat, NEW ss \in [1 .. n -> Seq(S)], Len(ss) = n
  PROVE  /\ Lengths(ss) \in [1 .. n -> Nat]
         /\ IsOffsets(n, Lengths(ss), Offsets(ss))
         /\ IsJoin(FlattenSeq(ss), ss, n, S, Offsets(ss))
<1>. DEFINE off == Offsets(ss)
<1>1. Lengths(ss) \in [1 .. n -> Nat]
  <2>1. ASSUME NEW j \in 1 .. n PROVE Len(ss[j]) \in Nat
    <3>1. ss[j] \in Seq(S)  OBVIOUS
    <3>. QED  BY <3>1
  <2>. QED  BY <2>1 DEF Lengths
<1>2. IsOffsets(n, Lengths(ss), off)
  BY <1>1, OffsetsExist DEF Offsets
<1>. HIDE DEF off
<1>3. CASE n = 0
  <2>1. FlattenSeq(ss) = ss  BY <1>3 DEF FlattenSeq
  <2>2. ss = <<>>  BY <1>3
  <2>. QED  BY <1>1, <1>2, <1>3, <2>1, <2>2 DEF IsJoin, IsOffsets, off
<1>4. CASE n > 0
  <2>. DEFINE Def(g) == [i \in 1 .. n |-> IF i = 1 THEN ss[i] ELSE g[i - 1] \o ss[i]]
              join == [x \in (2 .. n) \X Seq(S) |-> x[2] \o ss[x[1]]]
              f == CHOOSE g : g = Def(g)
  <2>1. FlattenSeq(ss) = f[n]
    <3>1. Len(ss) # 0  BY <1>4
    <3>. QED  BY <3>1, Zenon DEF FlattenSeq
  <2>2. \E g : g = Def(g)
    <3>1. join \in [(2 .. n) \X Seq(S) -> Seq(S)]
      <4>1. ASSUME NEW x \in (2 .. n) \X Seq(S) PROVE x[2] \o ss[x[1]] \in Seq(S)
        <5>1. x[2] \in Seq(S) /\ ss[x[1]] \in Seq(S)  OBVIOUS
        <5>. QED  BY <5>1, ConcatProperties
      <4>. QED  BY <4>1
    <3>2. ss[1] \in Seq(S) /\ n \in Nat \ {0}  BY <1>4
    <3>3. PICK g : Follows(g, n, Seq(S), ss[1], join)
      <4>. HIDE DEF join
      <4>. QED  BY <3>1, <3>2, RecursionExists
    <3>4. ASSUME NEW i \in 1 .. n
          PROVE  g[i] = IF i = 1 THEN ss[i] ELSE g[i - 1] \o ss[i]
      <4>1. CASE i = 1  BY <3>3, <4>1 DEF Follows
      <4>2. CASE i > 1
        <5>1. i \in 2 .. n /\ i - 1 \in 1 .. n  BY <4>2
        <5>2. g[i - 1] \in Seq(S)  BY <3>3, <5>1 DEF Follows
        <5>3. join[<<i, g[i - 1]>>] = g[i - 1] \o ss[i]  BY <5>1, <5>2
        <5>4. g[i] = join[<<i, g[i - 1]>>]
          <6>. HIDE DEF join
          <6>. QED  BY <3>3, <5>1 DEF Follows
        <5>5. i # 1  BY <4>2
        <5>. QED  BY <5>3, <5>4, <5>5
      <4>. QED  BY <4>1, <4>2
    <3>5. g = Def(g)
      <4>1. g = [i \in 1 .. n |-> g[i]]  BY <3>3 DEF Follows
      <4>. QED  BY <3>4, <4>1, Zenon
    <3>. HIDE DEF Def
    <3>. QED  BY <3>5
  <2>3. f = Def(f)
    <3>. HIDE DEF Def
    <3>. QED  BY <2>2
  <2>. HIDE DEF f
  <2>4. ASSUME NEW i \in 1 .. n
        PROVE  f[i] = IF i = 1 THEN ss[i] ELSE f[i - 1] \o ss[i]
    BY <2>3, Zenon
  <2>. DEFINE T == {k \in 1 .. n : IsJoin(f[k], ss, k, S, off)}
  <2>5. 1 \in T
    <3>1. f[1] = ss[1] /\ 1 \in 1 .. n  BY <1>4, <2>4
    <3>2. ss[1] \in Seq(S) /\ Len(ss[1]) \in Nat  BY <3>1
    <3>3. off[0] = 0 /\ off[1] = Len(ss[1])
      <4>1. off[1] = off[0] + Lengths(ss)[1] /\ off[0] = 0
        BY <1>2, <3>1 DEF IsOffsets
      <4>2. Lengths(ss)[1] = Len(ss[1])  BY <3>1 DEF Lengths
      <4>. QED  BY <3>2, <4>1, <4>2
    <3>4. \A k \in 1 .. 1 : k = 1 /\ k - 1 = 0  OBVIOUS
    <3>5. \A i \in 1 .. Len(ss[1]) : 0 + i = i  BY <3>2
    <3>6. IsJoin(f[1], ss, 1, S, off)
      BY <3>1, <3>2, <3>3, <3>4, <3>5 DEF IsJoin
    <3>. QED  BY <3>1, <3>6
  <2>6. ASSUME NEW k \in 1 .. n, k < n, k \in T PROVE k + 1 \in T
    <3>1. k + 1 \in 1 .. n /\ k + 1 # 1 /\ (k + 1) - 1 = k /\ k \in 0 .. n  BY <2>6
    <3>2. f[k + 1] = f[k] \o ss[k + 1]  BY <2>4, <3>1
    <3>3. IsOffsets(n, [j \in 1 .. n |-> Len(ss[j])], off)  BY <1>2 DEF Lengths
    <3>4. IsJoin(f[k] \o ss[k + 1], ss, k + 1, S, off)
      BY <2>6, <3>1, <3>3, JoinOneMore
    <3>. QED  BY <3>1, <3>2, <3>4
  <2>7. n \in T
    <3>1. n \in 1 .. n /\ 1 \in Nat  BY <1>4
    <3>. HIDE DEF T
    <3>. QED  BY <2>5, <2>6, <3>1, IntervalInduction
  <2>. QED  BY <1>1, <1>2, <2>1, <2>7 DEF off
<1>. QED  BY <1>3, <1>4

(* Place r is the i-th of some k-th sequence. *)
Covered(r, n, len, off) == \E k \in 1 .. n : \E i \in 1 .. len[k] : r = off[k - 1] + i

(* Every place of the join is one of some sequence's. *)
LEMMA JoinCovers ==
  ASSUME NEW n \in Nat, NEW len \in [1 .. n -> Nat], NEW off, IsOffsets(n, len, off),
         NEW r \in 1 .. off[n]
  PROVE  Covered(r, n, len, off)
<1>0. /\ off \in [0 .. n -> Nat] /\ off[0] = 0
      /\ \A k \in 1 .. n : off[k] = off[k - 1] + len[k]
  BY DEF IsOffsets
<1>. DEFINE T == {k \in 0 .. n : r <= off[k]}
<1>1. n \in T  BY <1>0
<1>2. PICK k \in T : \A j \in T : k <= j
  <2>1. T \in SUBSET Nat  OBVIOUS
  <2>. HIDE DEF T
  <2>. QED  BY <1>1, <2>1, LeastNat
<1>3. k \in 1 .. n /\ k - 1 \notin T  BY <1>0, <1>2
<1>4. off[k - 1] < r /\ r <= off[k - 1] + len[k] /\ off[k - 1] \in Nat /\ len[k] \in Nat
  BY <1>0, <1>2, <1>3
<1>5. r - off[k - 1] \in 1 .. len[k] /\ r = off[k - 1] + (r - off[k - 1])
  BY <1>3, <1>4
<1>. QED  BY <1>3, <1>5 DEF Covered

-----------------------------------------------------------------------------
(* The place of an element in an order, and sums.                           *)

(* R orders S strictly and totally. *)
Orders(R, S) ==
  /\ \A a \in S : <<a, a>> \notin R
  /\ \A a, b, c \in S : <<a, b>> \in R /\ <<b, c>> \in R => <<a, c>> \in R
  /\ \A a, b \in S : a # b => <<a, b>> \in R \/ <<b, a>> \in R

(* How many elements of S go before n. *)
Preceding(R, S, n) == Cardinality({m \in S : <<m, n>> \in R})

(* Each place is that of an element, and places are ordered as elements.    *)
FillsPlaces(R, S) ==
  /\ Cardinality(S) \in Nat
  /\ \A n \in S : Preceding(R, S, n) \in 0 .. Cardinality(S) - 1
  /\ \A a, b \in S : <<a, b>> \in R => Preceding(R, S, a) < Preceding(R, S, b)
  /\ \A k \in 0 .. Cardinality(S) - 1 : \E n \in S : Preceding(R, S, n) = k

(* In a finite order the elements fill the places, in order. *)
LEMMA PlacesInOrder ==
  ASSUME NEW S, IsFiniteSet(S), NEW R, Orders(R, S)
  PROVE  FillsPlaces(R, S)
<1> DEFINE Below(n) == {m \in S : <<m, n>> \in R}
            rank == [n \in S |-> Cardinality(Below(n))]
            places == 0 .. Cardinality(S) - 1
<1>1. Cardinality(S) \in Nat
  BY FS_CardinalityType
<1>2. ASSUME NEW n \in S
      PROVE  IsFiniteSet(Below(n)) /\ Cardinality(Below(n)) \in places
  <2>1. Below(n) \in SUBSET (S \ {n})
    BY DEF Orders
  <2>2. IsFiniteSet(S \ {n}) /\ Cardinality(S \ {n}) = Cardinality(S) - 1
    BY FS_RemoveElement
  <2>3. IsFiniteSet(Below(n)) /\ Cardinality(Below(n)) <= Cardinality(S) - 1
    <3> DEFINE others == S \ {n}
    <3>1. IsFiniteSet(others) /\ Below(n) \in SUBSET others
      BY <2>1, <2>2
    <3> HIDE DEF others, Below
    <3>2. IsFiniteSet(Below(n)) /\ Cardinality(Below(n)) <= Cardinality(others)
      BY <3>1, FS_Subset
    <3>3. Cardinality(others) = Cardinality(S) - 1
      BY <2>2 DEF others
    <3> QED
      BY <3>2, <3>3
  <2>4. Cardinality(Below(n)) \in Nat
    BY <2>3, FS_CardinalityType
  <2> QED
    BY <1>1, <2>3, <2>4
<1>3. ASSUME NEW a \in S, NEW b \in S, <<a, b>> \in R
      PROVE  Cardinality(Below(a)) < Cardinality(Below(b))
  <2>1. a \notin Below(a) /\ Below(a) \cup {a} \in SUBSET Below(b)
    BY <1>3 DEF Orders
  <2>2. Cardinality(Below(a) \cup {a}) = Cardinality(Below(a)) + 1
    BY <1>2, <2>1, FS_AddElement
  <2>3. Cardinality(Below(a) \cup {a}) <= Cardinality(Below(b))
    BY <1>2, <2>1, FS_Subset
  <2>4. Cardinality(Below(a)) \in Nat /\ Cardinality(Below(b)) \in Nat
    BY <1>2, FS_CardinalityType
  <2> HIDE DEF Below
  <2> QED
    BY <2>2, <2>3, <2>4
<1>4. rank \in Injection(S, places)
  <2>1. rank \in [S -> places]
    BY <1>2
  <2>2. ASSUME NEW a \in S, NEW b \in S, rank[a] = rank[b]
        PROVE  a = b
    <3>1. SUFFICES ASSUME a # b
                   PROVE  FALSE
      OBVIOUS
    <3>2. <<a, b>> \in R \/ <<b, a>> \in R
      BY <3>1 DEF Orders
    <3>3. rank[a] < rank[b] \/ rank[b] < rank[a]
      BY <1>3, <3>2
    <3>4. rank[a] \in Int /\ rank[b] \in Int
      BY <1>1, <2>1
    <3> QED
      BY <2>2, <3>3, <3>4
  <2> QED
    BY <2>1, <2>2 DEF Injection, IsInjective
<1>5. IsFiniteSet(places) /\ Cardinality(places) = Cardinality(S)
  BY <1>1, FS_Interval, SMTT(30)
<1>6. rank \in Surjection(S, places)
  BY <1>4, <1>5, FS_Injection
<1>7. \A k \in places : \E n \in S : rank[n] = k
  BY <1>6 DEF Surjection
<1> QED
  BY <1>1, <1>2, <1>3, <1>7 DEF Preceding, FillsPlaces

(* Offsets are determined by the lengths. *)
LEMMA OffsetsUnique ==
  ASSUME NEW n \in Nat, NEW len \in [1 .. n -> Nat],
         NEW a, IsOffsets(n, len, a), NEW b, NEW m \in Nat, m >= n,
         NEW more, \A k \in 1 .. n : more[k] = len[k], IsOffsets(m, more, b)
  PROVE  \A k \in 0 .. n : a[k] = b[k]
<1> DEFINE T == {k \in 0 .. n : a[k] = b[k]}
<1>1. 0 \in T
  BY DEF IsOffsets
<1>2. ASSUME NEW k \in 0 .. n, k < n /\ k \in T
      PROVE  k + 1 \in T
  <2>1. k + 1 \in 1 .. n /\ k + 1 \in 1 .. m /\ (k + 1) - 1 = k
    BY <1>2
  <2>2. a[k + 1] = a[k] + len[k + 1] /\ b[k + 1] = b[k] + more[k + 1]
    BY <2>1 DEF IsOffsets
  <2> QED
    BY <1>2, <2>1, <2>2
<1>3. 0 .. n \subseteq T
  <2> HIDE DEF T
  <2> QED
    BY <1>1, <1>2, IntervalInduction
<1> QED
  BY <1>3

(* What FlattenSeq joins are the elements of the sequences. *)
LEMMA FlattenMembers ==
  ASSUME NEW S, NEW n \in Nat, NEW ss \in [1 .. n -> Seq(S)], Len(ss) = n
  PROVE  /\ FlattenSeq(ss) \in Seq(S)
         /\ \A x : x \in ToSet(FlattenSeq(ss)) <=> \E k \in 1 .. n : x \in ToSet(ss[k])
<1> DEFINE flat == FlattenSeq(ss)
            off == Offsets(ss)
            len == Lengths(ss)
<1>1. len \in [1 .. n -> Nat] /\ IsOffsets(n, len, off) /\ IsJoin(flat, ss, n, S, off)
  BY FlattenProperties
<1>2. \A k \in 1 .. n : len[k] = Len(ss[k])
  BY DEF Lengths
<1> HIDE DEF flat, off, len
<1>3. /\ flat \in Seq(S) /\ Len(flat) = off[n]
      /\ \A k \in 1 .. n : \A i \in 1 .. Len(ss[k]) : flat[off[k - 1] + i] = ss[k][i]
  BY <1>1 DEF IsJoin
<1>4. /\ off \in [0 .. n -> Nat]
      /\ \A k \in 1 .. n : off[k] = off[k - 1] + len[k]
  BY <1>1 DEF IsOffsets
<1>5. \A j, k \in 0 .. n : j <= k => off[j] <= off[k]
  BY <1>1, OffsetsGrow
<1>6. ASSUME NEW x \in ToSet(flat)
      PROVE  \E k \in 1 .. n : x \in ToSet(ss[k])
  <2>1. PICK r \in 1 .. off[n] : x = flat[r]
    BY <1>3 DEF ToSet
  <2>2. Covered(r, n, len, off)
    BY <1>1, <2>1, JoinCovers
  <2>3. PICK k \in 1 .. n : \E i \in 1 .. len[k] : r = off[k - 1] + i
    BY <2>2 DEF Covered
  <2>4. PICK i \in 1 .. Len(ss[k]) : r = off[k - 1] + i
    BY <1>2, <2>3
  <2>5. x = ss[k][i]
    BY <1>3, <2>1, <2>4
  <2> QED
    BY <2>5 DEF ToSet
<1>7. ASSUME NEW k \in 1 .. n, NEW x \in ToSet(ss[k])
      PROVE  x \in ToSet(flat)
  <2>0. ss[k] \in Seq(S)
    OBVIOUS
  <2>1. PICK i \in 1 .. Len(ss[k]) : x = ss[k][i]
    BY <2>0 DEF ToSet
  <2>2. x = flat[off[k - 1] + i]
    BY <1>3, <2>1
  <2>3. k - 1 \in 0 .. n /\ k \in 0 .. n /\ n \in 0 .. n /\ k <= n
    OBVIOUS
  <2>4. off[k - 1] \in Nat /\ off[k] = off[k - 1] + Len(ss[k]) /\ off[k] <= off[n]
    BY <1>2, <1>4, <1>5, <2>3
  <2>5. off[n] \in Nat /\ off[k] \in Nat
    BY <1>4, <2>3
  <2>6. off[k - 1] + i \in 1 .. off[n]
    BY <2>4, <2>5
  <2>7. DOMAIN flat = 1 .. off[n]
    BY <1>3
  <2> QED
    BY <2>2, <2>6, <2>7 DEF ToSet
<1> QED
  BY <1>3, <1>6, <1>7 DEF flat

(* What stands in a sequence is one of its elements. *)
LEMMA StandsIn ==
  ASSUME NEW S, NEW s \in Seq(S), NEW i \in 1 .. Len(s)
  PROVE  s[i] \in ToSet(s)
BY DEF ToSet

(* Place r of a join is a place of one of the sequences joined. *)
StandsAt(r, ss) ==
  \E k \in 1 .. Len(ss) : \E i \in 1 .. Len(ss[k]) :
    r = Offsets(ss)[k - 1] + i /\ FlattenSeq(ss)[r] = ss[k][i]

(* So is every place. *)
LEMMA FlattenPlaces ==
  ASSUME NEW S, NEW n \in Nat, NEW ss \in [1 .. n -> Seq(S)], Len(ss) = n,
         NEW r \in 1 .. Len(FlattenSeq(ss))
  PROVE  StandsAt(r, ss)
<1> DEFINE flat == FlattenSeq(ss)
            off == Offsets(ss)
            len == Lengths(ss)
<1>1. len \in [1 .. n -> Nat] /\ IsOffsets(n, len, off) /\ IsJoin(flat, ss, n, S, off)
  BY FlattenProperties
<1>2. \A k \in 1 .. n : len[k] = Len(ss[k])
  BY DEF Lengths
<1> HIDE DEF flat, off, len
<1>3. /\ Len(flat) = off[n]
      /\ \A k \in 1 .. n : \A i \in 1 .. Len(ss[k]) : flat[off[k - 1] + i] = ss[k][i]
  BY <1>1 DEF IsJoin
<1>4. r \in 1 .. off[n]
  BY <1>3 DEF flat
<1>5. Covered(r, n, len, off)
  BY <1>1, <1>4, JoinCovers
<1>6. PICK k \in 1 .. n : \E i \in 1 .. len[k] : r = off[k - 1] + i
  BY <1>5 DEF Covered
<1>7. PICK i \in 1 .. len[k] : r = off[k - 1] + i
  BY <1>6
<1>8. i \in 1 .. Len(ss[k]) /\ flat[r] = ss[k][i]
  BY <1>2, <1>3, <1>7
<1> QED
  BY <1>7, <1>8 DEF StandsAt, flat, off

(* What follows place c of a sequence. *)
LEMMA RestOf ==
  ASSUME NEW S, NEW s \in Seq(S), NEW c \in Nat, NEW left, left = SubSeq(s, c + 1, Len(s))
  PROVE  /\ left \in Seq(S)
         /\ \A i \in 1 .. Len(left) : c + i \in 1 .. Len(s) /\ c < c + i /\ left[i] = s[c + i]
         /\ \A i \in 1 .. Len(s) : c < i => i - c \in 1 .. Len(left) /\ left[i - c] = s[i]
<1>1. Len(s) \in Nat
  OBVIOUS
<1>2. CASE c <= Len(s)
  <2>1. c + 1 \in 1 .. Len(s) + 1 /\ Len(s) \in (c + 1) - 1 .. Len(s)
    BY <1>1, <1>2
  <2>2. /\ left \in Seq(S) /\ Len(left) = Len(s) - (c + 1) + 1
        /\ \A i \in 1 .. Len(s) - (c + 1) + 1 : left[i] = s[(c + 1) + i - 1]
    BY <2>1, SubSeqProperties
  <2>3. Len(left) = Len(s) - c /\ \A i \in 1 .. Len(s) - c : left[i] = s[c + i]
    <3>1. Len(s) - (c + 1) + 1 = Len(s) - c
      BY <1>1
    <3>2. ASSUME NEW i \in 1 .. Len(s) - c
          PROVE  (c + 1) + i - 1 = c + i
      BY <1>1
    <3> QED
      BY <2>2, <3>1, <3>2
  <2>4. ASSUME NEW i \in 1 .. Len(left)
        PROVE  c + i \in 1 .. Len(s) /\ c < c + i /\ left[i] = s[c + i]
    BY <1>1, <1>2, <2>3
  <2>5. ASSUME NEW i \in 1 .. Len(s), c < i
        PROVE  i - c \in 1 .. Len(left) /\ left[i - c] = s[i]
    <3>1. i - c \in 1 .. Len(s) - c /\ c + (i - c) = i
      BY <1>1, <1>2, <2>5
    <3> QED
      BY <2>3, <3>1
  <2> QED
    BY <2>2, <2>4, <2>5
<1>3. CASE ~(c <= Len(s))
  <2>1. left = <<>>
    BY <1>1, <1>3, SubSeqEmpty
  <2>2. 1 .. Len(left) = {} /\ left \in Seq(S)
    BY <2>1
  <2>3. \A i \in 1 .. Len(s) : ~(c < i)
    BY <1>1, <1>3
  <2> QED
    BY <2>2, <2>3
<1> QED
  BY <1>2, <1>3

(* Sequences without a repetition.                                          *)

Distinct(s) == \A i, j \in 1 .. Len(s) : s[i] = s[j] => i = j
Disjoint(a, b) == \A x \in ToSet(a) : x \notin ToSet(b)

(* Two such sequences without a common element. *)
LEMMA DistinctConcat ==
  ASSUME NEW S, NEW a \in Seq(S), NEW b \in Seq(S), Distinct(a), Distinct(b), Disjoint(a, b)
  PROVE  Distinct(a \o b)
<1> DEFINE ab == a \o b
<1>1. /\ Len(ab) = Len(a) + Len(b) /\ Len(a) \in Nat /\ Len(b) \in Nat
      /\ \A i \in 1 .. Len(a) + Len(b) : ab[i] = IF i <= Len(a) THEN a[i] ELSE b[i - Len(a)]
  BY ConcatProperties
<1> HIDE DEF ab
<1>2. ASSUME NEW i \in 1 .. Len(ab)
      PROVE  \/ i \in 1 .. Len(a) /\ ab[i] = a[i] /\ ab[i] \in ToSet(a)
             \/ /\ i - Len(a) \in 1 .. Len(b) /\ ab[i] = b[i - Len(a)]
                /\ ab[i] \in ToSet(b)
  <2>1. CASE i <= Len(a)
    <3>1. i \in 1 .. Len(a)
      BY <1>1, <2>1
    <3> QED
      BY <1>1, <2>1, <3>1 DEF ToSet
  <2>2. CASE ~(i <= Len(a))
    <3>1. i - Len(a) \in 1 .. Len(b)
      BY <1>1, <2>2
    <3> QED
      BY <1>1, <2>2, <3>1 DEF ToSet
  <2> QED
    BY <2>1, <2>2
<1> SUFFICES ASSUME NEW i \in 1 .. Len(ab), NEW j \in 1 .. Len(ab), ab[i] = ab[j]
             PROVE  i = j
  BY DEF Distinct, ab
<1>3. CASE i \in 1 .. Len(a) /\ ab[i] = a[i] /\ j \in 1 .. Len(a) /\ ab[j] = a[j]
  BY <1>3 DEF Distinct
<1>4. CASE /\ i - Len(a) \in 1 .. Len(b) /\ ab[i] = b[i - Len(a)]
           /\ j - Len(a) \in 1 .. Len(b) /\ ab[j] = b[j - Len(a)]
  <2>1. i - Len(a) = j - Len(a)
    BY <1>4 DEF Distinct
  <2>2. Len(a) \in Int /\ i \in Int /\ j \in Int
    BY <1>1
  <2> QED
    BY <2>1, <2>2
<1>5. ~(ab[i] \in ToSet(a) /\ ab[j] \in ToSet(b)) /\ ~(ab[i] \in ToSet(b) /\ ab[j] \in ToSet(a))
  BY DEF Disjoint
<1> QED
  BY <1>2, <1>3, <1>4, <1>5

(* Many of them, no two with a common element. *)
LEMMA DistinctJoin ==
  ASSUME NEW S, NEW n \in Nat, NEW ss \in [1 .. n -> Seq(S)], Len(ss) = n,
         \A k \in 1 .. n : Distinct(ss[k]),
         \A k, l \in 1 .. n : k # l => Disjoint(ss[k], ss[l])
  PROVE  Distinct(FlattenSeq(ss))
<1> DEFINE flat == FlattenSeq(ss)
<1>1. ASSUME NEW p \in 1 .. Len(flat)
      PROVE  StandsAt(p, ss)
  BY <1>1, FlattenPlaces
<1> HIDE DEF flat
<1> SUFFICES ASSUME NEW p \in 1 .. Len(flat), NEW q \in 1 .. Len(flat), flat[p] = flat[q]
             PROVE  p = q
  BY DEF Distinct, flat
<1>2. PICK k \in 1 .. n : \E i \in 1 .. Len(ss[k]) : p = Offsets(ss)[k - 1] + i /\ flat[p] = ss[k][i]
  BY <1>1 DEF StandsAt, flat
<1>3. PICK i \in 1 .. Len(ss[k]) : p = Offsets(ss)[k - 1] + i /\ flat[p] = ss[k][i]
  BY <1>2
<1>4. PICK l \in 1 .. n : \E j \in 1 .. Len(ss[l]) : q = Offsets(ss)[l - 1] + j /\ flat[q] = ss[l][j]
  BY <1>1 DEF StandsAt, flat
<1>5. PICK j \in 1 .. Len(ss[l]) : q = Offsets(ss)[l - 1] + j /\ flat[q] = ss[l][j]
  BY <1>4
<1>6. k = l
  <2>1. ss[k][i] \in ToSet(ss[k]) /\ ss[l][j] \in ToSet(ss[l])
    BY DEF ToSet
  <2> QED
    BY <1>3, <1>5, <2>1 DEF Disjoint
<1>7. i = j
  BY <1>3, <1>5, <1>6 DEF Distinct
<1> QED
  BY <1>3, <1>5, <1>6, <1>7

(* Such a sequence is as long as it has elements. *)
LEMMA DistinctCount ==
  ASSUME NEW S, NEW s \in Seq(S), Distinct(s)
  PROVE  Len(s) = Cardinality(ToSet(s))
<1> DEFINE n == Len(s)
<1>1. n \in Nat /\ s \in [1 .. n -> S]
  OBVIOUS
<1>2. ToSet(s) = {s[i] : i \in 1 .. n}
  BY DEF ToSet
<1> HIDE DEF n
<1>3. s \in Bijection(1 .. n, ToSet(s))
  <2>1. s \in [1 .. n -> ToSet(s)]
    BY <1>1, <1>2
  <2>2. \A i, j \in 1 .. n : s[i] = s[j] => i = j
    BY DEF Distinct, n
  <2>3. \A x \in ToSet(s) : \E i \in 1 .. n : s[i] = x
    BY <1>2
  <2> QED
    BY <2>1, <2>2, <2>3 DEF Bijection, Injection, Surjection, IsInjective
<1>4. ExistsBijection(1 .. n, ToSet(s))
  BY <1>3 DEF ExistsBijection
<1> QED
  BY <1>1, <1>4, FS_CountingElements DEF n
=============================================================================
