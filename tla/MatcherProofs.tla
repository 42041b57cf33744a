---------------------------- MODULE MatcherProofs ----------------------------
(***************************************************************************)
(* Proofs about the matcher, for every program, tape, DEFINE, set of       *)
(* aggregates, skip mode and budget.                                       *)
(*                                                                         *)
(* Typing alone is not inductive: truncating binds is well-typed only      *)
(* because no pending alternative asks for more rows than are bound.  The  *)
(* inductive invariant is TypeOK with PathInv, what the path, the pending  *)
(* alternatives and the history variable have to do with one another.      *)
(***************************************************************************)
EXTENDS Matcher, SequenceLemmas

-----------------------------------------------------------------------------
(* The label index.  Push and Truncate keep an exact index exact, in        *)
(* lockstep with `binds`, and LastBefore then answers as a backwards scan   *)
(* of `binds` would.                                                        *)


(* A list of naturals whose entries ascend. *)
Ascending(list) ==
  \A k, m \in 1 .. Len(list) : k < m => list[k] < list[m]

(* Popping stops somewhere in the list. *)
LEMMA KeptStops ==
  ASSUME NEW list \in Seq(Nat), NEW n \in Nat
  PROVE  /\ Kept(list, n) \in 0 .. Len(list)
         /\ Kept(list, n) = 0 \/ list[Kept(list, n)] <= n
         /\ \A m \in Kept(list, n) + 1 .. Len(list) : list[m] > n
<1>. DEFINE Stops(k) == /\ k = 0 \/ list[k] <= n
                        /\ \A m \in k + 1 .. Len(list) : list[m] > n
            T == {0} \cup {k \in 1 .. Len(list) : list[k] <= n}
<1>0. Len(list) \in Nat /\ \A k \in 1 .. Len(list) : list[k] \in Nat
  OBVIOUS
<1>1. \E k \in 0 .. Len(list) : Stops(k)
  <2>1. PICK k \in T : \A y \in T : y <= k
    <3>1. T \in SUBSET (0 .. Len(list)) /\ T # {}  BY <1>0
    <3>. HIDE DEF T
    <3>. QED  BY <1>0, <3>1, GreatestNat
  <2>2. k \in 0 .. Len(list) /\ (k = 0 \/ list[k] <= n)
    BY <1>0, <2>1
  <2>3. ASSUME NEW m \in k + 1 .. Len(list) PROVE list[m] > n
    BY <1>0, <2>1, <2>2
  <2>. QED  BY <2>2, <2>3
<1>2. Kept(list, n) \in 0 .. Len(list) /\ Stops(Kept(list, n))
  <2>1. Kept(list, n) = CHOOSE k \in 0 .. Len(list) : Stops(k)
    BY DEF Kept
  <2>. HIDE DEF Stops
  <2>. QED  BY <1>1, <2>1
<1>. QED  BY <1>2

(* What is kept of an ascending list is exactly what is not beyond n.       *)
LEMMA KeptProperties ==
  ASSUME NEW list \in Seq(Nat), Ascending(list), NEW n \in Nat
  PROVE  /\ Kept(list, n) \in 0 .. Len(list)
         /\ \A k \in 1 .. Len(list) : list[k] <= n <=> k <= Kept(list, n)
<1>0. Len(list) \in Nat /\ \A k \in 1 .. Len(list) : list[k] \in Nat
  OBVIOUS
<1>. DEFINE cut == Kept(list, n)
<1>1. /\ cut \in 0 .. Len(list)
      /\ cut = 0 \/ list[cut] <= n
      /\ \A m \in cut + 1 .. Len(list) : list[m] > n
  BY KeptStops
<1>. HIDE DEF cut
<1>2. ASSUME NEW k \in 1 .. Len(list) PROVE list[k] <= n <=> k <= cut
  <2>1. CASE k <= cut
    <3>1. cut \in 1 .. Len(list) /\ list[cut] <= n  BY <1>0, <1>1, <2>1
    <3>2. k = cut \/ list[k] < list[cut]  BY <1>0, <2>1, <3>1 DEF Ascending
    <3>. QED  BY <1>0, <2>1, <3>1, <3>2
  <2>2. CASE k > cut
    <3>1. list[k] > n  BY <1>0, <1>1, <2>2
    <3>. QED  BY <1>0, <1>1, <2>2, <3>1
  <2>. QED  BY <1>0, <1>1, <2>1, <2>2
<1>. QED  BY <1>1, <1>2 DEF cut

(* Truncating an index of lists gives an index of lists. *)
LEMMA TruncateType ==
  ASSUME NEW ix \in [Label -> Seq(Nat)], NEW n \in Nat
  PROVE  Truncate(ix, n) \in [Label -> Seq(Nat)]
<1>1. ASSUME NEW l \in Label
      PROVE  SubSeq(ix[l], 1, Kept(ix[l], n)) \in Seq(Nat)
  <2>1. ix[l] \in Seq(Nat)  OBVIOUS
  <2>2. Kept(ix[l], n) \in 0 .. Len(ix[l])  BY <2>1, KeptStops
  <2>. QED  BY <2>1, <2>2
<1>. QED  BY <1>1 DEF Truncate

(* Exactness, given as the facts a proof uses. *)
LEMMA ExactFacts ==
  ASSUME NEW ix \in [Label -> Seq(Nat)], NEW bs, Exact(ix, bs),
         NEW l \in Label
  PROVE  /\ ix[l] \in Seq(Nat)
         /\ Ascending(ix[l])
         /\ \A k \in 1 .. Len(ix[l]) :
              ix[l][k] \in 1 .. Len(bs) /\ Covers(l, bs[ix[l][k]].var)
         /\ \A b \in 1 .. Len(bs) :
              Covers(l, bs[b].var) => \E k \in 1 .. Len(ix[l]) : ix[l][k] = b
BY DEF Exact, Ascending

(* An empty index is exact for no binds. *)
LEMMA NoBindsExact == NoBinds \in [Label -> Seq(Nat)] /\ Exact(NoBinds, <<>>)
BY DEF NoBinds, Exact

(* Push keeps the index exact when the bind is appended with it. *)
LEMMA PushExact ==
  ASSUME NEW S, NEW bs \in Seq(S), NEW bind \in S,
         NEW ix \in [Label -> Seq(Nat)], Exact(ix, bs)
  PROVE  LET new == Push(ix, Len(bs) + 1, bind.var)
         IN  new \in [Label -> Seq(Nat)] /\ Exact(new, Append(bs, bind))
<1>. DEFINE n == Len(bs) + 1
            longer == Append(bs, bind)
            new == Push(ix, n, bind.var)
<1>0. /\ Len(bs) \in Nat /\ Len(longer) = n
      /\ longer[n] = bind
      /\ \A b \in 1 .. Len(bs) : longer[b] = bs[b]
  OBVIOUS
<1>1. new \in [Label -> Seq(Nat)]
  BY <1>0 DEF Push
<1>2. ASSUME NEW l \in Label
      PROVE  /\ \A k \in 1 .. Len(new[l]) :
                  new[l][k] \in 1 .. n /\ Covers(l, longer[new[l][k]].var)
             /\ Ascending(new[l])
             /\ \A b \in 1 .. n :
                  Covers(l, longer[b].var) => \E k \in 1 .. Len(new[l]) : new[l][k] = b
  <2>. DEFINE old == ix[l]
  <2>0. /\ old \in Seq(Nat) /\ Ascending(old)
        /\ \A k \in 1 .. Len(old) :
             old[k] \in 1 .. Len(bs) /\ Covers(l, bs[old[k]].var)
        /\ \A b \in 1 .. Len(bs) :
             Covers(l, bs[b].var) => \E k \in 1 .. Len(old) : old[k] = b
    BY ExactFacts
  <2>1. CASE Covers(l, bind.var)
    <3>1. new[l] = Append(old, n)  BY <2>1 DEF Push
    <3>b. n \in Nat  BY <1>0
    <3>. HIDE DEF new, longer, old, n
    <3>a. Len(old) \in Nat  BY <2>0
    <3>2. /\ Len(new[l]) = Len(old) + 1 /\ new[l][Len(old) + 1] = n
          /\ \A k \in 1 .. Len(old) : new[l][k] = old[k]
      BY <2>0, <3>b, <3>1, AppendProperties
    <3>c. 1 .. Len(new[l]) = 1 .. Len(old) + 1
      BY <3>2
    <3>. USE DEF n
    <3>3. ASSUME NEW k \in 1 .. Len(new[l])
          PROVE  new[l][k] \in 1 .. n /\ Covers(l, longer[new[l][k]].var)
      <4>1. CASE k = Len(old) + 1
        <5>1. new[l][k] = n  BY <3>2, <4>1
        <5>. QED  BY <1>0, <2>1, <5>1
      <4>2. CASE k # Len(old) + 1
        <5>0. k \in 1 .. Len(old)  BY <3>a, <3>c, <4>2
        <5>1. k \in 1 .. Len(old) /\ new[l][k] = old[k]  BY <3>2, <5>0
        <5>2. old[k] \in 1 .. Len(bs) /\ Covers(l, bs[old[k]].var)
          BY <2>0, <5>1
        <5>3. longer[old[k]] = bs[old[k]]  BY <1>0, <5>2
        <5>. QED  BY <1>0, <5>1, <5>2, <5>3
      <4>. QED  BY <4>1, <4>2
    <3>4. Ascending(new[l])
      <4>1. SUFFICES ASSUME NEW k \in 1 .. Len(new[l]), NEW m \in 1 .. Len(new[l]), k < m
                     PROVE  new[l][k] < new[l][m]
        BY DEF Ascending
      <4>2. k \in 1 .. Len(old) /\ new[l][k] = old[k] /\ old[k] \in 1 .. Len(bs)
        <5>1. k \in 1 .. Len(old) + 1 /\ m \in 1 .. Len(old) + 1 /\ k < m
          BY <3>c, <4>1
        <5>2. k \in 1 .. Len(old)
          BY <3>a, <5>1
        <5>3. new[l][k] = old[k]
          BY <3>2, <5>2
        <5>4. old[k] \in 1 .. Len(bs)
          BY <2>0, <5>2
        <5>. QED  BY <5>2, <5>3, <5>4
      <4>3. CASE m = Len(old) + 1
        <5>1. new[l][m] = n  BY <3>2, <4>3
        <5>. QED  BY <1>0, <4>2, <5>1
      <4>4. CASE m # Len(old) + 1
        <5>0. m \in 1 .. Len(old)  BY <3>a, <3>c, <4>4
        <5>1. m \in 1 .. Len(old) /\ new[l][m] = old[m]  BY <3>2, <5>0
        <5>. QED  BY <2>0, <4>1, <4>2, <5>1 DEF Ascending
      <4>. QED  BY <4>3, <4>4
    <3>5. ASSUME NEW b \in 1 .. n, Covers(l, longer[b].var)
          PROVE  \E k \in 1 .. Len(new[l]) : new[l][k] = b
      <4>1. CASE b = n
        <5>1. Len(old) + 1 \in 1 .. Len(new[l])  BY <3>a, <3>2
        <5>. QED  BY <3>2, <4>1, <5>1
      <4>2. CASE b # n
        <5>1. b \in 1 .. Len(bs)  BY <1>0, <4>2
        <5>2. longer[b] = bs[b]  BY <1>0, <5>1
        <5>3. PICK k \in 1 .. Len(old) : old[k] = b
          BY <2>0, <3>5, <5>1, <5>2
        <5>4. k \in 1 .. Len(new[l]) /\ new[l][k] = old[k]  BY <3>a, <3>2
        <5>. QED  BY <5>3, <5>4
      <4>. QED  BY <4>1, <4>2
    <3>. QED  BY <3>3, <3>4, <3>5
  <2>2. CASE ~Covers(l, bind.var)
    <3>1. new[l] = old  BY <2>2 DEF Push
    <3>. HIDE DEF new, longer, old
    <3>2. ASSUME NEW k \in 1 .. Len(old)
          PROVE  old[k] \in 1 .. n /\ Covers(l, longer[old[k]].var)
      <4>1. old[k] \in 1 .. Len(bs) /\ Covers(l, bs[old[k]].var)
        BY <2>0
      <4>2. longer[old[k]] = bs[old[k]]  BY <1>0, <4>1
      <4>. QED  BY <1>0, <4>1, <4>2
    <3>3. ASSUME NEW b \in 1 .. n, Covers(l, longer[b].var)
          PROVE  \E k \in 1 .. Len(old) : old[k] = b
      <4>1. b # n  BY <1>0, <2>2, <3>3
      <4>2. b \in 1 .. Len(bs)  BY <1>0, <4>1
      <4>3. longer[b] = bs[b]  BY <1>0, <4>2
      <4>. QED  BY <2>0, <3>3, <4>2, <4>3
    <3>. QED  BY <2>0, <3>1, <3>2, <3>3
  <2>. QED  BY <2>1, <2>2
<1>3. Exact(new, longer)
  <2>. HIDE DEF new, longer
  <2>. QED  BY <1>0, <1>2 DEF Exact, Ascending
<1>. QED  BY <1>1, <1>3

(* Truncate keeps the index exact when binds is truncated with it. *)
LEMMA TruncateExact ==
  ASSUME NEW S, NEW bs \in Seq(S), NEW n \in 0 .. Len(bs),
         NEW ix \in [Label -> Seq(Nat)], Exact(ix, bs)
  PROVE  /\ Truncate(ix, n) \in [Label -> Seq(Nat)]
         /\ Exact(Truncate(ix, n), SubSeq(bs, 1, n))
<1>. DEFINE shorter == SubSeq(bs, 1, n)
            new == Truncate(ix, n)
<1>0. /\ Len(bs) \in Nat /\ n \in Nat
      /\ Len(shorter) = n /\ \A b \in 1 .. n : shorter[b] = bs[b]
  OBVIOUS
<1>2. ASSUME NEW l \in Label
      PROVE  /\ new[l] \in Seq(Nat)
             /\ \A k \in 1 .. Len(new[l]) :
                  new[l][k] \in 1 .. n /\ Covers(l, shorter[new[l][k]].var)
             /\ Ascending(new[l])
             /\ \A b \in 1 .. n :
                  Covers(l, shorter[b].var) => \E k \in 1 .. Len(new[l]) : new[l][k] = b
  <2>. DEFINE old == ix[l]
              cut == Kept(old, n)
  <2>0. /\ old \in Seq(Nat) /\ Ascending(old)
        /\ \A k \in 1 .. Len(old) :
             old[k] \in 1 .. Len(bs) /\ Covers(l, bs[old[k]].var)
        /\ \A b \in 1 .. Len(bs) :
             Covers(l, bs[b].var) => \E k \in 1 .. Len(old) : old[k] = b
    BY ExactFacts
  <2>1. /\ cut \in 0 .. Len(old)
        /\ \A k \in 1 .. Len(old) : old[k] <= n <=> k <= cut
    <3>. HIDE DEF old
    <3>. QED  BY <1>0, <2>0, KeptProperties
  <2>2. new[l] = SubSeq(old, 1, cut)  BY DEF Truncate
  <2>3. /\ new[l] \in Seq(Nat) /\ Len(new[l]) = cut
        /\ \A k \in 1 .. cut : new[l][k] = old[k]
    <3>. HIDE DEF old, cut, new
    <3>. QED  BY <2>0, <2>1, <2>2
  <2>. HIDE DEF new, shorter, old, cut
  <2>a. Len(old) \in Nat /\ cut \in Nat /\ cut <= Len(old)  BY <2>0, <2>1
  <2>4. ASSUME NEW k \in 1 .. Len(new[l])
        PROVE  new[l][k] \in 1 .. n /\ Covers(l, shorter[new[l][k]].var)
    <3>1. k \in 1 .. cut /\ k \in 1 .. Len(old)  BY <2>a, <2>3
    <3>2. new[l][k] = old[k] /\ old[k] <= n  BY <2>1, <2>3, <3>1
    <3>3. old[k] \in 1 .. Len(bs) /\ Covers(l, bs[old[k]].var)
      BY <2>0, <3>1
    <3>4. old[k] \in 1 .. n  BY <1>0, <3>2, <3>3
    <3>5. shorter[old[k]] = bs[old[k]]  BY <1>0, <3>4
    <3>. QED  BY <3>2, <3>3, <3>4, <3>5
  <2>5. Ascending(new[l])
    <3>1. SUFFICES ASSUME NEW k \in 1 .. Len(new[l]), NEW m \in 1 .. Len(new[l]), k < m
                   PROVE  new[l][k] < new[l][m]
      BY DEF Ascending
    <3>2. k \in 1 .. Len(old) /\ m \in 1 .. Len(old)  BY <2>a, <2>3
    <3>3. new[l][k] = old[k] /\ new[l][m] = old[m]  BY <2>3
    <3>. QED  BY <2>0, <3>1, <3>2, <3>3 DEF Ascending
  <2>6. ASSUME NEW b \in 1 .. n, Covers(l, shorter[b].var)
        PROVE  \E k \in 1 .. Len(new[l]) : new[l][k] = b
    <3>0. b \in 1 .. Len(bs) /\ shorter[b] = bs[b] /\ b <= n  BY <1>0
    <3>1. PICK k \in 1 .. Len(old) : old[k] = b
      BY <2>0, <2>6, <3>0
    <3>2. k <= cut  BY <2>1, <3>0, <3>1
    <3>3. k \in 1 .. cut /\ k \in 1 .. Len(new[l])  BY <2>a, <2>3, <3>2
    <3>4. new[l][k] = old[k]  BY <2>3, <3>3
    <3>. QED  BY <3>1, <3>3, <3>4
  <2>. QED  BY <2>3, <2>4, <2>5, <2>6
<1>3. new \in [Label -> Seq(Nat)]
  <2>1. new = [l \in Label |-> new[l]]  BY DEF Truncate
  <2>. HIDE DEF new
  <2>. QED  BY <1>2, <2>1
<1>4. Exact(new, shorter)
  <2>. HIDE DEF new, shorter
  <2>. QED  BY <1>0, <1>2 DEF Exact, Ascending
<1>. QED  BY <1>3, <1>4

(* An exact index answers LAST as a scan of the visible binds would: the    *)
(* lookup of last_bind_labelled and its fallback agree, at any horizon.     *)
THEOREM LastBeforeIsScan ==
  ASSUME NEW bs, Len(bs) \in Nat, NEW ix \in [Label -> Seq(Nat)],
         Exact(ix, bs), NEW l \in Label, NEW horizon \in 0 .. Len(bs)
  PROVE  LastBefore(ix, l, horizon) = LastByScan(bs, l, horizon)
<1>. DEFINE list == ix[l]
            cut == Kept(list, horizon)
            covered == {k \in 1 .. horizon : Covers(l, bs[k].var)}
<1>0. /\ list \in Seq(Nat) /\ Ascending(list)
      /\ \A k \in 1 .. Len(list) :
           list[k] \in 1 .. Len(bs) /\ Covers(l, bs[list[k]].var)
      /\ \A b \in 1 .. Len(bs) :
           Covers(l, bs[b].var) => \E k \in 1 .. Len(list) : list[k] = b
  BY ExactFacts
<1>1. /\ cut \in 0 .. Len(list)
      /\ \A k \in 1 .. Len(list) : list[k] <= horizon <=> k <= cut
  <2>. HIDE DEF list
  <2>. QED  BY <1>0, KeptProperties
<1>2. LastBefore(ix, l, horizon) = IF cut = 0 THEN 0 ELSE list[cut]
  BY DEF LastBefore
<1>3. LastByScan(bs, l, horizon)
        = IF covered = {} THEN 0 ELSE CHOOSE k \in covered : \A m \in covered : m <= k
  BY DEF LastByScan
<1>. HIDE DEF list, cut
<1>a. Len(list) \in Nat /\ cut \in Nat /\ cut <= Len(list)  BY <1>0, <1>1
<1>4. ASSUME NEW b \in covered PROVE \E k \in 1 .. cut : list[k] = b
  <2>1. b \in 1 .. Len(bs) /\ b <= horizon /\ Covers(l, bs[b].var)
    OBVIOUS
  <2>2. PICK k \in 1 .. Len(list) : list[k] = b  BY <1>0, <2>1
  <2>3. k <= cut  BY <1>1, <2>1, <2>2
  <2>. QED  BY <1>a, <2>2, <2>3
<1>5. CASE cut = 0
  BY <1>2, <1>3, <1>4, <1>5
<1>6. CASE cut # 0
  <2>0. cut \in 1 .. Len(list)  BY <1>a, <1>6
  <2>1. list[cut] \in covered
    <3>1. list[cut] <= horizon  BY <1>1, <2>0
    <3>2. list[cut] \in 1 .. Len(bs) /\ Covers(l, bs[list[cut]].var)
      BY <1>0, <2>0
    <3>. QED  BY <3>1, <3>2
  <2>2. ASSUME NEW b \in covered PROVE b <= list[cut]
    <3>1. PICK k \in 1 .. cut : list[k] = b  BY <1>4
    <3>2. k \in 1 .. Len(list)  BY <1>a
    <3>3. CASE k = cut  BY <3>1, <3>3
    <3>4. CASE k # cut
      <4>1. k < cut  BY <1>a, <3>4
      <4>2. list[k] < list[cut]  BY <1>0, <2>0, <3>2, <4>1 DEF Ascending
      <4>3. list[k] \in Nat /\ list[cut] \in Nat  BY <1>0, <2>0, <3>2
      <4>. QED  BY <3>1, <4>2, <4>3
    <3>. QED  BY <3>3, <3>4
  <2>3. \A x \in covered : (\A m \in covered : m <= x) => x = list[cut]
    BY <2>1, <2>2
  <2>4. (CHOOSE k \in covered : \A m \in covered : m <= k) = list[cut]
    <3>. HIDE DEF covered
    <3>. QED  BY <2>1, <2>2, <2>3
  <2>. QED  BY <1>2, <1>3, <1>6, <2>1, <2>4
<1>. QED  BY <1>5, <1>6

-----------------------------------------------------------------------------
(* The matcher.                                                             *)

(* Pending alternatives are recorded along one path, so an older one is cut *)
(* back at least as far as a newer one.                                     *)
AltsNested ==
  \A k, m \in 1 .. Len(stack) : k < m => stack[k].binds_len <= stack[m].binds_len

PathInv == status = "run" =>
  /\ pos = i + Len(binds)
  /\ \A k \in 1 .. Len(binds) : binds[k].tape_pos = i + k - 1
  /\ Len(saved) = Len(stack)
  /\ \A k \in 1 .. Len(stack) :
       /\ stack[k].binds_len <= Len(binds)
       /\ stack[k].pos = i + stack[k].binds_len
       /\ saved[k] = SubSeq(binds, 1, stack[k].binds_len)
  /\ AltsNested

IInv == TypeOK /\ PathInv

-----------------------------------------------------------------------------
(* Sequences.                                                               *)

(* A prefix of a prefix. *)
LEMMA PrefixOfPrefix ==
  ASSUME NEW S, NEW s \in Seq(S), NEW n \in 0 .. Len(s), NEW m \in 0 .. n
  PROVE  SubSeq(SubSeq(s, 1, n), 1, m) = SubSeq(s, 1, m)
OBVIOUS

(* Appending leaves the prefixes alone. *)
LEMMA PrefixOfAppend ==
  ASSUME NEW S, NEW s \in Seq(S), NEW e \in S, NEW n \in 0 .. Len(s)
  PROVE  SubSeq(Append(s, e), 1, n) = SubSeq(s, 1, n)
OBVIOUS

(* A prefix has the length asked for and the elements of the whole. *)
LEMMA Prefix ==
  ASSUME NEW S, NEW s \in Seq(S), NEW n \in 0 .. Len(s)
  PROVE  /\ SubSeq(s, 1, n) \in Seq(S)
         /\ Len(SubSeq(s, 1, n)) = n
         /\ \A k \in 1 .. n : SubSeq(s, 1, n)[k] = s[k]
OBVIOUS

(* Folding on from a prefix gives the whole. *)
LEMMA PrefixExtended ==
  ASSUME NEW S, NEW s \in Seq(S), NEW n \in 0 .. Len(s)
  PROVE  SubSeq(s, 1, n) \o SubSeq(s, n + 1, Len(s)) = s
<1>1. SubSeq(s, 1, n) \o SubSeq(s, n + 1, Len(s)) = SubSeq(s, 1, Len(s))
  <2>1. /\ 1 \in 1 .. Len(s) + 1 /\ n \in 1 - 1 .. Len(s)
        /\ Len(s) \in n .. Len(s)
    OBVIOUS
  <2>. QED  BY <2>1, ConcatAdjacentSubSeq
<1>. QED  BY <1>1, SubSeqFull

-----------------------------------------------------------------------------
(* Typing of the operators the actions are made of.                         *)

(* What an instruction at ip is, in a well-formed job. *)
LEMMA Instruction ==
  ASSUME IsJob(job), ip \in 1 .. Len(Prog)
  PROVE  /\ Len(Prog) \in Nat \ {0}
         /\ Prog[ip].op = "jmp" => Prog[ip].to \in 1 .. Len(Prog)
         /\ Prog[ip].op = "split" => /\ Prog[ip].a \in 1 .. Len(Prog)
                                     /\ Prog[ip].b \in 1 .. Len(Prog)
         /\ Prog[ip].op \in {"anchor_start", "anchor_end"} => ip + 1 \in 1 .. Len(Prog)
         /\ Prog[ip].op = "char" => Prog[ip].var \in Var /\ ip + 1 \in 1 .. Len(Prog)
BY DEF IsJob, IsProgram, Prog

LEMMA SkipTargetType ==
  ASSUME NEW after, NEW m \in Match
  PROVE  SkipTarget(after, m) \in Nat
<1>. DEFINE covered == {k \in 1 .. Len(m.binds) : Covers(after.label, m.binds[k].var)}
<1>0. m.binds \in Seq(Bind)
  BY DEF Match
<1>1. Len(m.binds) \in Nat /\ \A k \in 1 .. Len(m.binds) : m.binds[k].tape_pos \in Nat
  <2>. DEFINE bs == m.binds
  <2>1. bs \in Seq(Bind)  BY <1>0
  <2>. HIDE DEF bs
  <2>2. ASSUME NEW k \in 1 .. Len(bs) PROVE bs[k].tape_pos \in Nat
    <3>1. bs[k] \in Bind  BY <2>1, ElementOfSeq
    <3>. QED  BY <3>1 DEF Bind
  <2>3. Len(bs) \in Nat  BY <2>1
  <2>. QED  BY <2>2, <2>3 DEF bs
<1>2. covered \in SUBSET (0 .. Len(m.binds)) /\ covered \in SUBSET Nat
  BY <1>1
<1>3. ASSUME covered # {}
      PROVE  m.binds[Min(covered)].tape_pos \in Nat /\ m.binds[Max(covered)].tape_pos \in Nat
  <2>1. \E k \in covered : \A y \in covered : k <= y
    <3>. HIDE DEF covered
    <3>. QED  BY <1>2, <1>3, LeastNat
  <2>2. \E k \in covered : \A y \in covered : y <= k
    <3>. HIDE DEF covered
    <3>. QED  BY <1>1, <1>2, <1>3, GreatestNat
  <2>3. Min(covered) \in covered
    BY <2>1 DEF Min
  <2>4. Max(covered) \in covered
    <3>1. \E k \in covered : \A y \in covered : k >= y
      BY <1>2, <2>2
    <3>. QED  BY <3>1 DEF Max
  <2>. QED  BY <1>1, <2>3, <2>4
<1>4. m.end \in Nat /\ m.start + 1 \in Nat
  BY DEF Match
<1>. HIDE DEF covered
<1>5. \/ SkipTarget(after, m) = m.end
      \/ SkipTarget(after, m) = m.start + 1
      \/ covered # {} /\ SkipTarget(after, m) = m.binds[Min(covered)].tape_pos
      \/ covered # {} /\ SkipTarget(after, m) = m.binds[Max(covered)].tape_pos
  BY Zenon DEF SkipTarget, covered
<1>. QED  BY <1>3, <1>4, <1>5

LEMMA AdvanceMoves ==
  ASSUME NEW from \in Nat, NEW next \in Nat
  PROVE  /\ Advance(from, next) \in Nat
         /\ Advance(from, next) > from
         /\ Advance(from, next) >= next
BY DEF Advance

(* A tentative path extends the bound rows by one. *)
LEMMA CandidateType ==
  ASSUME TypeOK, NEW v \in Var
  PROVE  /\ [tape_pos |-> pos, var |-> v] \in Bind
         /\ Candidate(v) \in Seq(Bind)
         /\ Len(Candidate(v)) = Len(binds) + 1
         /\ \A k \in 1 .. Len(binds) : Candidate(v)[k] = binds[k]
         /\ Candidate(v)[Len(binds) + 1] = [tape_pos |-> pos, var |-> v]
<1>1. pos \in Nat /\ binds \in Seq(Bind)
  BY DEF TypeOK, TapeLen, IsJob
<1>2. [tape_pos |-> pos, var |-> v] \in Bind
  BY <1>1 DEF Bind
<1>. QED  BY <1>1, <1>2, AppendProperties DEF Candidate

LEMMA IndexedType ==
  ASSUME TypeOK, NEW v \in Var
  PROVE  Indexed(v) \in [Label -> Seq(Nat)]
<1>1. Len(binds) + 1 \in Nat /\ index \in [Label -> Seq(Nat)]
  BY DEF TypeOK
<1>. QED  BY <1>1 DEF Indexed, Push

LEMMA NoFoldsType ==
  NoFolds \in [Site -> [done : Nat \cup {COMPLETE}, rows : Seq(Bind)]]
<1>1. <<>> \in Seq(Bind)  OBVIOUS
<1>. QED  BY <1>1 DEF NoFolds

LEMMA EvaluatedType ==
  ASSUME TypeOK, NEW v \in Var, NEW path \in Seq(Bind)
  PROVE  Evaluated(v, path) \in [Site -> [done : Nat \cup {COMPLETE}, rows : Seq(Bind)]]
<1>. DEFINE E == [done : Nat \cup {COMPLETE}, rows : Seq(Bind)]
<1>1. ASSUME NEW s \in Site PROVE Extend(memo[s], s, path) \in E
  <2>. DEFINE entry == memo[s]
              from == IF entry.done <= Len(path) THEN entry ELSE [done |-> 0, rows |-> <<>>]
  <2>1. entry \in E  BY DEF TypeOK
  <2>2. CASE entry.done = COMPLETE  BY <2>1, <2>2 DEF Extend
  <2>3. CASE entry.done # COMPLETE
    <3>1. entry.done \in Nat /\ entry.rows \in Seq(Bind) /\ Len(path) \in Nat
      BY <2>1, <2>3
    <3>2. from.done \in 0 .. Len(path) /\ from.rows \in Seq(Bind)
      BY <3>1
    <3>. HIDE DEF from
    <3>3. SubSeq(path, from.done + 1, Len(path)) \in Seq(Bind)
      BY <3>1, <3>2
    <3>4. from.rows \o SubSeq(path, from.done + 1, Len(path)) \in Seq(Bind)
      BY <3>2, <3>3
    <3>. QED  BY <2>3, <3>1, <3>4 DEF Extend, from
  <2>. QED  BY <2>2, <2>3
<1>2. memo \in [Site -> E]  BY DEF TypeOK
<1>. QED  BY <1>1, <1>2 DEF Evaluated

-----------------------------------------------------------------------------
(* The inductive invariant.                                                 *)

(* The job, and with it everything read off it, never changes. *)
LEMMA SameJob ==
  ASSUME job' = job
  PROVE  /\ Prog' = Prog /\ TapeLen' = TapeLen /\ Alt' = Alt
         /\ IsJob(job)' <=> IsJob(job)
BY DEF Prog, TapeLen, Alt

(* A step that leaves the path and the pending alternatives alone. *)
LEMMA PathKept ==
  ASSUME PathInv,
         status = "run",
         UNCHANGED <<i, pos, binds, stack, saved>>
  PROVE  PathInv'
BY DEF PathInv, AltsNested

LEMMA InitInv == Init => IInv
<1>. SUFFICES ASSUME Init PROVE IInv  OBVIOUS
<1>1. IsJob(job)
  BY JobAssumption DEF Init
<1>2. TapeLen \in Nat /\ Len(Prog) \in Nat \ {0}
  BY <1>1 DEF IsJob, IsProgram, TapeLen, Prog
<1>3. memo \in [Site -> [done : Nat \cup {COMPLETE}, rows : Seq(Bind)]]
  BY NoFoldsType DEF Init
<1>4. index \in [Label -> Seq(Nat)]
  BY NoBindsExact DEF Init
<1>5. budget \in Int
  BY <1>1 DEF Init, IsJob
<1>6. TypeOK
  BY <1>1, <1>2, <1>3, <1>4, <1>5 DEF Init, TypeOK
<1>7. PathInv
  BY DEF Init, PathInv
<1>. QED  BY <1>6, <1>7 DEF IInv

LEMMA AttemptInv == IInv /\ Attempt => IInv'
<1>. SUFFICES ASSUME IInv, Attempt PROVE IInv'  OBVIOUS
<1>0. /\ TypeOK /\ job' = job
      /\ Prog' = Prog /\ TapeLen' = TapeLen /\ Alt' = Alt /\ (IsJob(job)' <=> IsJob(job))
  BY SameJob DEF IInv, Attempt
<1>1. i \in Nat /\ TapeLen \in Nat /\ i < TapeLen /\ Len(Prog) \in Nat \ {0}
  BY <1>0 DEF TypeOK, Attempt, TapeLen, IsJob, IsProgram, Prog
<1>2. ip' \in 1 .. Len(Prog) /\ pos' \in 0 .. TapeLen
  BY <1>1 DEF Attempt
<1>3. index' \in [Label -> Seq(Nat)]
  BY NoBindsExact DEF Attempt
<1>4. memo' \in [Site -> [done : Nat \cup {COMPLETE}, rows : Seq(Bind)]]
  BY NoFoldsType DEF Attempt
<1>5. TypeOK'
  BY <1>0, <1>2, <1>3, <1>4 DEF TypeOK, Attempt
<1>6. PathInv'
  <2>2. pos' = i' + Len(binds') /\ Len(saved') = Len(stack')
    BY <1>1 DEF Attempt
  <2>3. 1 .. Len(binds') = {} /\ 1 .. Len(stack') = {}
    BY DEF Attempt
  <2>. QED  BY <2>2, <2>3, Zenon DEF PathInv, AltsNested
<1>. QED  BY <1>5, <1>6 DEF IInv

LEMMA ReturnInv == IInv /\ Return => IInv'
<1>. SUFFICES ASSUME IInv, Return PROVE IInv'  OBVIOUS
<1>0. /\ TypeOK /\ job' = job
      /\ Prog' = Prog /\ TapeLen' = TapeLen /\ Alt' = Alt /\ (IsJob(job)' <=> IsJob(job))
  BY SameJob DEF IInv, Return
<1>1. TypeOK'
  BY <1>0 DEF TypeOK, Return, Final
<1>2. PathInv'
  BY DEF PathInv, Return
<1>. QED  BY <1>1, <1>2 DEF IInv

LEMMA OverrunInv == IInv /\ Overrun => IInv'
<1>. SUFFICES ASSUME IInv, Overrun PROVE IInv'  OBVIOUS
<1>0. /\ TypeOK /\ job' = job
      /\ Prog' = Prog /\ TapeLen' = TapeLen /\ Alt' = Alt /\ (IsJob(job)' <=> IsJob(job))
  BY SameJob DEF IInv, Overrun
<1>1. TypeOK'
  BY <1>0 DEF TypeOK, Overrun, Final, Charge
<1>2. PathInv'
  BY DEF PathInv, Overrun
<1>. QED  BY <1>1, <1>2 DEF IInv

(* The match Accept reports is a match, and the scan moves beyond its start. *)
LEMMA AcceptedType ==
  ASSUME TypeOK
  PROVE  LET m == [match_number |-> number, start |-> i, end |-> pos, binds |-> binds]
         IN  /\ m \in Match
             /\ Advance(i, SkipTarget(job.after, m)) \in Nat
             /\ Advance(i, SkipTarget(job.after, m)) > i
             /\ Advance(i, SkipTarget(job.after, m)) >= SkipTarget(job.after, m)
<1>. DEFINE m == [match_number |-> number, start |-> i, end |-> pos, binds |-> binds]
<1>1. i \in Nat /\ pos \in Nat /\ number \in Nat /\ binds \in Seq(Bind)
  BY DEF TypeOK, TapeLen, IsJob
<1>2. m \in Match
  BY <1>1 DEF Match
<1>. HIDE DEF m
<1>3. SkipTarget(job.after, m) \in Nat
  BY <1>2, SkipTargetType
<1>4. /\ Advance(i, SkipTarget(job.after, m)) \in Nat
      /\ Advance(i, SkipTarget(job.after, m)) > i
      /\ Advance(i, SkipTarget(job.after, m)) >= SkipTarget(job.after, m)
  BY <1>1, <1>3, AdvanceMoves
<1>. QED  BY <1>2, <1>4 DEF m

LEMMA AcceptInv == IInv /\ Accept => IInv'
<1>. SUFFICES ASSUME IInv, Accept PROVE IInv'  OBVIOUS
<1>. DEFINE m == [match_number |-> number, start |-> i, end |-> pos, binds |-> binds]
<1>0. /\ TypeOK /\ job' = job
      /\ Prog' = Prog /\ TapeLen' = TapeLen /\ Alt' = Alt /\ (IsJob(job)' <=> IsJob(job))
  BY SameJob DEF IInv, Accept
<1>1. /\ matches' = Append(matches, m)
      /\ i' = Advance(i, SkipTarget(job.after, m))
  BY DEF Accept
<1>2. m \in Match /\ Advance(i, SkipTarget(job.after, m)) \in Nat
  BY <1>0, AcceptedType
<1>. HIDE DEF m
<1>3. matches' \in Seq(Match) /\ i' \in Nat
  BY <1>0, <1>1, <1>2 DEF TypeOK
<1>4. budget' \in Int
  BY <1>0 DEF Accept, Executes, Charge, TypeOK
<1>5. TypeOK'
  BY <1>0, <1>3, <1>4 DEF TypeOK, Accept
<1>6. PathInv'
  BY DEF PathInv, Accept
<1>. QED  BY <1>5, <1>6 DEF IInv

LEMMA JumpInv == IInv /\ Jump => IInv'
<1>. SUFFICES ASSUME IInv, Jump PROVE IInv'  OBVIOUS
<1>0. /\ TypeOK /\ job' = job
      /\ Prog' = Prog /\ TapeLen' = TapeLen /\ Alt' = Alt /\ (IsJob(job)' <=> IsJob(job))
  BY SameJob DEF IInv, Jump
<1>1. ip' \in 1 .. Len(Prog)
  BY <1>0, Instruction DEF TypeOK, Jump, Executes
<1>2. TypeOK'
  BY <1>0, <1>1 DEF TypeOK, Jump, Executes, Charge
<1>3. PathInv'
  BY PathKept DEF IInv, Jump, Executes
<1>. QED  BY <1>2, <1>3 DEF IInv

LEMMA AnchorHoldsInv ==
  ASSUME IInv, NEW op \in {"anchor_start", "anchor_end"}, AnchorHolds(op)
  PROVE  IInv'
<1>0. /\ TypeOK /\ job' = job
      /\ Prog' = Prog /\ TapeLen' = TapeLen /\ Alt' = Alt /\ (IsJob(job)' <=> IsJob(job))
  BY SameJob DEF IInv, AnchorHolds
<1>1. ip' \in 1 .. Len(Prog)
  BY <1>0, Instruction DEF TypeOK, AnchorHolds, Executes
<1>2. TypeOK'
  BY <1>0, <1>1 DEF TypeOK, AnchorHolds, Executes, Charge
<1>3. PathInv'
  BY PathKept DEF IInv, AnchorHolds, Executes
<1>. QED  BY <1>2, <1>3 DEF IInv

LEMMA PredicateErrorInv == IInv /\ PredicateError => IInv'
<1>. SUFFICES ASSUME IInv, PredicateError PROVE IInv'  OBVIOUS
<1>0. /\ TypeOK /\ job' = job
      /\ Prog' = Prog /\ TapeLen' = TapeLen /\ Alt' = Alt /\ (IsJob(job)' <=> IsJob(job))
  BY SameJob DEF IInv, PredicateError
<1>1. TypeOK'
  BY <1>0 DEF TypeOK, PredicateError, Final, Executes, Charge
<1>2. PathInv'
  BY DEF PathInv, PredicateError
<1>. QED  BY <1>1, <1>2 DEF IInv

(* Appending the current path to the pending alternatives keeps them nested *)
(* and restorable.                                                          *)
LEMMA SplitInv == IInv /\ Split => IInv'
<1>. SUFFICES ASSUME IInv, Split PROVE IInv'  OBVIOUS
<1>. DEFINE alt == [ip |-> Prog[ip].b, pos |-> pos, binds_len |-> Len(binds)]
<1>0. /\ TypeOK /\ job' = job
      /\ Prog' = Prog /\ TapeLen' = TapeLen /\ Alt' = Alt /\ (IsJob(job)' <=> IsJob(job))
  BY SameJob DEF IInv, Split
<1>1. ip' \in 1 .. Len(Prog) /\ Prog[ip].b \in 1 .. Len(Prog)
  BY <1>0, Instruction DEF TypeOK, Split, Executes
<1>2. binds \in Seq(Bind) /\ Len(binds) \in Nat /\ pos \in 0 .. TapeLen /\ i \in Nat
  BY <1>0 DEF TypeOK
<1>3. alt \in Alt
  BY <1>1, <1>2 DEF Alt
<1>4. /\ stack \in Seq(Alt) /\ Len(stack) \in Nat
      /\ saved \in Seq(Seq(Bind)) /\ Len(saved) \in Nat
  BY <1>0 DEF TypeOK
<1>5. stack' = Append(stack, alt) /\ saved' = Append(saved, binds)
  BY DEF Split
<1>6. /\ stack' \in Seq(Alt) /\ Len(stack') = Len(stack) + 1
      /\ stack'[Len(stack) + 1] = alt
      /\ \A k \in 1 .. Len(stack) : stack'[k] = stack[k]
  <2>. HIDE DEF alt
  <2>. QED  BY <1>3, <1>4, <1>5, AppendProperties
<1>7. /\ saved' \in Seq(Seq(Bind)) /\ Len(saved') = Len(saved) + 1
      /\ saved'[Len(saved) + 1] = binds
      /\ \A k \in 1 .. Len(saved) : saved'[k] = saved[k]
  BY <1>2, <1>4, <1>5, AppendProperties
<1>8. TypeOK'
  BY <1>0, <1>1, <1>6, <1>7 DEF TypeOK, Split, Executes, Charge
<1>9. PathInv'
  <2>1. /\ pos = i + Len(binds)
        /\ \A k \in 1 .. Len(binds) : binds[k].tape_pos = i + k - 1
        /\ Len(saved) = Len(stack)
        /\ \A k \in 1 .. Len(stack) :
             /\ stack[k].binds_len <= Len(binds)
             /\ stack[k].pos = i + stack[k].binds_len
             /\ saved[k] = SubSeq(binds, 1, stack[k].binds_len)
        /\ AltsNested
    BY DEF IInv, PathInv, Split, Executes
  <2>2. UNCHANGED <<binds, pos, i>>
    BY DEF Split
  <2>3. alt.binds_len = Len(binds) /\ alt.pos = pos
    OBVIOUS
  <2>. HIDE DEF alt
  <2>4. SubSeq(binds, 1, Len(binds)) = binds
    BY <1>2, SubSeqFull
  <2>5. ASSUME NEW k \in 1 .. Len(stack')
        PROVE  /\ stack'[k].binds_len <= Len(binds)
               /\ stack'[k].pos = i + stack'[k].binds_len
               /\ saved'[k] = SubSeq(binds, 1, stack'[k].binds_len)
    <3>1. CASE k = Len(stack) + 1
      BY <1>2, <1>6, <1>7, <2>1, <2>3, <2>4, <3>1
    <3>2. CASE k # Len(stack) + 1
      <4>1. k \in 1 .. Len(stack)  BY <1>4, <1>6, <3>2
      <4>. QED  BY <1>6, <1>7, <2>1, <4>1
    <3>. QED  BY <3>1, <3>2
  <2>6. AltsNested'
    <3>1. SUFFICES ASSUME NEW k \in 1 .. Len(stack'), NEW m \in 1 .. Len(stack'), k < m
                   PROVE  stack'[k].binds_len <= stack'[m].binds_len
      BY DEF AltsNested
    <3>2. k \in 1 .. Len(stack)  BY <1>4, <1>6, <3>1
    <3>3. CASE m = Len(stack) + 1
      BY <1>6, <2>1, <2>3, <3>2, <3>3
    <3>4. CASE m # Len(stack) + 1
      <4>1. m \in 1 .. Len(stack)  BY <1>4, <1>6, <3>4
      <4>. QED  BY <1>6, <2>1, <3>1, <3>2, <4>1 DEF AltsNested
    <3>. QED  BY <3>3, <3>4
  <2>7. Len(saved') = Len(stack')
    BY <1>6, <1>7, <2>1
  <2>. QED  BY <2>1, <2>2, <2>5, <2>6, <2>7 DEF PathInv
<1>. QED  BY <1>8, <1>9 DEF IInv

(* Restoring the newest alternative cuts the path to a prefix of itself, of *)
(* which every older alternative asks for a prefix in turn.                 *)
LEMMA ResumeInv ==
  ASSUME IInv, status = "run", budget' \in Int,
         NEW indexed \in [Label -> Seq(Nat)], Resume(indexed)
  PROVE  IInv'
<1>. DEFINE alt == stack[Len(stack)]
            n == alt.binds_len
<1>0. /\ TypeOK /\ job' = job
      /\ Prog' = Prog /\ TapeLen' = TapeLen /\ Alt' = Alt /\ (IsJob(job)' <=> IsJob(job))
  BY SameJob DEF IInv, Resume
<1>1. /\ stack \in Seq(Alt) /\ Len(stack) \in Nat /\ Len(stack) \in 1 .. Len(stack)
      /\ saved \in Seq(Seq(Bind)) /\ binds \in Seq(Bind) /\ Len(binds) \in Nat /\ i \in Nat
  BY <1>0 DEF TypeOK, Resume
<1>2. /\ alt \in Alt
      /\ alt.ip \in 1 .. Len(Prog) /\ alt.pos \in 0 .. TapeLen /\ n \in Nat
  <2>1. alt \in Alt  BY <1>1, ElementOfSeq
  <2>. QED  BY <2>1 DEF Alt
<1>3. /\ pos = i + Len(binds)
      /\ \A k \in 1 .. Len(binds) : binds[k].tape_pos = i + k - 1
      /\ Len(saved) = Len(stack)
      /\ \A k \in 1 .. Len(stack) :
           /\ stack[k].binds_len <= Len(binds)
           /\ stack[k].pos = i + stack[k].binds_len
           /\ saved[k] = SubSeq(binds, 1, stack[k].binds_len)
      /\ AltsNested
  BY DEF IInv, PathInv
<1>4. /\ ip' = alt.ip /\ pos' = alt.pos
      /\ stack' = SubSeq(stack, 1, Len(stack) - 1)
      /\ saved' = SubSeq(saved, 1, Len(stack) - 1)
      /\ binds' = SubSeq(binds, 1, n)
      /\ index' = Truncate(indexed, n)
      /\ memo' = NoFolds
      /\ UNCHANGED <<job, status, i, number, matches>>
  BY <1>3 DEF Resume
<1>5. n <= Len(binds) /\ alt.pos = i + n
  BY <1>1, <1>3
<1>. HIDE DEF alt, n
<1>6. Len(stack) - 1 \in 0 .. Len(stack) /\ n \in 0 .. Len(binds)
  BY <1>1, <1>2, <1>5
<1>7. /\ stack' \in Seq(Alt) /\ Len(stack') = Len(stack) - 1
      /\ \A k \in 1 .. Len(stack) - 1 : stack'[k] = stack[k]
  BY <1>1, <1>4, <1>6, Prefix
<1>8. /\ saved' \in Seq(Seq(Bind)) /\ Len(saved') = Len(stack) - 1
      /\ \A k \in 1 .. Len(stack) - 1 : saved'[k] = saved[k]
  BY <1>1, <1>3, <1>4, <1>6, Prefix
<1>9. /\ binds' \in Seq(Bind) /\ Len(binds') = n
      /\ \A k \in 1 .. n : binds'[k] = binds[k]
  BY <1>1, <1>4, <1>6, Prefix
<1>10. TypeOK'
  <2>1. index' \in [Label -> Seq(Nat)]
    BY <1>2, <1>4, TruncateType
  <2>2. memo' \in [Site -> [done : Nat \cup {COMPLETE}, rows : Seq(Bind)]]
    BY <1>4, NoFoldsType
  <2>3. ip' \in 1 .. Len(Prog) /\ pos' \in 0 .. TapeLen
    BY <1>2, <1>4
  <2>4. UNCHANGED <<job, status, i, number, matches>>
    BY <1>4
  <2>. QED  BY <1>0, <1>7, <1>8, <1>9, <2>1, <2>2, <2>3, <2>4 DEF TypeOK
<1>11. PathInv'
  <2>0. i' = i
    BY <1>4
  <2>1. pos' = i + Len(binds')
    BY <1>4, <1>5, <1>9
  <2>2. ASSUME NEW k \in 1 .. Len(binds') PROVE binds'[k].tape_pos = i + k - 1
    <3>1. k \in 1 .. n /\ k \in 1 .. Len(binds)  BY <1>1, <1>2, <1>5, <1>9
    <3>. QED  BY <1>3, <1>9, <3>1
  <2>3. ASSUME NEW k \in 1 .. Len(stack')
        PROVE  /\ stack'[k].binds_len <= Len(binds')
               /\ stack'[k].pos = i + stack'[k].binds_len
               /\ saved'[k] = SubSeq(binds', 1, stack'[k].binds_len)
    <3>1. k \in 1 .. Len(stack) /\ k < Len(stack) /\ k \in 1 .. Len(stack) - 1
      BY <1>1, <1>7
    <3>2. stack[k] \in Alt  BY <1>1, <3>1, ElementOfSeq
    <3>3. stack[k].binds_len \in Nat  BY <3>2 DEF Alt
    <3>4. stack[k].binds_len <= n
      BY <1>1, <1>3, <3>1 DEF AltsNested, n, alt
    <3>5. stack'[k] = stack[k] /\ saved'[k] = saved[k]  BY <1>7, <1>8, <3>1
    <3>6. stack[k].binds_len \in 0 .. n  BY <1>2, <3>3, <3>4
    <3>7. SubSeq(binds', 1, stack[k].binds_len) = SubSeq(binds, 1, stack[k].binds_len)
      BY <1>1, <1>4, <1>6, <3>6, PrefixOfPrefix
    <3>. QED  BY <1>3, <1>9, <3>1, <3>4, <3>5, <3>7
  <2>4. AltsNested'
    <3>1. SUFFICES ASSUME NEW k \in 1 .. Len(stack'), NEW m \in 1 .. Len(stack'), k < m
                   PROVE  stack'[k].binds_len <= stack'[m].binds_len
      BY DEF AltsNested
    <3>2. /\ k \in 1 .. Len(stack) /\ k \in 1 .. Len(stack) - 1
          /\ m \in 1 .. Len(stack) /\ m \in 1 .. Len(stack) - 1
      BY <1>1, <1>7
    <3>. QED  BY <1>3, <1>7, <3>1, <3>2 DEF AltsNested
  <2>5. Len(saved') = Len(stack')
    BY <1>7, <1>8
  <2>. QED  BY <2>0, <2>1, <2>2, <2>3, <2>4, <2>5 DEF PathInv
<1>. QED  BY <1>10, <1>11 DEF IInv

LEMMA GiveUpInv ==
  ASSUME IInv, budget' \in Int,
         NEW indexed \in [Label -> Seq(Nat)], GiveUp(indexed)
  PROVE  IInv'
<1>0. /\ TypeOK /\ job' = job
      /\ Prog' = Prog /\ TapeLen' = TapeLen /\ Alt' = Alt /\ (IsJob(job)' <=> IsJob(job))
  BY SameJob DEF IInv, GiveUp
<1>1. index' \in [Label -> Seq(Nat)]
  BY TruncateType DEF GiveUp
<1>2. memo' \in [Site -> [done : Nat \cup {COMPLETE}, rows : Seq(Bind)]]
  BY NoFoldsType DEF GiveUp
<1>3. TypeOK'
  BY <1>0, <1>1, <1>2 DEF TypeOK, GiveUp
<1>4. PathInv'
  BY DEF PathInv, GiveUp
<1>. QED  BY <1>3, <1>4 DEF IInv

LEMMA BacktrackInv ==
  ASSUME IInv, NEW op, Executes(op),
         NEW indexed \in [Label -> Seq(Nat)], Backtrack(indexed)
  PROVE  IInv'
<1>1. status = "run" /\ budget' \in Int
  BY DEF IInv, TypeOK, Executes, Charge
<1>2. CASE Resume(indexed)  BY <1>1, <1>2, ResumeInv
<1>3. CASE GiveUp(indexed)  BY <1>1, <1>3, GiveUpInv
<1>. QED  BY <1>2, <1>3 DEF Backtrack

LEMMA AnchorFailsInv ==
  ASSUME IInv, NEW op \in {"anchor_start", "anchor_end"}, AnchorFails(op)
  PROVE  IInv'
BY BacktrackInv DEF AnchorFails, IInv, TypeOK

LEMMA EndOfTapeInv == IInv /\ EndOfTape => IInv'
BY BacktrackInv DEF EndOfTape, IInv, TypeOK

LEMMA RejectRowInv == IInv /\ RejectRow => IInv'
<1>. SUFFICES ASSUME IInv, RejectRow PROVE IInv'  OBVIOUS
<1>. DEFINE v == Prog[ip].var
            indexed == Truncate(Indexed(v), Len(binds))
<1>1. v \in Var
  BY Instruction DEF IInv, TypeOK, RejectRow, Executes
<1>2. Indexed(v) \in [Label -> Seq(Nat)] /\ Len(binds) \in Nat
  BY <1>1, IndexedType DEF IInv, TypeOK
<1>3. Executes("char") /\ Backtrack(indexed)
  BY DEF RejectRow
<1>4. indexed \in [Label -> Seq(Nat)]
  BY <1>2, TruncateType
<1>. HIDE DEF indexed
<1>. QED  BY <1>3, <1>4, BacktrackInv

(* Binding the next row keeps the path contiguous and every pending         *)
(* alternative a prefix of it.                                              *)
LEMMA BindRowInv == IInv /\ BindRow => IInv'
<1>. SUFFICES ASSUME IInv, BindRow PROVE IInv'  OBVIOUS
<1>. DEFINE v == Prog[ip].var
<1>0. /\ TypeOK /\ job' = job
      /\ Prog' = Prog /\ TapeLen' = TapeLen /\ Alt' = Alt /\ (IsJob(job)' <=> IsJob(job))
  BY SameJob DEF IInv, BindRow
<1>1. v \in Var /\ ip' \in 1 .. Len(Prog)
  BY <1>0, Instruction DEF TypeOK, BindRow, Executes
<1>2. /\ binds' = Candidate(v) /\ index' = Indexed(v)
      /\ memo' = Evaluated(v, Candidate(v)) /\ pos' = pos + 1
      /\ UNCHANGED <<job, status, i, stack, number, matches, saved>>
  BY DEF BindRow
<1>. HIDE DEF v
<1>3. /\ binds' \in Seq(Bind) /\ Len(binds') = Len(binds) + 1
      /\ \A k \in 1 .. Len(binds) : binds'[k] = binds[k]
      /\ binds'[Len(binds) + 1] = [tape_pos |-> pos, var |-> v]
      /\ [tape_pos |-> pos, var |-> v] \in Bind
  BY <1>0, <1>1, <1>2, CandidateType
<1>4. TypeOK'
  <2>1. index' \in [Label -> Seq(Nat)]
    BY <1>0, <1>1, <1>2, IndexedType
  <2>2. memo' \in [Site -> [done : Nat \cup {COMPLETE}, rows : Seq(Bind)]]
    BY <1>0, <1>1, <1>2, <1>3, EvaluatedType
  <2>3. pos' \in 0 .. TapeLen
    BY <1>0 DEF TypeOK, BindRow, IsJob, TapeLen
  <2>4. budget' \in Int
    BY <1>0 DEF TypeOK, BindRow, Executes, Charge
  <2>. QED  BY <1>0, <1>1, <1>2, <1>3, <2>1, <2>2, <2>3, <2>4 DEF TypeOK
<1>5. PathInv'
  <2>0. /\ binds \in Seq(Bind) /\ Len(binds) \in Nat /\ i \in Nat /\ pos \in Nat
        /\ stack \in Seq(Alt)
    BY <1>0 DEF TypeOK, TapeLen, IsJob
  <2>1. /\ pos = i + Len(binds)
        /\ \A k \in 1 .. Len(binds) : binds[k].tape_pos = i + k - 1
        /\ Len(saved) = Len(stack)
        /\ \A k \in 1 .. Len(stack) :
             /\ stack[k].binds_len <= Len(binds)
             /\ stack[k].pos = i + stack[k].binds_len
             /\ saved[k] = SubSeq(binds, 1, stack[k].binds_len)
        /\ AltsNested
    BY DEF IInv, PathInv, BindRow, Executes
  <2>2. pos' = i' + Len(binds')
    BY <1>2, <1>3, <2>0, <2>1
  <2>3. ASSUME NEW k \in 1 .. Len(binds') PROVE binds'[k].tape_pos = i' + k - 1
    <3>1. CASE k = Len(binds) + 1
      BY <1>2, <1>3, <2>0, <2>1, <3>1
    <3>2. CASE k # Len(binds) + 1
      <4>1. k \in 1 .. Len(binds)  BY <1>3, <2>0, <3>2
      <4>. QED  BY <1>2, <1>3, <2>1, <4>1
    <3>. QED  BY <3>1, <3>2
  <2>4. ASSUME NEW k \in 1 .. Len(stack)
        PROVE  /\ stack[k].binds_len <= Len(binds')
               /\ saved[k] = SubSeq(binds', 1, stack[k].binds_len)
    <3>1. stack[k] \in Alt  BY <2>0, ElementOfSeq
    <3>2. stack[k].binds_len \in 0 .. Len(binds)  BY <2>0, <2>1, <3>1 DEF Alt
    <3>3. SubSeq(binds', 1, stack[k].binds_len) = SubSeq(binds, 1, stack[k].binds_len)
      BY <1>2, <1>3, <2>0, <3>2, PrefixOfAppend DEF Candidate
    <3>. QED  BY <1>3, <2>0, <2>1, <3>2, <3>3
  <2>5. AltsNested'
    BY <1>2, <2>1 DEF AltsNested
  <2>. QED  BY <1>2, <2>1, <2>2, <2>3, <2>4, <2>5 DEF PathInv
<1>. QED  BY <1>4, <1>5 DEF IInv

LEMMA StepInv == IInv /\ [Next]_vars => IInv'
<1>. SUFFICES ASSUME IInv, [Next]_vars PROVE IInv'  OBVIOUS
<1>1. CASE Attempt  BY <1>1, AttemptInv
<1>2. CASE Return  BY <1>2, ReturnInv
<1>3. CASE Overrun  BY <1>3, OverrunInv
<1>4. CASE Accept  BY <1>4, AcceptInv
<1>5. CASE Jump  BY <1>5, JumpInv
<1>6. CASE Split  BY <1>6, SplitInv
<1>7. ASSUME NEW op \in {"anchor_start", "anchor_end"}, AnchorHolds(op) \/ AnchorFails(op)
      PROVE  IInv'
  BY <1>7, AnchorHoldsInv, AnchorFailsInv
<1>8. CASE EndOfTape  BY <1>8, EndOfTapeInv
<1>9. CASE BindRow  BY <1>9, BindRowInv
<1>10. CASE RejectRow  BY <1>10, RejectRowInv
<1>11. CASE PredicateError  BY <1>11, PredicateErrorInv
<1>12. CASE UNCHANGED vars
  BY <1>12 DEF IInv, TypeOK, PathInv, AltsNested, vars, Alt, Prog, TapeLen
<1>. QED  BY <1>1, <1>2, <1>3, <1>4, <1>5, <1>6, <1>7, <1>8, <1>9, <1>10, <1>11, <1>12
          DEF Next

LEMMA Inductive == Spec => []IInv
BY InitInv, StepInv, PTL DEF Spec

(* Type correctness: the matcher's variables keep their types, and control  *)
(* stays inside the program and the tape, whatever the pattern and DEFINE.  *)
THEOREM TypeCorrect == Spec => []TypeOK
<1>1. IInv => TypeOK  BY DEF IInv
<1>. QED  BY <1>1, Inductive, PTL

(* The rows bound on a path are always consecutive from the start row.      *)
THEOREM PathIsContiguous == Spec => []Contiguous
<1>1. IInv => Contiguous  BY DEF IInv, PathInv, Contiguous
<1>. QED  BY <1>1, Inductive, PTL

(* Truncating binds to a pending alternative's length restores the binding  *)
(* state that was live when the alternative was recorded.                   *)
THEOREM TruncationRestores == Spec => []AltsRestorable
<1>1. IInv => AltsRestorable  BY DEF IInv, PathInv, AltsRestorable
<1>. QED  BY <1>1, Inductive, PTL

-----------------------------------------------------------------------------
(* The caches, when no DEFINE aggregate is under FINAL.  MemoFresh is only  *)
(* inductive for running folds: a FINAL fold is marked complete at its      *)
(* first evaluation and no longer follows the path.                         *)

(* A memo without folds is fresh for any path. *)
LEMMA NoFoldsFresh ==
  ASSUME NEW path \in Seq(Bind), NEW s \in Site
  PROVE  /\ NoFolds[s].done \in 0 .. Len(path)
         /\ NoFolds[s].rows = SubSeq(path, 1, NoFolds[s].done)
<1>1. Len(path) \in Nat /\ SubSeq(path, 1, 0) = <<>>
  OBVIOUS
<1>2. NoFolds[s].done = 0 /\ NoFolds[s].rows = <<>>
  BY DEF NoFolds
<1>3. 0 \in 0 .. Len(path)
  BY <1>1
<1>. QED  BY <1>1, <1>2, <1>3

(* Evaluating a predicate brings each running fold it reads to the whole of *)
(* the tentative path, and leaves the others over a prefix of it.           *)
LEMMA EvaluatedFresh ==
  ASSUME TypeOK, MemoFresh, FinalSite = {}, NEW v \in Var, NEW s \in Site
  PROVE  LET new == Evaluated(v, Candidate(v))[s]
         IN  /\ s \in Reads[v] => new.done = Len(Candidate(v)) /\ new.rows = Candidate(v)
             /\ new.done \in 0 .. Len(Candidate(v))
             /\ new.rows = SubSeq(Candidate(v), 1, new.done)
<1>. DEFINE path == Candidate(v)
            entry == memo[s]
            new == Evaluated(v, path)[s]
<1>1. /\ binds \in Seq(Bind) /\ Len(binds) \in Nat
      /\ path \in Seq(Bind) /\ Len(path) = Len(binds) + 1
  <2>1. binds \in Seq(Bind)  BY DEF TypeOK
  <2>2. Len(binds) \in Nat  BY <2>1
  <2>. QED  BY <2>1, <2>2, CandidateType
<1>2. entry.done \in 0 .. Len(binds) /\ entry.rows = SubSeq(binds, 1, entry.done)
  BY DEF MemoFresh
<1>3. entry.rows = SubSeq(path, 1, entry.done)
  <2>. DEFINE e == [tape_pos |-> pos, var |-> v]
  <2>1. e \in Bind  BY CandidateType
  <2>2. path = Append(binds, e)  BY DEF Candidate
  <2>. HIDE DEF path, e, entry
  <2>. QED  BY <1>1, <1>2, <2>1, <2>2, PrefixOfAppend
<1>. HIDE DEF path
<1>4. new = IF s \in Reads[v] THEN Extend(entry, s, path) ELSE entry
  BY DEF Evaluated
<1>. HIDE DEF new, entry
<1>5. CASE s \in Reads[v]
  <2>1. entry.done \in Nat /\ entry.done # COMPLETE /\ entry.done <= Len(path)
    BY <1>1, <1>2 DEF COMPLETE
  <2>2. Extend(entry, s, path)
          = [done |-> Len(path), rows |-> entry.rows \o SubSeq(path, entry.done + 1, Len(path))]
    BY <2>1 DEF Extend
  <2>3. entry.rows \o SubSeq(path, entry.done + 1, Len(path)) = path
    <3>1. entry.done \in 0 .. Len(path)  BY <1>1, <2>1
    <3>2. SubSeq(path, 1, entry.done) \o SubSeq(path, entry.done + 1, Len(path)) = path
      BY <1>1, <3>1, PrefixExtended
    <3>. QED  BY <1>3, <3>2
  <2>4. new.done = Len(path) /\ new.rows = path
    <3>1. new = [done |-> Len(path), rows |-> path]  BY <1>4, <1>5, <2>2, <2>3
    <3>. QED  BY <3>1
  <2>5. SubSeq(path, 1, Len(path)) = path /\ Len(path) \in 0 .. Len(path)
    BY <1>1, SubSeqFull
  <2>. QED  BY <2>4, <2>5 DEF new, path
<1>6. CASE s \notin Reads[v]
  <2>1. new = entry /\ new.done \in 0 .. Len(path)
    BY <1>1, <1>2, <1>4, <1>6
  <2>. QED  BY <1>3, <1>6, <2>1 DEF new, path
<1>. QED  BY <1>5, <1>6

(* The index after the tentative row was pushed is exact for the path. *)
LEMMA IndexedExact ==
  ASSUME TypeOK, IndexExact, NEW v \in Var
  PROVE  Indexed(v) \in [Label -> Seq(Nat)] /\ Exact(Indexed(v), Candidate(v))
<1>. DEFINE e == [tape_pos |-> pos, var |-> v]
<1>1. /\ binds \in Seq(Bind) /\ e \in Bind /\ e.var = v
      /\ index \in [Label -> Seq(Nat)] /\ Exact(index, binds)
  BY CandidateType DEF TypeOK, IndexExact
<1>2. Indexed(v) = Push(index, Len(binds) + 1, e.var) /\ Candidate(v) = Append(binds, e)
  BY DEF Indexed, Candidate
<1>. HIDE DEF e
<1>. QED  BY <1>1, <1>2, PushExact

(* Restoring an alternative keeps an exact index exact. *)
LEMMA BacktrackFresh ==
  ASSUME IInv, status = "run",
         NEW indexed \in [Label -> Seq(Nat)], Exact(indexed, binds),
         Backtrack(indexed)
  PROVE  CachesFresh'
<1>1. CASE GiveUp(indexed)
  BY <1>1 DEF GiveUp, CachesFresh
<1>2. CASE Resume(indexed)
  <2>. DEFINE n == stack[Len(stack)].binds_len
  <2>1. /\ stack \in Seq(Alt) /\ Len(stack) \in 1 .. Len(stack)
        /\ binds \in Seq(Bind) /\ Len(binds) \in Nat
    BY <1>2 DEF IInv, TypeOK, Resume
  <2>2. n \in Nat
    <3>1. stack[Len(stack)] \in Alt  BY <2>1, ElementOfSeq
    <3>. QED  BY <3>1 DEF Alt
  <2>3. n <= Len(binds)
    BY <2>1 DEF IInv, PathInv
  <2>4. binds' = SubSeq(binds, 1, n) /\ index' = Truncate(indexed, n) /\ memo' = NoFolds
    BY <1>2 DEF Resume
  <2>. HIDE DEF n
  <2>5. n \in 0 .. Len(binds)
    BY <2>1, <2>2, <2>3
  <2>6. IndexExact'
    BY <2>1, <2>4, <2>5, TruncateExact DEF IndexExact
  <2>7. binds' \in Seq(Bind)
    BY <2>1, <2>4, <2>5, Prefix
  <2>8. MemoFresh'
    BY <2>4, <2>7, NoFoldsFresh DEF MemoFresh
  <2>. QED  BY <2>6, <2>8 DEF CachesFresh
<1>. QED  BY <1>1, <1>2 DEF Backtrack

LEMMA InitFresh == Init => CachesFresh
BY DEF Init, CachesFresh

LEMMA StepFresh ==
  ASSUME FinalSite = {}
  PROVE  IInv /\ CachesFresh /\ [Next]_vars => CachesFresh'
<1>. SUFFICES ASSUME IInv, CachesFresh, [Next]_vars PROVE CachesFresh'  OBVIOUS
<1>0. TypeOK /\ binds \in Seq(Bind) /\ index \in [Label -> Seq(Nat)]
  BY DEF IInv, TypeOK
<1>1. CASE Attempt
  <2>1. binds' = <<>> /\ index' = NoBinds /\ memo' = NoFolds /\ <<>> \in Seq(Bind)
    BY <1>1 DEF Attempt
  <2>2. IndexExact'
    BY <2>1, NoBindsExact DEF IndexExact
  <2>3. MemoFresh'
    BY <2>1, NoFoldsFresh DEF MemoFresh
  <2>. QED  BY <2>2, <2>3 DEF CachesFresh
<1>2. CASE Return \/ Overrun \/ Accept \/ PredicateError
  BY <1>2 DEF Return, Overrun, Accept, PredicateError, CachesFresh
<1>3. CASE Jump \/ Split
  BY <1>3 DEF Jump, Split, Executes, CachesFresh, IndexExact, MemoFresh
<1>4. ASSUME NEW op \in {"anchor_start", "anchor_end"}, AnchorHolds(op)
      PROVE  CachesFresh'
  BY <1>4 DEF AnchorHolds, Executes, CachesFresh, IndexExact, MemoFresh
<1>5. ASSUME NEW op \in {"anchor_start", "anchor_end"}, AnchorFails(op)
      PROVE  CachesFresh'
  <2>1. status = "run" /\ Backtrack(index) /\ Exact(index, binds)
    BY <1>5 DEF AnchorFails, Executes, CachesFresh, IndexExact
  <2>. QED  BY <1>0, <2>1, BacktrackFresh
<1>6. CASE EndOfTape
  <2>1. status = "run" /\ Backtrack(index) /\ Exact(index, binds)
    BY <1>6 DEF EndOfTape, Executes, CachesFresh, IndexExact
  <2>. QED  BY <1>0, <2>1, BacktrackFresh
<1>7. CASE BindRow
  <2>. DEFINE v == Prog[ip].var
  <2>1. v \in Var /\ IndexExact /\ MemoFresh
    BY <1>7, Instruction DEF IInv, TypeOK, BindRow, Executes, CachesFresh
  <2>2. /\ binds' = Candidate(v) /\ index' = Indexed(v)
        /\ memo' = Evaluated(v, Candidate(v))
    BY <1>7 DEF BindRow
  <2>. HIDE DEF v
  <2>3. IndexExact'
    BY <1>0, <2>1, <2>2, IndexedExact DEF IndexExact
  <2>4. MemoFresh'
    BY <1>0, <2>1, <2>2, EvaluatedFresh DEF MemoFresh
  <2>. QED  BY <2>3, <2>4 DEF CachesFresh
<1>8. CASE RejectRow
  <2>. DEFINE v == Prog[ip].var
              indexed == Truncate(Indexed(v), Len(binds))
  <2>1. v \in Var /\ status = "run" /\ Backtrack(indexed) /\ IndexExact
    BY <1>8, Instruction DEF IInv, TypeOK, RejectRow, Executes, CachesFresh
  <2>2. Indexed(v) \in [Label -> Seq(Nat)] /\ Exact(Indexed(v), Candidate(v))
    BY <1>0, <2>1, IndexedExact
  <2>3. Candidate(v) \in Seq(Bind) /\ Len(binds) \in 0 .. Len(Candidate(v))
    <3>1. Len(binds) \in Nat  BY <1>0
    <3>2. Candidate(v) \in Seq(Bind) /\ Len(Candidate(v)) = Len(binds) + 1
      BY <1>0, <2>1, CandidateType
    <3>. QED  BY <3>1, <3>2
  <2>4. SubSeq(Candidate(v), 1, Len(binds)) = binds
    <3>1. Candidate(v) = Append(binds, [tape_pos |-> pos, var |-> v])
      BY DEF Candidate
    <3>2. [tape_pos |-> pos, var |-> v] \in Bind
      BY <1>0, <2>1, CandidateType
    <3>3. Len(binds) \in 0 .. Len(binds) /\ SubSeq(binds, 1, Len(binds)) = binds
      BY <1>0, SubSeqFull
    <3>. QED  BY <1>0, <3>1, <3>2, <3>3, PrefixOfAppend
  <2>5. indexed \in [Label -> Seq(Nat)] /\ Exact(indexed, binds)
    BY <2>2, <2>3, <2>4, TruncateExact
  <2>. HIDE DEF indexed
  <2>. QED  BY <2>1, <2>5, BacktrackFresh
<1>9. CASE UNCHANGED vars
  BY <1>9 DEF vars, CachesFresh, IndexExact, MemoFresh
<1>. QED  BY <1>1, <1>2, <1>3, <1>4, <1>5, <1>6, <1>7, <1>8, <1>9 DEF Next

(* What the caches tell a predicate, when they are fresh. *)
LEMMA FreshIsSeen ==
  ASSUME FinalSite = {}, TypeOK, CachesFresh
  PROVE  DefineSeesPath
<1>. SUFFICES ASSUME status = "run", Prog[ip].op = "char", pos < TapeLen
              PROVE  LET v == Prog[ip].var
                     IN  /\ \A l \in Label : LastRead(v)[l]
                                = LastByScan(Candidate(v), l, Len(Candidate(v)))
                         /\ \A s \in Reads[v] : FoldsRead(v)[s] = Candidate(v)
  BY DEF DefineSeesPath
<1>. DEFINE v == Prog[ip].var
<1>1. v \in Var /\ IndexExact /\ MemoFresh
  BY Instruction DEF TypeOK, CachesFresh
<1>. HIDE DEF v
<1>2. /\ Candidate(v) \in Seq(Bind) /\ Len(Candidate(v)) \in 0 .. Len(Candidate(v))
      /\ Len(Candidate(v)) \in Nat
  <2>1. Candidate(v) \in Seq(Bind)  BY <1>1, CandidateType
  <2>. QED  BY <2>1
<1>3. Indexed(v) \in [Label -> Seq(Nat)] /\ Exact(Indexed(v), Candidate(v))
  BY <1>1, IndexedExact
<1>4. ASSUME NEW l \in Label
      PROVE  LastRead(v)[l] = LastByScan(Candidate(v), l, Len(Candidate(v)))
  <2>1. LastRead(v)[l] = LastBefore(Indexed(v), l, Len(Candidate(v)))
    BY DEF LastRead
  <2>. QED  BY <1>2, <1>3, <2>1, LastBeforeIsScan
<1>5. ASSUME NEW s \in Reads[v] PROVE FoldsRead(v)[s] = Candidate(v)
  <2>1. s \in Site  BY <1>1, SiteAssumption
  <2>2. FoldsRead(v)[s] = Evaluated(v, Candidate(v))[s].rows
    BY DEF FoldsRead
  <2>. QED  BY <1>1, <2>1, <2>2, EvaluatedFresh
<1>. QED  BY <1>4, <1>5 DEF v

(* The index and the memo never outlive the path they describe, through any *)
(* sequence of binds, rejections and restored alternatives, as long as no   *)
(* DEFINE aggregate is under FINAL.                                         *)
THEOREM CachesStayFresh ==
  ASSUME FinalSite = {}
  PROVE  Spec => []CachesFresh
<1>1. IInv /\ CachesFresh /\ [Next]_vars => CachesFresh'
  BY StepFresh
<1>. QED  BY <1>1, InitFresh, Inductive, PTL DEF Spec

(* DEFINE predicates are then always RUNNING: each one sees exactly the     *)
(* rows of its tentative path.                                              *)
THEOREM DefineIsRunning ==
  ASSUME FinalSite = {}
  PROVE  Spec => []DefineSeesPath
<1>1. TypeOK /\ CachesFresh => DefineSeesPath
  BY FreshIsSeen
<1>. QED  BY <1>1, CachesStayFresh, TypeCorrect, PTL

-----------------------------------------------------------------------------
(* What find_all reports.                                                   *)

(* What each action does to the scan and to what was reported. *)
LEMMA Reported ==
  ASSUME IInv, [Next]_vars
  PROVE  \/ /\ status = "run" /\ Accept
         \/ /\ i' >= i /\ i' \in Nat
            /\ status = "run" /\ status' = "scan" => i' > i
            /\ UNCHANGED <<job, number, matches>>
<1>0. i \in Nat  BY DEF IInv, TypeOK
<1>1. CASE Accept  BY <1>1 DEF Accept, Executes
<1>2. CASE Attempt \/ Return  BY <1>0, <1>2 DEF Attempt, Return
<1>3. CASE Overrun \/ Jump \/ Split \/ BindRow \/ PredicateError
  BY <1>0, <1>3 DEF Overrun, Jump, Split, BindRow, PredicateError, Executes
<1>4. ASSUME NEW op \in {"anchor_start", "anchor_end"}, AnchorHolds(op)
      PROVE  i' = i /\ status' = "run" /\ UNCHANGED <<job, number, matches>>
  BY <1>4 DEF AnchorHolds, Executes
<1>5. ASSUME NEW indexed, status = "run", Backtrack(indexed)
      PROVE  /\ (i' = i /\ status' = "run") \/ i' = i + 1
             /\ UNCHANGED <<job, number, matches>>
  BY <1>5 DEF Backtrack, Resume, GiveUp
<1>6. ASSUME NEW op \in {"anchor_start", "anchor_end"}, AnchorFails(op)
      PROVE  \E indexed : status = "run" /\ Backtrack(indexed)
  BY <1>6 DEF AnchorFails, Executes
<1>7. CASE EndOfTape \/ RejectRow
  <2>1. \E indexed : status = "run" /\ Backtrack(indexed)
    BY <1>7 DEF EndOfTape, RejectRow, Executes
  <2>. QED  BY <1>0, <1>5, <2>1
<1>8. CASE UNCHANGED vars  BY <1>0, <1>8 DEF vars
<1>. QED  BY <1>0, <1>1, <1>2, <1>3, <1>4, <1>5, <1>6, <1>7, <1>8 DEF Next

(* SKIP PAST LAST ROW resumes at the end of the match. *)
LEMMA PastLastRow ==
  ASSUME NEW after, NEW m, after.mode = "past_last_row"
  PROVE  SkipTarget(after, m) = m.end
BY DEF SkipTarget

LEMMA InitOrdered == Init => MatchesOrdered
BY DEF Init, MatchesOrdered

LEMMA StepOrdered == IInv /\ MatchesOrdered /\ [Next]_vars => MatchesOrdered'
<1>. SUFFICES ASSUME IInv, MatchesOrdered, [Next]_vars PROVE MatchesOrdered'  OBVIOUS
<1>. DEFINE n == Len(matches)
            past == job.after.mode = "past_last_row"
<1>0. /\ TypeOK /\ i \in Nat /\ number \in Nat /\ matches \in Seq(Match) /\ n \in Nat
  BY DEF IInv, TypeOK
<1>1. /\ number = n + 1
      /\ \A k \in 1 .. n : /\ matches[k].match_number = k
                           /\ matches[k].end = matches[k].start + Len(matches[k].binds)
                           /\ matches[k].start < i
                           /\ past => matches[k].end <= i
      /\ \A k, m \in 1 .. n : k < m => /\ matches[k].start < matches[m].start
                                       /\ past => matches[k].end <= matches[m].start
  BY DEF MatchesOrdered
<1>2. ASSUME NEW k \in 1 .. n
      PROVE  matches[k].start \in Nat /\ matches[k].end \in Nat
  <2>1. matches[k] \in Match  BY <1>0, ElementOfSeq
  <2>. QED  BY <2>1 DEF Match
<1>3. CASE i' >= i /\ i' \in Nat /\ UNCHANGED <<job, number, matches>>
  <2>1. ASSUME NEW k \in 1 .. n
        PROVE  matches[k].start < i' /\ (past => matches[k].end <= i')
    BY <1>0, <1>1, <1>2, <1>3
  <2>. QED  BY <1>1, <1>3, <2>1 DEF MatchesOrdered
<1>4. CASE status = "run" /\ Accept
  <2>. DEFINE m == [match_number |-> number, start |-> i, end |-> pos, binds |-> binds]
  <2>1. /\ matches' = Append(matches, m) /\ number' = number + 1 /\ job' = job
        /\ i' = Advance(i, SkipTarget(job.after, m))
    BY <1>4 DEF Accept
  <2>2. m \in Match /\ i' \in Nat /\ i' > i /\ i' >= SkipTarget(job.after, m)
    BY <1>0, <2>1, AcceptedType
  <2>3. /\ m.match_number = n + 1 /\ m.start = i /\ m.end = pos /\ m.binds = binds
        /\ pos = i + Len(binds) /\ Len(binds) \in Nat
    BY <1>1, <1>4 DEF IInv, PathInv, TypeOK
  <2>4. past => pos <= i'
    <3>. SUFFICES ASSUME past PROVE pos <= i'  OBVIOUS
    <3>1. SkipTarget(job.after, m) = pos
      BY <2>3, PastLastRow
    <3>. QED  BY <2>2, <2>3, <3>1, <1>0
  <2>. HIDE DEF m
  <2>5. /\ Len(matches') = n + 1 /\ matches'[n + 1] = m
        /\ \A k \in 1 .. n : matches'[k] = matches[k]
    BY <1>0, <2>1, <2>2, AppendProperties
  <2>6. ASSUME NEW k \in 1 .. n + 1
        PROVE  /\ matches'[k].match_number = k
               /\ matches'[k].end = matches'[k].start + Len(matches'[k].binds)
               /\ matches'[k].start < i'
               /\ past => matches'[k].end <= i'
    <3>1. CASE k = n + 1
      BY <1>0, <2>2, <2>3, <2>4, <2>5, <3>1
    <3>2. CASE k # n + 1
      <4>1. k \in 1 .. n /\ matches'[k] = matches[k]  BY <1>0, <2>5, <3>2
      <4>. QED  BY <1>0, <1>1, <1>2, <2>2, <4>1
    <3>. QED  BY <3>1, <3>2
  <2>7. ASSUME NEW k \in 1 .. n + 1, NEW l \in 1 .. n + 1, k < l
        PROVE  /\ matches'[k].start < matches'[l].start
               /\ past => matches'[k].end <= matches'[l].start
    <3>1. k \in 1 .. n /\ matches'[k] = matches[k]  BY <1>0, <2>5, <2>7
    <3>2. CASE l = n + 1
      BY <1>1, <2>3, <2>5, <3>1, <3>2
    <3>3. CASE l # n + 1
      <4>1. l \in 1 .. n /\ matches'[l] = matches[l]  BY <1>0, <2>5, <3>3
      <4>. QED  BY <1>1, <2>7, <3>1, <4>1
    <3>. QED  BY <3>2, <3>3
  <2>8. number' = Len(matches') + 1
    BY <1>0, <1>1, <2>1, <2>5
  <2>. QED  BY <2>1, <2>5, <2>6, <2>7, <2>8 DEF MatchesOrdered
<1>. QED  BY <1>3, <1>4, Reported

(* Matches come out in tape order, numbered from 1 without gaps, each       *)
(* spanning exactly the rows it binds, and under SKIP PAST LAST ROW no two  *)
(* of them share a row.                                                     *)
THEOREM MatchesInOrder == Spec => []MatchesOrdered
BY InitOrdered, StepOrdered, Inductive, PTL DEF Spec

(* The scan only moves forward, leaves an attempt beyond its start row, and *)
(* never changes a match it reported.                                       *)
THEOREM ScanOnlyAdvances == Spec => ScanAdvances
<1>. DEFINE Advances == /\ i' >= i
                        /\ status = "run" /\ status' = "scan" => i' > i
                        /\ Len(matches') >= Len(matches)
                        /\ SubSeq(matches', 1, Len(matches)) = matches
<1>1. ASSUME IInv, [Next]_vars PROVE [Advances]_vars
  <2>0. /\ TypeOK /\ i \in Nat /\ matches \in Seq(Match)
    <3>1. TypeOK  BY <1>1 DEF IInv
    <3>. QED  BY <3>1 DEF TypeOK
  <2>a. Len(matches) \in Nat /\ SubSeq(matches, 1, Len(matches)) = matches
    BY <2>0, SubSeqFull
  <2>1. CASE /\ i' >= i
             /\ status = "run" /\ status' = "scan" => i' > i
             /\ UNCHANGED matches
    BY <2>a, <2>1
  <2>2. CASE Accept
    <3>. DEFINE m == [match_number |-> number, start |-> i, end |-> pos, binds |-> binds]
    <3>1. /\ matches' = Append(matches, m)
          /\ i' = Advance(i, SkipTarget(job.after, m))
      BY <2>2 DEF Accept
    <3>2. m \in Match /\ i' \in Nat /\ i' > i
      BY <2>0, <3>1, AcceptedType
    <3>. HIDE DEF m
    <3>3. Len(matches') = Len(matches) + 1
      BY <2>0, <3>1, <3>2, AppendProperties
    <3>4. SubSeq(matches', 1, Len(matches)) = matches
      <4>1. Len(matches) \in 0 .. Len(matches)  BY <2>a
      <4>. QED  BY <2>0, <2>a, <3>1, <3>2, <4>1, PrefixOfAppend
    <3>. QED  BY <2>0, <2>a, <3>2, <3>3, <3>4
  <2>. QED  BY <1>1, <2>1, <2>2, Reported
<1>2. IInv /\ [Next]_vars => [Advances]_vars  BY <1>1
<1>. QED  BY <1>2, Inductive, PTL DEF Spec, ScanAdvances
=============================================================================
