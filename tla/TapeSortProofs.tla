--------------------------- MODULE TapeSortProofs ---------------------------
(***************************************************************************)
(* For every tape, every permutation of its positions and every mark       *)
(* above them, apply_permutation gives each slot the element its entry     *)
(* named, and never touches a slot twice; and sort_tape leaves the rows of *)
(* every partition in the one stable order of its keys, whichever of its   *)
(* paths the tape takes.                                                   *)
(***************************************************************************)
EXTENDS TapeSort, SequenceLemmas

-----------------------------------------------------------------------------
(* apply_permutation.                                                       *)

(***************************************************************************)
(* The bits of an entry: marking keeps the position it names.              *)
(***************************************************************************)
LEMMA MarkBits ==
  ASSUME NEW x \in Int, 0 <= x, x < 2 * PermDone
  PROVE  /\ Index(Mark(x)) = Index(x)
         /\ Marked(Mark(x))
         /\ ~Marked(x) => Index(x) = x /\ Mark(x) = x + PermDone
  BY PermDoneAssumption DEF Index, Mark, Marked

(***************************************************************************)
(* Under the type invariant: what an entry is, and where it leads.         *)
(***************************************************************************)
LEMMA Entry ==
  ASSUME PermTypeOK, NEW i \in Slots
  PROVE  /\ perm[i] \in Int /\ 0 <= perm[i] /\ perm[i] < 2 * PermDone
         /\ Index(perm[i]) \in Slots
         /\ given.perm[i] \in Slots
         /\ given.n \in Nat /\ given.n <= PermDone
  <1>1. given.n \in Nat /\ given.n <= MaxRows
    BY PermDoneAssumption DEF PermTypeOK, IsCall
  <1>2. given.n <= PermDone
    BY <1>1, PermDoneAssumption
  <1>3. perm[i] \in Slots \cup {s + PermDone : s \in Slots}
    BY DEF PermTypeOK
  <1>4. given.perm[i] \in Slots
    BY DEF PermTypeOK, IsCall, Slots
  <1>5. CASE perm[i] \in Slots
    BY <1>1, <1>2, <1>4, <1>5, PermDoneAssumption DEF Slots, Index, Marked
  <1>6. CASE perm[i] \in {s + PermDone : s \in Slots}
    <2>1. PICK s \in Slots : perm[i] = s + PermDone
      BY <1>6
    <2>. QED
      BY <1>1, <1>2, <1>4, <2>1, PermDoneAssumption DEF Slots, Index, Marked
  <1>. QED
    BY <1>3, <1>5, <1>6

(***************************************************************************)
(* The initial states satisfy the invariant.                               *)
(***************************************************************************)
LEMMA InitIInv == PermInit => IInv
  <1>. SUFFICES ASSUME PermInit PROVE IInv
    OBVIOUS
  <1>1. given.n \in Nat /\ given.n <= PermDone
    BY PermDoneAssumption DEF PermInit, IsCall
  <1>2. PermTypeOK
    BY <1>1 DEF PermInit, IsCall, PermTypeOK, Slots
  <1>3. \A i \in Slots : ~Marked(perm[i]) /\ Index(perm[i]) = given.perm[i]
    <2>. SUFFICES ASSUME NEW i \in Slots PROVE ~Marked(perm[i]) /\ Index(perm[i]) = given.perm[i]
      OBVIOUS
    <2>1. perm[i] = given.perm[i] /\ given.perm[i] \in Slots
      BY DEF PermInit, IsCall, Slots
    <2>. QED
      BY <1>1, <2>1, PermDoneAssumption DEF Slots, Marked, Index
  <1>4. start = 0 /\ at = "scan" /\ tape = given.tape
    BY DEF PermInit
  <1>5. EntriesKept /\ Undisturbed /\ Closing
    <2>1. \A i \in Slots : given.perm[i] \in Slots
      BY DEF PermInit, IsCall, Slots
    <2>. QED
      BY <1>3, <1>4, <2>1 DEF EntriesKept, Undisturbed, Closing
  <1>6. Passed
    BY <1>1, <1>4 DEF Passed, Slots
  <1>7. Walking /\ Returned
    BY <1>4 DEF Walking, Returned
  <1>. QED
    BY <1>2, <1>5, <1>6, <1>7 DEF IInv

(***************************************************************************)
(* In the inner loop, where the cycle leads: to an unmarked slot other     *)
(* than this one, unless it closes.                                        *)
(***************************************************************************)
LEMMA Ahead ==
  ASSUME IInv, at = "walk"
  PROVE  /\ slot \in Slots /\ start \in Slots
         /\ From = given.perm[slot] /\ From \in Slots
         /\ ~Closed => From # slot /\ ~Marked(perm[From]) /\ From # start
         /\ \A i \in Slots : given.perm[i] = slot /\ ~Marked(perm[i]) => i = slot \/ slot = start
  <1>1. slot \in Slots /\ given.n \in Nat
    BY PermDoneAssumption DEF IInv, PermTypeOK, IsCall
  <1>2. start \in Slots
    BY <1>1 DEF IInv, PermTypeOK, Walking, Slots
  <1>3. From = given.perm[slot] /\ From \in Slots
    BY <1>1, Entry DEF IInv, EntriesKept, From
  <1>4. \A i, j \in Slots : given.perm[i] = given.perm[j] => i = j
    BY DEF IInv, PermTypeOK, IsCall, Injective, Slots
  <1>5. \A i \in Slots : given.perm[i] = slot /\ ~Marked(perm[i]) => i = slot \/ slot = start
    BY <1>1, <1>4 DEF IInv, Walking
  <1>6. ASSUME ~Closed PROVE From # slot /\ ~Marked(perm[From]) /\ From # start
    <2>1. From # start
      BY <1>6 DEF Closed
    <2>2. ~Marked(perm[slot])
      BY DEF IInv, Walking
    <2>3. ~Marked(perm[From])
      BY <1>1, <1>3, <2>1, <2>2 DEF IInv, Closing
    <2>4. From # slot
      <3>. SUFFICES ASSUME From = slot PROVE FALSE
        OBVIOUS
      <3>1. PICK i \in Slots : Marked(perm[i]) /\ given.perm[i] = slot
        BY <2>1 DEF IInv, Walking
      <3>. QED
        BY <1>1, <1>3, <1>4, <2>2, <3>1
    <2>. QED
      BY <2>1, <2>3, <2>4
  <1>. QED
    BY <1>1, <1>2, <1>3, <1>5, <1>6

(***************************************************************************)
(* Outside the inner loop: passing a marked slot, entering a cycle at an   *)
(* unmarked one, and returning.                                            *)
(***************************************************************************)
LEMMA SkipIInv ==
  ASSUME IInv, Skip
  PROVE  IInv'
  <1>1. /\ at = "scan" /\ start < given.n /\ Marked(perm[start]) /\ start' = start + 1
        /\ given' = given /\ tape' = tape /\ perm' = perm /\ held' = held /\ slot' = slot /\ at' = at
    BY DEF Skip
  <1>2. given.n \in Nat /\ start \in Nat
    BY DEF IInv, PermTypeOK, IsCall
  <1>3. Slots' = Slots
    BY <1>1 DEF Slots
  <1>4. PermTypeOK'
    BY <1>1, <1>2, <1>3 DEF IInv, PermTypeOK, IsCall
  <1>5. EntriesKept' /\ Undisturbed'
    BY <1>1, <1>3 DEF IInv, EntriesKept, Undisturbed
  <1>6. Passed'
    BY <1>1, <1>2, <1>3 DEF IInv, Passed, Slots
  <1>7. Closing'
    BY <1>1, <1>3 DEF IInv, Closing
  <1>8. Walking' /\ Returned'
    BY <1>1 DEF Walking, Returned
  <1>. QED
    BY <1>4, <1>5, <1>6, <1>7, <1>8 DEF IInv

LEMMA OpenIInv ==
  ASSUME IInv, Open
  PROVE  IInv'
  <1>1. /\ at = "scan" /\ start < given.n /\ ~Marked(perm[start])
        /\ held' = tape[start] /\ slot' = start /\ at' = "walk"
        /\ given' = given /\ tape' = tape /\ perm' = perm /\ start' = start
    BY DEF Open
  <1>2. given.n \in Nat /\ start \in Nat /\ start \in Slots
    BY <1>1 DEF IInv, PermTypeOK, IsCall, Slots
  <1>3. Slots' = Slots
    BY <1>1 DEF Slots
  <1>4. PermTypeOK'
    BY <1>1, <1>2, <1>3 DEF IInv, PermTypeOK, IsCall
  <1>5. EntriesKept' /\ Undisturbed' /\ Passed'
    BY <1>1, <1>3 DEF IInv, EntriesKept, Undisturbed, Passed
  <1>6. Closing'
    BY <1>1, <1>3 DEF IInv, Closing
  <1>7. Walking' /\ Returned'
    BY <1>1, <1>2 DEF IInv, Undisturbed, Walking, Returned
  <1>. QED
    BY <1>4, <1>5, <1>6, <1>7 DEF IInv

LEMMA ReturnIInv ==
  ASSUME IInv, Return
  PROVE  IInv'
  <1>1. /\ at = "scan" /\ start = given.n /\ at' = "done"
        /\ given' = given /\ tape' = tape /\ perm' = perm /\ start' = start /\ held' = held /\ slot' = slot
    BY DEF Return
  <1>2. Slots' = Slots
    BY <1>1 DEF Slots
  <1>3. PermTypeOK'
    BY <1>1, <1>2 DEF IInv, PermTypeOK, IsCall
  <1>4. EntriesKept' /\ Undisturbed' /\ Passed' /\ Closing'
    BY <1>1, <1>2 DEF IInv, EntriesKept, Undisturbed, Passed, Closing
  <1>5. Walking' /\ Returned'
    BY <1>1 DEF Walking, Returned
  <1>. QED
    BY <1>3, <1>4, <1>5 DEF IInv

(***************************************************************************)
(* What both steps of the inner loop do to perm: the slot is marked, its   *)
(* entry keeps the position it names, and nothing else changes.            *)
(***************************************************************************)
LEMMA MarkSlot ==
  ASSUME IInv, at = "walk", perm' = [perm EXCEPT ![slot] = Mark(@)], given' = given
  PROVE  /\ perm' \in [Slots -> Slots \cup {s + PermDone : s \in Slots}]
         /\ Marked(perm'[slot]) /\ Index(perm'[slot]) = given.perm[slot]
         /\ \A i \in Slots : i # slot => perm'[i] = perm[i]
  <1>1. slot \in Slots /\ ~Marked(perm[slot])
    BY DEF IInv, PermTypeOK, Walking
  <1>2. /\ perm[slot] \in Int /\ 0 <= perm[slot] /\ perm[slot] < 2 * PermDone
        /\ Index(perm[slot]) \in Slots
    BY <1>1, Entry DEF IInv
  <1>3. /\ Index(Mark(perm[slot])) = Index(perm[slot]) /\ Marked(Mark(perm[slot]))
        /\ Index(perm[slot]) = perm[slot] /\ Mark(perm[slot]) = perm[slot] + PermDone
    BY <1>1, <1>2, MarkBits
  <1>4. perm \in [Slots -> Slots \cup {s + PermDone : s \in Slots}]
    BY DEF IInv, PermTypeOK
  <1>5. perm'[slot] = Mark(perm[slot]) /\ \A i \in Slots : i # slot => perm'[i] = perm[i]
    BY <1>1, <1>4
  <1>6. Mark(perm[slot]) \in {s + PermDone : s \in Slots}
    BY <1>2, <1>3
  <1>7. perm' \in [Slots -> Slots \cup {s + PermDone : s \in Slots}]
    BY <1>1, <1>4, <1>6
  <1>8. Index(perm[slot]) = given.perm[slot]
    BY <1>1 DEF IInv, EntriesKept
  <1>. QED
    BY <1>3, <1>5, <1>7, <1>8

(***************************************************************************)
(* A step along a cycle.                                                   *)
(***************************************************************************)
LEMMA WalkIInv ==
  ASSUME IInv, Walk
  PROVE  IInv'
  <1>1. /\ at = "walk" /\ ~Closed /\ perm' = [perm EXCEPT ![slot] = Mark(@)]
        /\ tape' = [tape EXCEPT ![slot] = tape[From]] /\ slot' = From
        /\ given' = given /\ start' = start /\ held' = held /\ at' = at
    BY DEF Walk
  <1>2. /\ slot \in Slots /\ start \in Slots /\ From = given.perm[slot] /\ From \in Slots
        /\ From # slot /\ ~Marked(perm[From]) /\ From # start
    BY <1>1, Ahead
  <1>3. /\ perm' \in [Slots -> Slots \cup {s + PermDone : s \in Slots}]
        /\ Marked(perm'[slot]) /\ Index(perm'[slot]) = given.perm[slot]
        /\ \A i \in Slots : i # slot => perm'[i] = perm[i]
    BY <1>1, MarkSlot
  <1>4. Slots' = Slots
    BY <1>1 DEF Slots
  <1>5. tape \in [Slots -> Row]
    BY DEF IInv, PermTypeOK
  <1>6. tape'[slot] = given.tape[given.perm[slot]] /\ \A i \in Slots : i # slot => tape'[i] = tape[i]
    BY <1>1, <1>2, <1>5 DEF IInv, Undisturbed
  <1>7. PermTypeOK'
    <2>1. tape' \in [Slots -> Row]
      BY <1>1, <1>2, <1>5
    <2>. QED
      BY <1>1, <1>2, <1>3, <1>4, <2>1 DEF IInv, PermTypeOK, IsCall
  <1>8. EntriesKept'
    BY <1>1, <1>3, <1>4 DEF IInv, EntriesKept
  <1>9. Undisturbed'
    BY <1>1, <1>3, <1>4, <1>6 DEF IInv, Undisturbed
  <1>10. Passed'
    BY <1>1, <1>3, <1>4 DEF IInv, Passed
  <1>11. Closing'
    <2>. SUFFICES ASSUME NEW i \in Slots, ~Marked(perm'[i]), Marked(perm'[given.perm[i]])
                  PROVE  given.perm[i] = start
      BY <1>1, <1>4 DEF Closing
    <2>1. i # slot /\ ~Marked(perm[i])
      BY <1>3
    <2>2. CASE given.perm[i] = slot
      BY <1>1, <1>2, <2>1, <2>2, Ahead
    <2>3. CASE given.perm[i] # slot
      <3>1. given.perm[i] \in Slots
        BY Entry DEF IInv
      <3>. QED
        BY <1>3, <2>1, <2>3, <3>1 DEF IInv, Closing
    <2>. QED
      BY <2>2, <2>3
  <1>12. Walking'
    <2>1. start < given.n /\ held = given.tape[start] /\ (slot # start => Marked(perm[start]))
      BY <1>1 DEF IInv, Walking
    <2>2. Marked(perm'[start])
      BY <1>2, <1>3, <2>1
    <2>3. ~Marked(perm'[From])
      BY <1>2, <1>3
    <2>4. \E i \in Slots : Marked(perm'[i]) /\ given.perm[i] = From
      BY <1>2, <1>3
    <2>. QED
      BY <1>1, <1>4, <2>1, <2>2, <2>3, <2>4 DEF Walking
  <1>13. Returned'
    BY <1>1 DEF Returned
  <1>. QED
    BY <1>7, <1>8, <1>9, <1>10, <1>11, <1>12, <1>13 DEF IInv

(***************************************************************************)
(* The step that closes a cycle: the slot whose entry names start gets     *)
(* what start held when the cycle was entered.                             *)
(***************************************************************************)
LEMMA CloseIInv ==
  ASSUME IInv, Close
  PROVE  IInv'
  <1>1. /\ at = "walk" /\ From = start /\ perm' = [perm EXCEPT ![slot] = Mark(@)]
        /\ tape' = [tape EXCEPT ![slot] = held] /\ at' = "scan" /\ start' = start + 1
        /\ given' = given /\ held' = held /\ slot' = slot
    BY DEF Close, Closed
  <1>2. slot \in Slots /\ start \in Slots /\ From = given.perm[slot]
    BY <1>1, Ahead
  <1>3. /\ perm' \in [Slots -> Slots \cup {s + PermDone : s \in Slots}]
        /\ Marked(perm'[slot]) /\ Index(perm'[slot]) = given.perm[slot]
        /\ \A i \in Slots : i # slot => perm'[i] = perm[i]
    BY <1>1, MarkSlot
  <1>4. Slots' = Slots
    BY <1>1 DEF Slots
  <1>5. tape \in [Slots -> Row] /\ held \in Row /\ held = given.tape[start]
    BY <1>1 DEF IInv, PermTypeOK, Walking
  <1>6. tape'[slot] = given.tape[given.perm[slot]] /\ \A i \in Slots : i # slot => tape'[i] = tape[i]
    BY <1>1, <1>2, <1>5
  <1>7. PermTypeOK'
    <2>1. tape' \in [Slots -> Row]
      BY <1>1, <1>2, <1>5
    <2>2. start' \in 0..given.n
      BY <1>1, <1>2 DEF Slots, IInv, PermTypeOK, IsCall
    <2>. QED
      BY <1>1, <1>3, <1>4, <1>5, <2>1, <2>2 DEF IInv, PermTypeOK, IsCall
  <1>8. EntriesKept' /\ Undisturbed'
    BY <1>1, <1>3, <1>4, <1>6 DEF IInv, EntriesKept, Undisturbed
  <1>9. Marked(perm'[start])
    BY <1>1, <1>2, <1>3 DEF IInv, Walking
  <1>10. Passed'
    <2>. SUFFICES ASSUME NEW i \in Slots, i < start + 1 PROVE Marked(perm'[i])
      BY <1>1, <1>4 DEF Passed
    <2>1. CASE i = start
      BY <1>9, <2>1
    <2>2. CASE i # start
      <3>1. i < start
        BY <1>2, <2>2 DEF Slots, IInv, PermTypeOK, IsCall
      <3>. QED
        BY <1>3, <3>1 DEF IInv, Passed
    <2>. QED
      BY <2>1, <2>2
  <1>11. Closing'
    <2>. SUFFICES ASSUME NEW i \in Slots, ~Marked(perm'[i]), Marked(perm'[given.perm[i]])
                  PROVE  FALSE
      BY <1>1, <1>4 DEF Closing
    <2>1. i # slot /\ ~Marked(perm[i]) /\ given.perm[i] \in Slots
      BY <1>3, Entry DEF IInv
    <2>2. \A j, k \in Slots : given.perm[j] = given.perm[k] => j = k
      BY DEF IInv, PermTypeOK, IsCall, Injective, Slots
    <2>3. given.perm[i] # start
      BY <1>1, <1>2, <2>1, <2>2
    <2>4. CASE given.perm[i] = slot
      BY <1>1, <1>2, <2>1, <2>3, <2>4, Ahead
    <2>5. CASE given.perm[i] # slot
      BY <1>3, <2>1, <2>3, <2>5 DEF IInv, Closing
    <2>. QED
      BY <2>4, <2>5
  <1>12. Walking' /\ Returned'
    BY <1>1 DEF Walking, Returned
  <1>. QED
    BY <1>7, <1>8, <1>10, <1>11, <1>12 DEF IInv

(***************************************************************************)
(* The invariant is inductive.                                             *)
(***************************************************************************)
LEMMA NextIInv == IInv /\ [PermNext]_permVars => IInv'
  <1>. SUFFICES ASSUME IInv, [PermNext]_permVars PROVE IInv'
    OBVIOUS
  <1>1. CASE Skip
    BY <1>1, SkipIInv
  <1>2. CASE Open
    BY <1>2, OpenIInv
  <1>3. CASE Walk
    BY <1>3, WalkIInv
  <1>4. CASE Close
    BY <1>4, CloseIInv
  <1>5. CASE Return
    BY <1>5, ReturnIInv
  <1>6. CASE UNCHANGED permVars
    BY <1>6 DEF permVars, IInv, PermTypeOK, IsCall, Slots, EntriesKept, Undisturbed, Passed, Closing, Walking, Returned
  <1>. QED
    BY <1>1, <1>2, <1>3, <1>4, <1>5, <1>6 DEF PermNext

(***************************************************************************)
(* The invariant, and with it the types, hold throughout.                  *)
(***************************************************************************)
THEOREM PermutationTyped == PermSpec => []PermTypeOK
  <1>1. IInv => PermTypeOK
    BY DEF IInv
  <1>. QED
    BY InitIInv, NextIInv, <1>1, PTL DEF PermSpec

(* When it returns, every slot has been passed, and has its element. *)
LEMMA PassedApplied == IInv => Applied
<1>. SUFFICES ASSUME IInv, at = "done", NEW i \in Slots
              PROVE  tape[i] = given.tape[given.perm[i]]
  BY DEF Applied
<1>1. start = given.n
  BY DEF IInv, Returned
<1>2. i < start
  BY <1>1 DEF Slots, IInv, PermTypeOK, IsCall
<1>3. Marked(perm[i])
  BY <1>2 DEF IInv, Passed
<1>. QED
  BY <1>3 DEF IInv, Undisturbed

(***************************************************************************)
(* apply_permutation is the scatter: when it returns, every slot has the   *)
(* element its entry named, for every tape and every permutation.          *)
(***************************************************************************)
THEOREM PermutationApplied == PermSpec => []Applied
BY InitIInv, NextIInv, PassedApplied, PTL DEF PermSpec

(* What a step may do to the slots. *)
Once == \A i \in Slots : /\ Marked(perm[i]) => tape'[i] = tape[i] /\ perm'[i] = perm[i]
                         /\ tape'[i] # tape[i] => Marked(perm'[i])

LEMMA NextOnce ==
  ASSUME IInv, PermNext
  PROVE  Once
<1>1. CASE Skip \/ Open \/ Return
  BY <1>1 DEF Once, Skip, Open, Return
<1>2. CASE Walk \/ Close
  <2>1. at = "walk" /\ perm' = [perm EXCEPT ![slot] = Mark(@)] /\ given' = given
    BY <1>2 DEF Walk, Close
  <2>2. tape \in [Slots -> Row]
    BY DEF IInv, PermTypeOK
  <2>3. \A i \in Slots : i # slot => tape'[i] = tape[i]
    BY <1>2, <2>2 DEF Walk, Close
  <2>4. ~Marked(perm[slot])
    BY <2>1 DEF IInv, Walking
  <2>5. Marked(perm'[slot]) /\ \A i \in Slots : i # slot => perm'[i] = perm[i]
    BY <2>1, MarkSlot
  <2>. QED
    BY <2>3, <2>4, <2>5 DEF Once
<1>. QED
  BY <1>1, <1>2 DEF PermNext

(***************************************************************************)
(* No slot is written twice: a marked slot is left alone.                  *)
(***************************************************************************)
THEOREM PermutationWrittenOnce == PermSpec => WrittenOnce
<1>1. IInv /\ [PermNext]_permVars => [Once]_permVars
  BY NextOnce
<1>2. [][Once]_permVars => WrittenOnce
  BY PTL DEF WrittenOnce, Once
<1>. QED
  BY InitIInv, NextIInv, <1>1, <1>2, PTL DEF PermSpec

-----------------------------------------------------------------------------
(* Orders of the positions of a tape.                                       *)

(* Which position is before which, where some may be before neither way.    *)
Weak(W, S) ==
  /\ \A a, b \in S : <<a, b>> \in W => <<b, a>> \notin W
  /\ \A a, b, c \in S : <<a, c>> \in W => <<a, b>> \in W \/ <<b, c>> \in W

Tied(W, a, b) == <<a, b>> \notin W /\ <<b, a>> \notin W

(* The first of n such orders that tells two positions apart decides. *)
FirstApart(W, n, S) ==
  {ab \in S \X S : \E c \in 1 .. n : ab \in W[c] /\ \A e \in 1 .. n : e < c => Tied(W[e], ab[1], ab[2])}

LEMMA FirstApartWeak ==
  ASSUME NEW S, NEW n \in Nat, NEW W, \A c \in 1 .. n : Weak(W[c], S)
  PROVE  Weak(FirstApart(W, n, S), S)
<1> DEFINE R(a, b) == \E c \in 1 .. n : <<a, b>> \in W[c] /\ \A e \in 1 .. n : e < c => Tied(W[e], a, b)
<1>1. \A a, b \in S : <<a, b>> \in FirstApart(W, n, S) <=> R(a, b)
  BY DEF FirstApart
<1>2. ASSUME NEW a \in S, NEW b \in S, R(a, b), R(b, a)
      PROVE  FALSE
  <2>1. PICK c \in 1 .. n : <<a, b>> \in W[c] /\ \A e \in 1 .. n : e < c => Tied(W[e], a, b)
    BY <1>2
  <2>2. PICK d \in 1 .. n : <<b, a>> \in W[d] /\ \A e \in 1 .. n : e < d => Tied(W[e], b, a)
    BY <1>2
  <2>3. c = d \/ c < d \/ d < c
    OBVIOUS
  <2> QED
    BY <2>1, <2>2, <2>3 DEF Weak, Tied
<1>3. ASSUME NEW a \in S, NEW b \in S, NEW d \in S, R(a, d)
      PROVE  R(a, b) \/ R(b, d)
  <2>1. PICK t \in 1 .. n : <<a, d>> \in W[t] /\ \A e \in 1 .. n : e < t => Tied(W[e], a, d)
    BY <1>3
  <2> DEFINE T == {e \in 1 .. n : ~Tied(W[e], a, b) \/ ~Tied(W[e], b, d)}
  <2>2. t \in T
    BY <2>1 DEF Weak, Tied
  <2>3. T \in SUBSET Nat /\ T # {}
    BY <2>2
  <2>4. PICK u \in T : \A y \in T : u <= y
    <3> HIDE DEF T
    <3> QED
      BY <2>3, LeastNat
  <2>5. u \in 1 .. n /\ u <= t
    BY <2>2, <2>4
  <2>6. \A e \in 1 .. n : e < u => Tied(W[e], a, b) /\ Tied(W[e], b, d)
    BY <2>4
  <2>7. Weak(W[u], S) /\ (~Tied(W[u], a, b) \/ ~Tied(W[u], b, d))
    BY <2>4
  <2>8. u < t \/ u = t
    BY <2>5
  <2>9. <<a, b>> \in W[u] \/ <<b, d>> \in W[u]
    <3>1. CASE u = t
      BY <2>1, <2>7, <3>1 DEF Weak
    <3>2. CASE u < t
      <4>1. Tied(W[u], a, d)
        BY <2>1, <2>5, <3>2
      <4> QED
        BY <2>7, <4>1 DEF Weak, Tied
    <3> QED
      BY <2>8, <3>1, <3>2
  <2> QED
    BY <2>5, <2>6, <2>9
<1> HIDE DEF R
<1> QED
  BY <1>1, <1>2, <1>3 DEF Weak

(* What the stable sort adds: positions that are tied keep their order. *)
Stable(W, S) == {ab \in S \X S : ab \in W \/ (<<ab[2], ab[1]>> \notin W /\ ab[1] < ab[2])}

LEMMA StableOrders ==
  ASSUME NEW S \in SUBSET Nat, NEW W, Weak(W, S)
  PROVE  Orders(Stable(W, S), S)
<1> DEFINE R(a, b) == <<a, b>> \in W \/ (<<b, a>> \notin W /\ a < b)
<1>1. \A a, b \in S : <<a, b>> \in Stable(W, S) <=> R(a, b)
  BY DEF Stable
<1>2. \A a \in S : ~R(a, a)
  BY DEF Weak
<1>3. ASSUME NEW a \in S, NEW b \in S, NEW c \in S, R(a, b), R(b, c)
      PROVE  R(a, c)
  <2>1. a < b /\ b < c => a < c
    OBVIOUS
  <2> QED
    BY <1>3, <2>1 DEF Weak
<1>4. \A a, b \in S : a # b => R(a, b) \/ R(b, a)
  <2>1. \A a, b \in S : a # b => a < b \/ b < a
    OBVIOUS
  <2> QED
    BY <2>1
<1> HIDE DEF R
<1> QED
  BY <1>1, <1>2, <1>3, <1>4 DEF Orders

(* What a comparison, and what a table of them, says of the positions. *)
TellsPair(ord, R, a, b) ==
  /\ ord = "Less" <=> <<a, b>> \in R
  /\ ord = "Equal" <=> Tied(R, a, b)

Tells(order, W, S) == \A i, j \in S : TellsPair(order[i][j], W, i, j)

SortedBy(order, S) ==
  [k \in S |-> CHOOSE j \in S :
     Cardinality({i \in S : order[i][j] = "Less" \/ (i < j /\ order[i][j] = "Equal")}) = k]

(* Each position has a place, and what stands before is stably before. *)
InOrder(sorted, W, S) ==
  /\ \A k \in S : sorted[k] \in S
  /\ \A k, l \in S : sorted[k] = sorted[l] => k = l
  /\ \A j \in S : \E k \in S : sorted[k] = j
  /\ \A k, l \in S : k < l => <<sorted[k], sorted[l]>> \in Stable(W, S)

KeepsOrder(f, T, S) == \A k, l \in S : k < l => <<f[k], f[l]>> \in T

Respects(f, T, S) == \A a, b \in S : <<a, b>> \in T => f[a] < f[b]

Undoes(f, g, S) == \A k \in S : f[g[k]] = k

Reaches(f, S) == \A j \in S : \E k \in S : f[k] = j

LEMMA PlacesKeepOrder ==
  ASSUME NEW S \in SUBSET Nat, NEW T, Orders(T, S), NEW place \in [S -> S], NEW sorted \in [S -> S],
         Respects(place, T, S), Undoes(place, sorted, S)
  PROVE  KeepsOrder(sorted, T, S) /\ Reaches(sorted, S)
<1> DEFINE R(a, b) == <<a, b>> \in T
<1>1. \A a, b \in S : a # b => R(a, b) \/ R(b, a)
  <2> SUFFICES ASSUME NEW a \in S, NEW b \in S, a # b, ~R(a, b)
               PROVE  R(b, a)
    OBVIOUS
  <2> QED
    BY DEF Orders
<1>0. \A a, b \in S : R(a, b) => place[a] < place[b]
  BY DEF Respects
<1>h. (\A k, l \in S : k < l => R(sorted[k], sorted[l])) => KeepsOrder(sorted, T, S)
  BY DEF KeepsOrder
<1>u. \A k \in S : place[sorted[k]] = k
  BY DEF Undoes
<1> HIDE DEF R
<1>2. \A x, y \in S : x < y => x # y /\ ~(y < x)
  OBVIOUS
<1>3. \A a, b \in S : place[a] = place[b] => a = b
  <2> SUFFICES ASSUME NEW a \in S, NEW b \in S, place[a] = place[b], a # b
               PROVE  FALSE
    OBVIOUS
  <2>1. place[a] < place[b] \/ place[b] < place[a]
    BY <1>0, <1>1
  <2> QED
    BY <2>1, <1>2
<1>4. \A k, l \in S : k < l => R(sorted[k], sorted[l])
  <2> SUFFICES ASSUME NEW k \in S, NEW l \in S, k < l
               PROVE  R(sorted[k], sorted[l])
    OBVIOUS
  <2>1. sorted[k] \in S /\ sorted[l] \in S /\ place[sorted[k]] = k /\ place[sorted[l]] = l
    BY <1>u
  <2>2. k # l /\ ~(l < k)
    BY <1>2
  <2>3. R(sorted[k], sorted[l]) \/ R(sorted[l], sorted[k])
    BY <1>1, <2>1, <2>2
  <2>4. R(sorted[l], sorted[k]) => l < k
    BY <1>0, <2>1
  <2> QED
    BY <2>2, <2>3, <2>4
<1>5. \A j \in S : place[j] \in S /\ place[sorted[place[j]]] = place[j] /\ sorted[place[j]] \in S
  BY <1>u
<1> QED
  BY <1>3, <1>4, <1>5, <1>h DEF Reaches

LEMMA SortedInOrder ==
  ASSUME NEW n \in Nat, NEW S, S = 0 .. n - 1, NEW W, Weak(W, S), NEW order, Tells(order, W, S)
  PROVE  InOrder(SortedBy(order, S), W, S)
<1> DEFINE T == Stable(W, S)
           place(j) == Preceding(T, S, j)
           sorted == SortedBy(order, S)
<1>1. S \in SUBSET Nat /\ IsFiniteSet(S) /\ Cardinality(S) = n
  <2>1. IsFiniteSet(0 .. n - 1) /\ Cardinality(0 .. n - 1) = IF 0 > n - 1 THEN 0 ELSE (n - 1) - 0 + 1
    BY FS_Interval
  <2> QED
    BY <2>1
<1>2. Orders(T, S)
  BY <1>1, StableOrders
<1>3. FillsPlaces(T, S)
  BY <1>1, <1>2, PlacesInOrder
<1>4. \A j \in S : {i \in S : order[i][j] = "Less" \/ (i < j /\ order[i][j] = "Equal")}
                     = {m \in S : <<m, j>> \in T}
  <2> SUFFICES ASSUME NEW j \in S, NEW i \in S
               PROVE  (order[i][j] = "Less" \/ (i < j /\ order[i][j] = "Equal")) <=> <<i, j>> \in T
    OBVIOUS
  <2>1. <<i, j>> \in T <=> <<i, j>> \in W \/ (<<j, i>> \notin W /\ i < j)
    BY DEF Stable
  <2>2. /\ order[i][j] = "Less" <=> <<i, j>> \in W
        /\ order[i][j] = "Equal" <=> Tied(W, i, j)
    BY DEF Tells, TellsPair
  <2> HIDE DEF T
  <2> QED
    BY <2>1, <2>2 DEF Tied
<1>5. sorted = [k \in S |-> CHOOSE j \in S : place(j) = k]
  <2>1. \A j \in S : Cardinality({i \in S : order[i][j] = "Less" \/ (i < j /\ order[i][j] = "Equal")}) = place(j)
    BY <1>4 DEF Preceding
  <2> HIDE DEF place
  <2> QED
    BY <2>1 DEF SortedBy
<1>6. /\ \A j \in S : place(j) \in S
      /\ \A a, b \in S : <<a, b>> \in T => place(a) < place(b)
      /\ \A k \in S : \E j \in S : place(j) = k
  BY <1>1, <1>3 DEF FillsPlaces
<1>h. T = Stable(W, S) /\ sorted = SortedBy(order, S)
  OBVIOUS
<1> HIDE DEF place, T, sorted
<1>7. \A k \in S : sorted[k] \in S /\ place(sorted[k]) = k
  BY <1>5, <1>6
<1> DEFINE at_ == [j \in S |-> place(j)]
<1>8. /\ at_ \in [S -> S] /\ sorted \in [S -> S]
      /\ Respects(at_, T, S) /\ Undoes(at_, sorted, S)
  BY <1>5, <1>6, <1>7 DEF Respects, Undoes
<1> HIDE DEF at_
<1>9. KeepsOrder(sorted, T, S) /\ Reaches(sorted, S)
  BY <1>1, <1>2, <1>8, PlacesKeepOrder
<1>10. \A k, l \in S : sorted[k] = sorted[l] => k = l
  BY <1>7
<1>11. \A k \in S : sorted[k] \in S
  BY <1>7
<1>12. \A k, l \in S : k < l => <<sorted[k], sorted[l]>> \in T
  BY <1>9 DEF KeepsOrder
<1>13. \A j \in S : \E k \in S : sorted[k] = j
  BY <1>9 DEF Reaches
<1> QED
  BY <1>h, <1>13, <1>10, <1>11, <1>12 DEF InOrder

-----------------------------------------------------------------------------
(* Orders of values.                                                        *)

Ordering == {"Less", "Equal", "Greater"}

LEMMA OrdTells ==
  ASSUME NEW x \in Int, NEW y \in Int
  PROVE  /\ Ord(x, y) \in Ordering
         /\ Ord(x, y) = "Less" <=> x < y
         /\ Ord(x, y) = "Greater" <=> y < x
  BY DEF Ord, Ordering

(* Strings: a character that is not there is before every other. *)
Pad(s, i) == IF i <= Len(s) THEN s[i] + 1 ELSE 0
PadLess(s, t, n) == \E i \in 1 .. n : Pad(s, i) < Pad(t, i) /\ \A j \in 1 .. n : j < i => Pad(s, j) = Pad(t, j)

LEMMA PadNat ==
  ASSUME NEW s \in Seq(Nat), NEW i \in Nat \ {0}
  PROVE  Pad(s, i) \in Nat
<1>1. Len(s) \in Nat /\ DOMAIN s = 1 .. Len(s) /\ \A j \in 1 .. Len(s) : s[j] \in Nat
  BY LenProperties, ElementOfSeq
<1>2. i <= Len(s) => i \in 1 .. Len(s)
  BY <1>1
<1> QED
  BY <1>1, <1>2 DEF Pad

(* At the first place where two padded strings differ, the first is less. *)
FirstLess(p, q, n) == \E i \in 1 .. n : p[i] < q[i] /\ \A j \in 1 .. n : j < i => p[j] = q[j]

(* A string of length l, padded. *)
PaddedFrom(p, l, n) == \A i \in 1 .. n : p[i] = 0 <=> l < i

(* Where both strings have a character, and not the same. *)
Differences(s, t, ls, lt, n) == {i \in 1 .. n : i <= ls /\ i <= lt /\ s[i] # t[i]}

(* The shorter of strings without a difference, or that of the lesser character there. *)
LessAt(D, ls, lt, s, t) == IF D = {} THEN ls < lt ELSE s[Min(D)] < t[Min(D)]

LEMMA PadsTell ==
  ASSUME NEW n \in Nat, NEW ls \in 0 .. n, NEW lt \in 0 .. n,
         NEW p \in [1 .. n -> Nat], NEW q \in [1 .. n -> Nat],
         PaddedFrom(p, ls, n), PaddedFrom(q, lt, n),
         NEW D, D = Differences(p, q, ls, lt, n)
  PROVE  LessAt(D, ls, lt, p, q) <=> FirstLess(p, q, n)
<1>d. D = {i \in 1 .. n : i <= ls /\ i <= lt /\ p[i] # q[i]}
  BY DEF Differences
<1>z. /\ \A i \in 1 .. n : p[i] = 0 <=> ls < i
      /\ \A i \in 1 .. n : q[i] = 0 <=> lt < i
  BY DEF PaddedFrom
<1>0. D \in SUBSET Nat
  BY <1>d
<1> DEFINE Less(i) == p[i] < q[i] /\ \A j \in 1 .. n : j < i => p[j] = q[j]
<1>1. CASE D = {}
  <2>1. \A i \in 1 .. n : i <= ls /\ i <= lt => p[i] = q[i]
    BY <1>d, <1>1
  <2>2. ASSUME ls < lt
        PROVE  ls + 1 \in 1 .. n /\ Less(ls + 1)
    <3>1. ls + 1 \in 1 .. n /\ ls < ls + 1 /\ ~(lt < ls + 1)
      BY <2>2
    <3>2. p[ls + 1] = 0 /\ q[ls + 1] # 0 /\ q[ls + 1] \in Nat
      BY <1>z, <3>1
    <3>3. \A j \in 1 .. n : j < ls + 1 => j <= ls /\ j <= lt
      BY <2>2
    <3> QED
      BY <2>1, <3>1, <3>2, <3>3
  <2>3. ASSUME NEW i \in 1 .. n, p[i] < q[i]
        PROVE  ls < lt
    <3>1. q[i] # 0 /\ p[i] # q[i]
      BY <2>3
    <3>2. ~(lt < i) /\ ~(i <= ls /\ i <= lt)
      BY <1>z, <2>1, <3>1
    <3> QED
      BY <3>2
  <2> QED
    BY <1>1, <2>2, <2>3 DEF LessAt, FirstLess
<1>2. CASE D # {}
  <2> DEFINE m == Min(D)
  <2>1. m \in D /\ \A i \in D : m <= i
    BY <1>0, <1>2, MinOfSet
  <2> HIDE DEF m
  <2>2. m \in 1 .. n /\ m <= ls /\ m <= lt /\ p[m] # q[m]
    BY <1>d, <2>1
  <2>3. ASSUME NEW j \in 1 .. n, j < m
        PROVE  p[j] = q[j]
    <3>1. j <= ls /\ j <= lt /\ ~(m <= j)
      BY <2>2, <2>3
    <3> QED
      BY <1>d, <2>1, <3>1
  <2>4. ASSUME NEW i \in 1 .. n, Less(i)
        PROVE  i = m
    <3>1. p[i] # q[i]
      BY <2>4
    <3>2. i < m \/ m < i \/ i = m
      BY <2>2
    <3> QED
      BY <2>2, <2>3, <2>4, <3>1, <3>2
  <2>5. p[m] < q[m] => Less(m)
    BY <2>2, <2>3
  <2>6. p[m] < q[m] <=> \E i \in 1 .. n : Less(i)
    <3> HIDE DEF Less
    <3>1. Less(m) => p[m] < q[m]
      BY DEF Less
    <3> QED
      BY <2>2, <2>4, <2>5, <3>1
  <2> QED
    BY <1>2, <2>6 DEF m, LessAt, FirstLess
<1> QED
  BY <1>1, <1>2

Padded(s, l, n) == [i \in 1 .. n |-> IF i <= l THEN s[i] + 1 ELSE 0]

(* The first difference of two strings, as one of padded characters. *)
LEMMA DifferenceTells ==
  ASSUME NEW n \in Nat, NEW ls \in 0 .. n, NEW lt \in 0 .. n,
         NEW s, \A i \in 1 .. ls : s[i] \in Nat, NEW t, \A i \in 1 .. lt : t[i] \in Nat,
         NEW D, D = Differences(s, t, ls, lt, n)
  PROVE  /\ LessAt(D, ls, lt, s, t) <=> FirstLess(Padded(s, ls, n), Padded(t, lt, n), n)
         /\ D # {} => s[Min(D)] \in Nat /\ t[Min(D)] \in Nat
<1> DEFINE p == Padded(s, ls, n)
           q == Padded(t, lt, n)
<1>0. /\ p = [i \in 1 .. n |-> IF i <= ls THEN s[i] + 1 ELSE 0]
      /\ q = [i \in 1 .. n |-> IF i <= lt THEN t[i] + 1 ELSE 0]
  BY DEF Padded
<1> HIDE DEF p, q
<1>1. \A i \in 1 .. n : i <= ls => i \in 1 .. ls /\ s[i] \in Nat /\ p[i] = s[i] + 1
  BY <1>0
<1>2. \A i \in 1 .. n : i <= lt => i \in 1 .. lt /\ t[i] \in Nat /\ q[i] = t[i] + 1
  BY <1>0
<1>3. p \in [1 .. n -> Nat] /\ q \in [1 .. n -> Nat]
  BY <1>0, <1>1, <1>2
<1>4. PaddedFrom(p, ls, n)
  BY <1>0, <1>1 DEF PaddedFrom
<1>5. PaddedFrom(q, lt, n)
  BY <1>0, <1>2 DEF PaddedFrom
<1>6. D = Differences(p, q, ls, lt, n)
  <2>1. \A i \in 1 .. n : i <= ls /\ i <= lt => (p[i] # q[i] <=> s[i] # t[i])
    BY <1>1, <1>2
  <2> QED
    BY <2>1 DEF Differences
<1>7. LessAt(D, ls, lt, p, q) <=> FirstLess(p, q, n)
  BY <1>3, <1>4, <1>5, <1>6, PadsTell
<1>8. ASSUME D # {}
      PROVE  /\ s[Min(D)] \in Nat /\ t[Min(D)] \in Nat
             /\ p[Min(D)] < q[Min(D)] <=> s[Min(D)] < t[Min(D)]
  <2>1. Min(D) \in D
    <3>1. D \in SUBSET Nat
      BY DEF Differences
    <3> QED
      BY <1>8, <3>1, MinOfSet
  <2> DEFINE m == Min(D)
  <2>2. m \in 1 .. n /\ m <= ls /\ m <= lt
    BY <2>1 DEF Differences
  <2> HIDE DEF m
  <2>3. s[m] \in Nat /\ t[m] \in Nat /\ p[m] = s[m] + 1 /\ q[m] = t[m] + 1
    BY <1>1, <1>2, <2>2
  <2>4. p[m] < q[m] <=> s[m] < t[m]
    BY <2>3
  <2> QED
    BY <2>3, <2>4 DEF m
<1> QED
  BY <1>7, <1>8 DEF LessAt, p, q

LEMMA StringsTell ==
  ASSUME NEW s \in Seq(Nat), NEW t \in Seq(Nat), NEW n \in Nat, Len(s) <= n, Len(t) <= n
  PROVE  /\ StrOrd(s, t) \in Ordering
         /\ StrOrd(s, t) = "Less" <=> PadLess(s, t, n)
         /\ StrOrd(s, t) = "Greater" <=> StrOrd(t, s) = "Less"
<1> DEFINE D == {i \in DOMAIN s \cap DOMAIN t : s[i] # t[i]}
           E == {i \in DOMAIN t \cap DOMAIN s : t[i] # s[i]}
<1>1. /\ Len(s) \in Nat /\ DOMAIN s = 1 .. Len(s) /\ \A i \in 1 .. Len(s) : s[i] \in Nat
      /\ Len(t) \in Nat /\ DOMAIN t = 1 .. Len(t) /\ \A i \in 1 .. Len(t) : t[i] \in Nat
  BY LenProperties, ElementOfSeq
<1>2. D = E
  OBVIOUS
<1>3. /\ StrOrd(s, t) = (IF D = {} THEN Ord(Len(s), Len(t)) ELSE Ord(s[Min(D)], t[Min(D)]))
      /\ StrOrd(t, s) = (IF E = {} THEN Ord(Len(t), Len(s)) ELSE Ord(t[Min(E)], s[Min(E)]))
  BY DEF StrOrd
<1>4. PadLess(s, t, n) <=> FirstLess(Padded(s, Len(s), n), Padded(t, Len(t), n), n)
  BY DEF PadLess, Pad, FirstLess, Padded
<1>5. D = Differences(s, t, Len(s), Len(t), n)
  BY <1>1 DEF Differences
<1>7. Len(s) \in 0 .. n /\ Len(t) \in 0 .. n
  BY <1>1
<1> HIDE DEF D, E
<1>8. /\ LessAt(D, Len(s), Len(t), s, t) <=> FirstLess(Padded(s, Len(s), n), Padded(t, Len(t), n), n)
      /\ D # {} => s[Min(D)] \in Nat /\ t[Min(D)] \in Nat
  BY <1>1, <1>5, <1>7, DifferenceTells
<1> DEFINE x == IF D = {} THEN Len(s) ELSE s[Min(D)]
           y == IF D = {} THEN Len(t) ELSE t[Min(D)]
<1>9. x \in Int /\ y \in Int
  BY <1>1, <1>8
<1>10. StrOrd(s, t) = Ord(x, y) /\ StrOrd(t, s) = Ord(y, x)
  BY <1>2, <1>3
<1>11. x < y <=> PadLess(s, t, n)
  BY <1>4, <1>8 DEF LessAt
<1> HIDE DEF x, y
<1> QED
  BY <1>9, <1>10, <1>11, OrdTells

(* Whether one string is before another is no worse than a lexicographic order. *)
LEMMA StringsWeak ==
  ASSUME NEW s \in Seq(Nat), NEW t \in Seq(Nat), NEW u \in Seq(Nat)
  PROVE  /\ StrOrd(s, t) = "Less" => StrOrd(t, s) # "Less"
         /\ StrOrd(s, u) = "Less" => StrOrd(s, t) = "Less" \/ StrOrd(t, u) = "Less"
<1>1. PICK n \in Nat : Len(s) <= n /\ Len(t) <= n /\ Len(u) <= n
  <2>1. \A a, b, c \in Nat : a <= a + b + c /\ b <= a + b + c /\ c <= a + b + c /\ a + b + c \in Nat
    OBVIOUS
  <2> QED
    BY <2>1, LenProperties
<1> DEFINE S == {s, t, u}
           W == [c \in 1 .. n |-> {ab \in S \X S : Pad(ab[1], c) < Pad(ab[2], c)}]
<1>2. \A a \in S, c \in 1 .. n : Pad(a, c) \in Nat
  <2>1. \A c \in 1 .. n : c \in Nat \ {0}
    OBVIOUS
  <2>2. \A a \in S : a \in Seq(Nat)
    OBVIOUS
  <2> HIDE DEF S
  <2> QED
    BY <2>1, <2>2, PadNat
<1>3. \A c \in 1 .. n : \A a, b \in S : <<a, b>> \in W[c] <=> Pad(a, c) < Pad(b, c)
  OBVIOUS
<1>4. \A c \in 1 .. n : Weak(W[c], S) /\ \A a, b \in S : Tied(W[c], a, b) <=> Pad(a, c) = Pad(b, c)
  <2> SUFFICES ASSUME NEW c \in 1 .. n
               PROVE  Weak(W[c], S) /\ \A a, b \in S : Tied(W[c], a, b) <=> Pad(a, c) = Pad(b, c)
    OBVIOUS
  <2>1. \A x, y, z \in Nat : (x < y => ~(y < x)) /\ (x < z => x < y \/ y < z) /\ (~(x < y) /\ ~(y < x) <=> x = y)
    OBVIOUS
  <2>2. /\ \A a, b \in S : Pad(a, c) < Pad(b, c) => ~(Pad(b, c) < Pad(a, c))
        /\ \A a, b, d \in S : Pad(a, c) < Pad(d, c) => Pad(a, c) < Pad(b, c) \/ Pad(b, c) < Pad(d, c)
        /\ \A a, b \in S : ~(Pad(a, c) < Pad(b, c)) /\ ~(Pad(b, c) < Pad(a, c)) <=> Pad(a, c) = Pad(b, c)
    BY <1>2, <2>1, Zenon
  <2> HIDE DEF W, S
  <2> QED
    BY <1>3, <2>2 DEF Weak, Tied
<1> DEFINE F(a, b) == <<a, b>> \in FirstApart(W, n, S)
<1>5. \A a, b \in S : F(a, b) <=> PadLess(a, b, n)
  <2> HIDE DEF W, S, F
  <2> SUFFICES ASSUME NEW a \in S, NEW b \in S
               PROVE  F(a, b) <=> PadLess(a, b, n)
    OBVIOUS
  <2>1. F(a, b) <=> \E c \in 1 .. n : <<a, b>> \in W[c] /\ \A e \in 1 .. n : e < c => Tied(W[e], a, b)
    BY DEF FirstApart, F
  <2>2. \A c \in 1 .. n : /\ <<a, b>> \in W[c] <=> Pad(a, c) < Pad(b, c)
                          /\ Tied(W[c], a, b) <=> Pad(a, c) = Pad(b, c)
    BY <1>3, <1>4
  <2> QED
    BY <2>1, <2>2, Zenon DEF PadLess
<1>6. Weak(FirstApart(W, n, S), S)
  <2> HIDE DEF W, S
  <2> QED
    BY <1>4, FirstApartWeak
<1>7. /\ PadLess(s, t, n) => ~PadLess(t, s, n)
      /\ PadLess(s, u, n) => PadLess(s, t, n) \/ PadLess(t, u, n)
  <2>1. s \in S /\ t \in S /\ u \in S
    OBVIOUS
  <2> HIDE DEF W, S, F
  <2>2. /\ F(s, t) => ~F(t, s)
        /\ F(s, u) => F(s, t) \/ F(t, u)
    BY <1>6, <2>1 DEF Weak, F
  <2> QED
    BY <1>5, <2>1, <2>2
<1>8. \A a, b \in S : StrOrd(a, b) = "Less" <=> PadLess(a, b, n)
  BY <1>1, StringsTell
<1> QED
  BY <1>7, <1>8

-----------------------------------------------------------------------------
(* Where a value stands.                                                    *)

(* On the axis of total_cmp; every other value that is no string, on its own. *)
RankOf(d) ==
  CASE d.cls = "negnan" -> -(2^(Bits128 + 2))
    [] d.cls = "nan" -> 2^(Bits128 + 2)
    [] d.cls = "negzero" -> -1
    [] OTHER -> 2 * d.h

Axis(v) == IF v.k = "Double" THEN RankOf(v) ELSE Position(v)

(* What cell_value reads, and values that are read from one column. *)
Fits(v) ==
  \/ v.k = "Bool" /\ v.b \in BOOLEAN
  \/ v.k \in {"Int", "UInt"} /\ v.n \in Int
  \/ v.k = "Double" /\ v \in Doubles
  \/ v.k = "Str" /\ v.s \in Seq(Nat)
  \/ v.k = "Date" /\ v.d \in Int
  \/ v.k \in {"Timestamp", "Time"} /\ v.t \in Int
  \/ v.k = "Decimal" /\ v.u \in Int
  \/ v.k = "Interval" /\ v.mo \in Int /\ v.d \in Int /\ v.ns \in Int

Alike(v, w) ==
  /\ Fits(v) /\ Fits(w) /\ v.k = w.k
  /\ v.k \in {"Timestamp", "Time"} => v.unit = w.unit
  /\ v.k = "Decimal" => v.sc = w.sc

LEMMA WrapsToInt ==
  ASSUME NEW x \in Int
  PROVE  Wrap(x, Bits32) \in Int
<1>1. 2^Bits32 \in Nat \ {0} /\ 2^(Bits32 - 1) \in Nat
  BY SizesAssumption
<1>2. \A m \in Nat \ {0}, h \in Nat : ((x + h) % m) - h \in Int
  OBVIOUS
<1> QED
  BY <1>1, <1>2 DEF Wrap

LEMMA QuotInt ==
  ASSUME NEW x \in Int, NEW y \in Nat \ {0}
  PROVE  Quot(x, y) \in Int
<1>1. Signum(x) \in Int /\ Signum(y) = 1 /\ Magnitude(x) \in Nat /\ Magnitude(y) = y
  BY DEF Signum, Magnitude
<1>2. \A m \in Nat : m \div y \in Int
  OBVIOUS
<1>3. \A a, b \in Int : a * 1 * b \in Int
  OBVIOUS
<1> QED
  BY <1>1, <1>2, <1>3 DEF Quot

LEMMA AxisInt ==
  ASSUME NEW v, Fits(v), v.k # "Str"
  PROVE  Axis(v) \in Int
<1>1. CASE v.k = "Double"
  <2>1. v \in Doubles
    BY <1>1 DEF Fits
  <2>2. v.cls \in {"negnan", "nan", "negzero"} \/ (v.cls = "num" /\ v.h \in Int)
    BY <2>1 DEF Doubles, NaN, NegNaN, NegZero
  <2>3. 2^(Bits128 + 2) \in Int
    BY SizesAssumption
  <2>4. \A m \in Int : -m \in Int
    OBVIOUS
  <2>5. v.cls = "num" => 2 * v.h \in Int
    BY <2>2
  <2> QED
    BY <1>1, <2>2, <2>3, <2>4, <2>5 DEF Axis, RankOf
<1>2. CASE v.k = "Interval"
  <2>1. v.mo \in Int /\ v.d \in Int /\ v.ns \in Int
    BY <1>2 DEF Fits
  <2>2. NanosPerDay \in Int /\ DaysPerMonth \in Int
    BY SizesAssumption
  <2>3. \A a, b, c, d, e \in Int : (a * b + c) * d + e \in Int
    OBVIOUS
  <2>4. (v.mo * DaysPerMonth + v.d) * NanosPerDay + v.ns \in Int
    BY <2>1, <2>2, <2>3
  <2> QED
    BY <1>2, <2>4 DEF Axis, Position
<1>3. CASE v.k \notin {"Double", "Interval"}
  BY <1>3 DEF Axis, Position, Fits
<1> QED
  BY <1>1, <1>2, <1>3

LEMMA OtherKinds ==
  ASSUME NEW v, v.k \notin {"Int", "UInt", "HugeInt", "Decimal", "Double", "Null"}
  PROVE  AsF64(v) = Null /\ ~IsInteger(v) /\ v # Null
BY DEF AsF64, IsInteger, Null

LEMMA PresentOnAxis ==
  ASSUME NEW v, NEW w, Alike(v, w), v.k # "Str"
  PROVE  CmpPresent(v, w) = Ord(Axis(v), Axis(w))
<1>1. v.k = w.k /\ Fits(v)
  BY DEF Alike
<1>2. CASE v.k \in {"Int", "UInt"}
  BY <1>1, <1>2 DEF CmpPresent, IsInteger, CmpInts, Axis, Position
<1>3. CASE v.k = "Decimal"
  BY <1>1, <1>3 DEF CmpPresent, IsInteger, Axis, Position, Alike
<1>4. CASE v.k = "Double"
  <2>1. AsF64(v) = v /\ AsF64(w) = w /\ v # Null /\ w # Null /\ ~IsInteger(v)
    <3>1. \A x : x.k = "Double" => x # Null /\ ~IsInteger(x)
      BY DEF Null, IsInteger
    <3>2. \A x : x.k = "Double" => AsF64(x) = x
      <4> SUFFICES ASSUME NEW x, x.k = "Double"
                   PROVE  AsF64(x) = x
        OBVIOUS
      <4>1. ~IsInteger(x) /\ x.k # "Decimal"
        BY DEF IsInteger
      <4> QED
        BY <4>1 DEF AsF64
    <3> QED
      BY <1>1, <1>4, <3>1, <3>2
  <2>2. TotalCmp(v, w) = Ord(RankOf(v), RankOf(w))
    BY DEF TotalCmp, RankOf
  <2> QED
    BY <1>1, <1>4, <2>1, <2>2 DEF CmpPresent, Axis
<1>5. CASE v.k \in {"Bool", "Date", "Interval", "Timestamp", "Time"}
  <2>1. /\ AsF64(v) = Null /\ ~IsInteger(v) /\ v # Null
        /\ AsF64(w) = Null /\ ~IsInteger(w) /\ w # Null
    BY <1>1, <1>5, OtherKinds
  <2>2. CmpPresent(v, w) = IF Compare(v, w) = "None" THEN "Equal" ELSE Compare(v, w)
    BY <1>1, <1>5, <2>1 DEF CmpPresent
  <2>3. Compare(v, w) = Ord(Axis(v), Axis(w))
    <3>1. Axis(v) = Position(v) /\ Axis(w) = Position(w)
      BY <1>1, <1>5 DEF Axis
    <3>2. CASE v.k = "Bool"
      BY <1>1, <2>1, <3>1, <3>2 DEF Compare, Position
    <3>3. CASE v.k = "Date"
      BY <1>1, <2>1, <3>1, <3>3 DEF Compare, Position
    <3>4. CASE v.k = "Interval"
      BY <1>1, <2>1, <3>1, <3>4 DEF Compare, Position, IntervalNanos
    <3>5. CASE v.k \in {"Timestamp", "Time"}
      <4>1. v.unit = w.unit
        BY <3>5 DEF Alike
      <4> QED
        BY <1>1, <2>1, <3>1, <3>5, <4>1 DEF Compare, Position
    <3> QED
      BY <1>5, <3>2, <3>3, <3>4, <3>5
  <2>4. \A x, y : Ord(x, y) # "None"
    BY DEF Ord
  <2> QED
    BY <2>2, <2>3, <2>4
<1> QED
  BY <1>1, <1>2, <1>3, <1>4, <1>5 DEF Fits

LEMMA PresentStrings ==
  ASSUME NEW v, NEW w, Alike(v, w), v.k = "Str"
  PROVE  CmpPresent(v, w) = StrOrd(v.s, w.s) /\ v.s \in Seq(Nat) /\ w.s \in Seq(Nat)
<1>1. v.k = w.k /\ Fits(v) /\ Fits(w)
  BY DEF Alike
<1>2. v.s \in Seq(Nat) /\ w.s \in Seq(Nat)
  BY <1>1 DEF Fits
<1>3. /\ AsF64(v) = Null /\ ~IsInteger(v) /\ v # Null
      /\ AsF64(w) = Null /\ ~IsInteger(w) /\ w # Null
  BY <1>1, OtherKinds
<1>4. CmpPresent(v, w) = IF Compare(v, w) = "None" THEN "Equal" ELSE Compare(v, w)
  BY <1>1, <1>3 DEF CmpPresent
<1>5. Compare(v, w) = StrOrd(v.s, w.s)
  BY <1>1, <1>3 DEF Compare
<1>6. StrOrd(v.s, w.s) # "None"
  BY DEF StrOrd, Ord
<1> QED
  BY <1>2, <1>4, <1>5, <1>6

LEMMA BelowOnAxis ==
  ASSUME NEW v, NEW w, v.k = w.k, v.k # "Str", Axis(v) \in Int, Axis(w) \in Int
  PROVE  Below(v, w) <=> Axis(v) < Axis(w)
<1>1. CASE v.k = "Double"
  <2>1. TotalCmp(v, w) = Ord(Axis(v), Axis(w))
    BY <1>1 DEF TotalCmp, RankOf, Axis
  <2> QED
    BY <1>1, <2>1, OrdTells DEF Below
<1>2. CASE v.k # "Double"
  BY <1>2 DEF Below, Axis
<1> QED
  BY <1>1, <1>2

(* What a comparison of present values says. *)
Says(ord, v, w) ==
  /\ ord \in Ordering
  /\ ord = "Less" <=> Below(v, w)
  /\ ord = "Greater" <=> Below(w, v)

LEMMA PresentTells ==
  ASSUME NEW v, NEW w, Alike(v, w)
  PROVE  Says(CmpPresent(v, w), v, w)
<1>0. v.k = w.k /\ Fits(v) /\ Fits(w)
  BY DEF Alike
<1>1. CASE v.k = "Str"
  <2>1. CmpPresent(v, w) = StrOrd(v.s, w.s) /\ v.s \in Seq(Nat) /\ w.s \in Seq(Nat)
    BY <1>1, PresentStrings
  <2>2. PICK n \in Nat : Len(v.s) <= n /\ Len(w.s) <= n
    <3>1. \A a, b \in Nat : a <= a + b /\ b <= a + b /\ a + b \in Nat
      OBVIOUS
    <3> QED
      BY <2>1, <3>1, LenProperties
  <2>3. StrOrd(v.s, w.s) \in Ordering /\ (StrOrd(v.s, w.s) = "Greater" <=> StrOrd(w.s, v.s) = "Less")
    BY <2>1, <2>2, StringsTell
  <2> QED
    BY <1>0, <1>1, <2>1, <2>3 DEF Says, Below
<1>2. CASE v.k # "Str"
  <2>1. CmpPresent(v, w) = Ord(Axis(v), Axis(w))
    BY <1>2, PresentOnAxis
  <2>2. Axis(v) \in Int /\ Axis(w) \in Int
    BY <1>0, <1>2, AxisInt
  <2>3. /\ Below(v, w) <=> Axis(v) < Axis(w)
        /\ Below(w, v) <=> Axis(w) < Axis(v)
    BY <1>0, <1>2, <2>2, BelowOnAxis
  <2> QED
    BY <2>1, <2>2, <2>3, OrdTells DEF Says
<1> QED
  BY <1>1, <1>2

(* Below is an order of alike values in which some may be tied. *)
LEMMA BelowWeak ==
  ASSUME NEW u, NEW v, NEW w, Alike(u, v), Alike(v, w), Alike(u, w)
  PROVE  /\ Below(u, v) => ~Below(v, u)
         /\ Below(u, w) => Below(u, v) \/ Below(v, w)
<1>0. v.k = u.k /\ w.k = u.k /\ Fits(u) /\ Fits(v) /\ Fits(w)
  BY DEF Alike
<1>1. CASE u.k = "Str"
  <2>1. u.s \in Seq(Nat) /\ v.s \in Seq(Nat) /\ w.s \in Seq(Nat)
    BY <1>0, <1>1 DEF Fits
  <2>2. /\ StrOrd(u.s, v.s) = "Less" => StrOrd(v.s, u.s) # "Less"
        /\ StrOrd(u.s, w.s) = "Less" => StrOrd(u.s, v.s) = "Less" \/ StrOrd(v.s, w.s) = "Less"
    BY <2>1, StringsWeak
  <2> QED
    BY <1>0, <1>1, <2>2 DEF Below
<1>2. CASE u.k # "Str"
  <2>1. Axis(u) \in Int /\ Axis(v) \in Int /\ Axis(w) \in Int
    BY <1>0, <1>2, AxisInt
  <2>2. /\ Below(u, v) <=> Axis(u) < Axis(v)
        /\ Below(v, u) <=> Axis(v) < Axis(u)
        /\ Below(u, w) <=> Axis(u) < Axis(w)
        /\ Below(v, w) <=> Axis(v) < Axis(w)
    BY <1>0, <1>2, <2>1, BelowOnAxis
  <2>3. \A x, y, z \in Int : (x < y => ~(y < x)) /\ (x < z => x < y \/ y < z)
    OBVIOUS
  <2> QED
    BY <2>1, <2>2, <2>3
<1> QED
  BY <1>1, <1>2

(* A cell that is not null, and the value it is read as. *)
ReadsAs(dt, x, v) ==
  \/ dt.k = "Boolean" /\ x \in BOOLEAN /\ v = BoolV(x)
  \/ dt.k \in Widened /\ x \in Int /\ v = IntV(x)
  \/ dt.k = "UInt64" /\ x \in Int /\ v = UIntV(x)
  \/ dt.k \in {"Float32", "Float64"} /\ x \in Doubles /\ v = x
  \/ dt.k \in Texts /\ x \in Seq(Nat) /\ v = StrV(x)
  \/ dt.k = "Date32" /\ x \in Int /\ v = DateV(x)
  \/ dt.k = "Date64" /\ x \in Int /\ v = DateV(Wrap(Quot(x, NanosPerDay), Bits32))
  \/ dt.k = "Timestamp" /\ x \in Int /\ v = TimestampV(x, dt.unit)
  \/ dt.k = "Time" /\ x \in Int /\ v = TimeV(x, dt.unit)
  \/ dt.k = "Decimal128" /\ x \in Int /\ v = DecimalV(x, dt.sc)
  \/ dt.k = "IntervalMonthDayNano" /\ x \in [mo : Int, d : Int, ns : Int] /\ v = IntervalV(x.mo, x.d, x.ns)

LEMMA CellReads ==
  ASSUME NEW dt, NEW x, IsRaw(x, dt)
  PROVE  ReadsAs(dt, x, CellValue(dt, x))
<1>1. CASE dt.k = "Boolean"
  BY <1>1 DEF IsRaw, Ticks, Widened, Texts, CellValue, ReadsAs
<1>2. CASE dt.k \in Widened
  BY <1>2 DEF IsRaw, Ticks, Widened, Texts, CellValue, ReadsAs
<1>3. CASE dt.k = "UInt64"
  BY <1>3 DEF IsRaw, Ticks, Widened, Texts, CellValue, ReadsAs
<1>4. CASE dt.k \in {"Float32", "Float64"}
  BY <1>4 DEF IsRaw, Ticks, Widened, Texts, CellValue, ReadsAs
<1>5. CASE dt.k \in Texts
  BY <1>5 DEF IsRaw, Ticks, Widened, Texts, CellValue, ReadsAs
<1>6. CASE dt.k = "Date32"
  BY <1>6 DEF IsRaw, Ticks, Widened, Texts, CellValue, ReadsAs
<1>7. CASE dt.k = "Date64"
  BY <1>7 DEF IsRaw, Ticks, Widened, Texts, CellValue, ReadsAs
<1>8. CASE dt.k = "Timestamp"
  BY <1>8 DEF IsRaw, Ticks, Widened, Texts, CellValue, ReadsAs
<1>9. CASE dt.k = "Time"
  BY <1>9 DEF IsRaw, Ticks, Widened, Texts, CellValue, ReadsAs
<1>10. CASE dt.k = "Decimal128"
  BY <1>10 DEF IsRaw, Ticks, Widened, Texts, CellValue, ReadsAs
<1>11. CASE dt.k = "IntervalMonthDayNano"
  BY <1>11 DEF IsRaw, Ticks, Widened, Texts, CellValue, ReadsAs
<1> QED
  BY <1>1, <1>2, <1>3, <1>4, <1>5, <1>6, <1>7, <1>8, <1>9, <1>10, <1>11 DEF IsRaw, Ticks

(* What holds of a value by the type of its column. *)
KindRead(dt) ==
  CASE dt.k = "Boolean" -> "Bool"
    [] dt.k \in Widened -> "Int"
    [] dt.k = "UInt64" -> "UInt"
    [] dt.k \in {"Float32", "Float64"} -> "Double"
    [] dt.k \in Texts -> "Str"
    [] dt.k \in {"Date32", "Date64"} -> "Date"
    [] dt.k = "Timestamp" -> "Timestamp"
    [] dt.k = "Time" -> "Time"
    [] dt.k = "Decimal128" -> "Decimal"
    [] dt.k = "IntervalMonthDayNano" -> "Interval"

KindOf(v, dt) ==
  /\ Fits(v)
  /\ v.k = KindRead(dt)
  /\ v.k \in {"Timestamp", "Time"} => v.unit = dt.unit
  /\ v.k = "Decimal" => v.sc = dt.sc

LEMMA ReadKind ==
  ASSUME NEW dt, NEW x, NEW v, ReadsAs(dt, x, v)
  PROVE  KindOf(v, dt)
<1>1. CASE dt.k = "Boolean" /\ x \in BOOLEAN /\ v = BoolV(x)
  <2>1. v.k = "Bool" /\ v.b = x
    BY <1>1 DEF BoolV
  <2> QED
    BY <1>1, <2>1 DEF KindOf, KindRead, Fits, Widened, Texts
<1>2. CASE dt.k \in Widened /\ x \in Int /\ v = IntV(x)
  <2>1. v.k = "Int" /\ v.n = x
    BY <1>2 DEF IntV
  <2> QED
    BY <1>2, <2>1 DEF KindOf, KindRead, Fits, Widened, Texts
<1>3. CASE dt.k = "UInt64" /\ x \in Int /\ v = UIntV(x)
  <2>1. v.k = "UInt" /\ v.n = x
    BY <1>3 DEF UIntV
  <2> QED
    BY <1>3, <2>1 DEF KindOf, KindRead, Fits, Widened, Texts
<1>4. CASE dt.k \in {"Float32", "Float64"} /\ x \in Doubles /\ v = x
  <2>1. v.k = "Double"
    BY <1>4 DEF Doubles, NaN, NegNaN, NegZero
  <2> QED
    BY <1>4, <2>1 DEF KindOf, KindRead, Fits, Widened, Texts
<1>5. CASE dt.k \in Texts /\ x \in Seq(Nat) /\ v = StrV(x)
  <2>1. v.k = "Str" /\ v.s = x
    BY <1>5 DEF StrV
  <2> QED
    BY <1>5, <2>1 DEF KindOf, KindRead, Fits, Widened, Texts
<1>6. CASE dt.k \in {"Date32", "Date64"}
  <2>1. PICK d \in Int : v = DateV(d)
    <3>1. NanosPerDay \in Nat \ {0}
      BY SizesAssumption
    <3>2. \A z \in Int : Wrap(Quot(z, NanosPerDay), Bits32) \in Int
      BY <3>1, QuotInt, WrapsToInt
    <3> QED
      BY <1>6, <3>2 DEF ReadsAs, Widened, Texts
  <2>2. v.k = "Date" /\ v.d = d
    BY <2>1 DEF DateV
  <2> QED
    BY <1>6, <2>2 DEF KindOf, KindRead, Fits, Widened, Texts
<1>7. CASE dt.k = "Timestamp" /\ x \in Int /\ v = TimestampV(x, dt.unit)
  <2>1. v.k = "Timestamp" /\ v.t = x /\ v.unit = dt.unit
    BY <1>7 DEF TimestampV
  <2> QED
    BY <1>7, <2>1 DEF KindOf, KindRead, Fits, Widened, Texts
<1>8. CASE dt.k = "Time" /\ x \in Int /\ v = TimeV(x, dt.unit)
  <2>1. v.k = "Time" /\ v.t = x /\ v.unit = dt.unit
    BY <1>8 DEF TimeV
  <2> QED
    BY <1>8, <2>1 DEF KindOf, KindRead, Fits, Widened, Texts
<1>9. CASE dt.k = "Decimal128" /\ x \in Int /\ v = DecimalV(x, dt.sc)
  <2>1. v.k = "Decimal" /\ v.u = x /\ v.sc = dt.sc
    BY <1>9 DEF DecimalV
  <2> QED
    BY <1>9, <2>1 DEF KindOf, KindRead, Fits, Widened, Texts
<1>10. CASE dt.k = "IntervalMonthDayNano" /\ x \in [mo : Int, d : Int, ns : Int]
            /\ v = IntervalV(x.mo, x.d, x.ns)
  <2>1. v.k = "Interval" /\ v.mo = x.mo /\ v.d = x.d /\ v.ns = x.ns
    BY <1>10 DEF IntervalV
  <2> QED
    BY <1>10, <2>1 DEF KindOf, KindRead, Fits, Widened, Texts
<1> QED
  BY <1>1, <1>2, <1>3, <1>4, <1>5, <1>6, <1>7, <1>8, <1>9, <1>10 DEF ReadsAs

LEMMA KindsAlike ==
  ASSUME NEW dt, NEW v, NEW w, KindOf(v, dt), KindOf(w, dt)
  PROVE  Alike(v, w) /\ v # Null
<1>1. v.k = w.k
  BY DEF KindOf
<1>2. /\ v.k \in {"Timestamp", "Time"} => v.unit = w.unit
      /\ v.k = "Decimal" => v.sc = w.sc
  <2>1. /\ v.k \in {"Timestamp", "Time"} => v.unit = dt.unit
        /\ v.k = "Decimal" => v.sc = dt.sc
    BY DEF KindOf
  <2>2. /\ w.k \in {"Timestamp", "Time"} => w.unit = dt.unit
        /\ w.k = "Decimal" => w.sc = dt.sc
    BY DEF KindOf
  <2> QED
    BY <1>1, <2>1, <2>2
<1>3. Fits(v) /\ Fits(w)
  BY DEF KindOf
<1>4. v # Null
  BY <1>3 DEF Fits, Null
<1> QED
  BY <1>1, <1>2, <1>3, <1>4 DEF Alike

(* Two cells of a column are read as alike values, none of them NULL. *)
LEMMA CellsAlike ==
  ASSUME NEW dt, NEW x, NEW y, IsRaw(x, dt), IsRaw(y, dt)
  PROVE  Alike(CellValue(dt, x), CellValue(dt, y)) /\ CellValue(dt, x) # Null
BY CellReads, ReadKind, KindsAlike

(* Where the value read from a cell stands. *)
LEMMA ReadStands ==
  ASSUME NEW dt, NEW x, NEW v, ReadsAs(dt, x, v),
         dt.k \in {"Int64", "Int32", "UInt64", "Date32", "Decimal128", "Timestamp"}
  PROVE  v.k # "Str" /\ Axis(v) = x
<1>1. CASE v = IntV(x)
  BY <1>1 DEF IntV, Axis, Position
<1>2. CASE v = UIntV(x)
  BY <1>2 DEF UIntV, Axis, Position
<1>3. CASE v = DateV(x)
  BY <1>3 DEF DateV, Axis, Position
<1>4. CASE v = DecimalV(x, dt.sc)
  BY <1>4 DEF DecimalV, Axis, Position
<1>5. CASE v = TimestampV(x, dt.unit)
  BY <1>5 DEF TimestampV, Axis, Position
<1> QED
  BY <1>1, <1>2, <1>3, <1>4, <1>5 DEF ReadsAs, Widened, Texts

(* In place, two cells are compared as the values they hold. *)
LEMMA RawTells ==
  ASSUME NEW dt, NEW x, NEW y, IsRaw(x, dt), IsRaw(y, dt), InPlace(dt)
  PROVE  Says(RawCmp(dt, x, y), CellValue(dt, x), CellValue(dt, y))
<1> DEFINE v == CellValue(dt, x)
           w == CellValue(dt, y)
<1>0. Says(CmpPresent(v, w), v, w) /\ Alike(v, w)
  BY CellsAlike, PresentTells
<1>r. ReadsAs(dt, x, v) /\ ReadsAs(dt, y, w)
  BY CellReads
<1> HIDE DEF v, w
<1>g. RawCmp(dt, x, y) = CmpPresent(v, w)
  <2>1. CASE dt.k \in Texts
    <3>1. v = StrV(x) /\ w = StrV(y)
      BY <1>r, <2>1 DEF ReadsAs, Widened, Texts
    <3>2. v.k = "Str" /\ v.s = x /\ w.s = y
      BY <3>1 DEF StrV
    <3> QED
      BY <1>0, <2>1, <3>2, PresentStrings DEF RawCmp, Texts
  <2>2. CASE dt.k = "Float64"
    <3>1. v = x /\ w = y /\ x \in Doubles /\ y \in Doubles
      BY <1>r, <2>2 DEF ReadsAs, Widened, Texts
    <3>2. x.k = "Double" /\ y.k = "Double"
      BY <3>1 DEF Doubles, NaN, NegNaN, NegZero
    <3>3. TotalCmp(x, y) = Ord(Axis(x), Axis(y))
      BY <3>2 DEF TotalCmp, RankOf, Axis
    <3> QED
      BY <1>0, <2>2, <3>1, <3>2, <3>3, PresentOnAxis DEF RawCmp, Texts
  <2>3. CASE dt.k \in {"Int64", "Int32", "UInt64", "Date32", "Decimal128", "Timestamp"}
    <3>1. v.k # "Str" /\ Axis(v) = x /\ Axis(w) = y
      BY <1>r, <2>3, ReadStands
    <3> QED
      BY <1>0, <2>3, <3>1, PresentOnAxis DEF RawCmp, Texts
  <2> QED
    BY <2>1, <2>2, <2>3 DEF InPlace
<1> QED
  BY <1>0, <1>g DEF v, w

-----------------------------------------------------------------------------
(* NULLs and directions.                                                    *)

Keyed(key) == key.desc \in BOOLEAN /\ key.nullsFirst \in BOOLEAN

(* A value of a column: NULL, or one of its kind. *)
Has(v, dt) == v = Null \/ KindOf(v, dt)

LEMMA BeforeNull ==
  ASSUME NEW key, Keyed(key), NEW v, NEW w
  PROVE  /\ v = Null /\ w = Null => ~BeforeOn(v, w, key)
         /\ v = Null /\ w # Null => (BeforeOn(v, w, key) <=> key.nullsFirst = TRUE)
         /\ v # Null /\ w = Null => (BeforeOn(v, w, key) <=> key.nullsFirst = FALSE)
<1>1. CASE v = Null /\ w = Null
  BY <1>1 DEF BeforeOn
<1>2. CASE v = Null /\ w # Null
  <2>1. BeforeOn(v, w, key) <=> (TRUE = key.nullsFirst)
    BY <1>2 DEF BeforeOn
  <2> QED
    BY <1>2, <2>1
<1>3. CASE v # Null /\ w = Null
  <2>1. BeforeOn(v, w, key) <=> (FALSE = key.nullsFirst)
    BY <1>3 DEF BeforeOn
  <2> QED
    BY <1>3, <2>1
<1> QED
  BY <1>1, <1>2, <1>3

LEMMA BeforePresent ==
  ASSUME NEW key, Keyed(key), NEW v, NEW w, v # Null, w # Null
  PROVE  /\ key.desc = TRUE => (BeforeOn(v, w, key) <=> Below(w, v))
         /\ key.desc = FALSE => (BeforeOn(v, w, key) <=> Below(v, w))
BY DEF BeforeOn, Keyed

LEMMA BeforeOnWeak ==
  ASSUME NEW key, Keyed(key), NEW dt, NEW u, NEW v, NEW w, Has(u, dt), Has(v, dt), Has(w, dt)
  PROVE  /\ BeforeOn(u, v, key) => ~BeforeOn(v, u, key)
         /\ BeforeOn(u, w, key) => BeforeOn(u, v, key) \/ BeforeOn(v, w, key)
<1>0. (key.desc = TRUE \/ key.desc = FALSE) /\ (key.nullsFirst = TRUE \/ key.nullsFirst = FALSE)
  BY DEF Keyed
<1>1. CASE u # Null /\ v # Null /\ w # Null
  <2>1. KindOf(u, dt) /\ KindOf(v, dt) /\ KindOf(w, dt)
    BY <1>1 DEF Has
  <2>2. /\ Below(u, v) => ~Below(v, u)
        /\ Below(u, w) => Below(u, v) \/ Below(v, w)
        /\ Below(w, u) => Below(w, v) \/ Below(v, u)
    BY <2>1, KindsAlike, BelowWeak
  <2> QED
    BY <1>0, <1>1, <2>2, BeforePresent
<1>2. CASE u = Null \/ v = Null \/ w = Null
  <2>1. ASSUME u # Null, v # Null
        PROVE  BeforeOn(u, v, key) => ~BeforeOn(v, u, key)
    <3>1. KindOf(u, dt) /\ KindOf(v, dt)
      BY <2>1 DEF Has
    <3>2. /\ Below(u, v) => ~Below(v, u)
          /\ Below(v, u) => ~Below(u, v)
      BY <3>1, KindsAlike, BelowWeak
    <3> QED
      BY <1>0, <2>1, <3>2, BeforePresent
  <2>2. \A x \in {u, v, w}, y \in {u, v, w} :
          /\ x = Null /\ y = Null => ~BeforeOn(x, y, key)
          /\ x = Null /\ y # Null => (BeforeOn(x, y, key) <=> key.nullsFirst = TRUE)
          /\ x # Null /\ y = Null => (BeforeOn(x, y, key) <=> key.nullsFirst = FALSE)
    BY BeforeNull
  <2>3. CASE key.nullsFirst = TRUE
    BY <1>2, <2>1, <2>2, <2>3
  <2>4. CASE key.nullsFirst = FALSE
    BY <1>2, <2>1, <2>2, <2>4
  <2> QED
    BY <1>0, <2>3, <2>4
<1> QED
  BY <1>1, <1>2

(* What a comparison under a key says. *)
Told(ord, v, w, key) ==
  /\ ord \in Ordering
  /\ ord = "Less" <=> BeforeOn(v, w, key)
  /\ ord = "Equal" <=> ~BeforeOn(v, w, key) /\ ~BeforeOn(w, v, key)

(* How every comparison of the code places NULLs and turns about for DESC. *)
Placed(v, w, ord, key) ==
  IF v = Null THEN IF w = Null THEN "Equal" ELSE IF key.nullsFirst THEN "Less" ELSE "Greater"
  ELSE IF w = Null THEN IF key.nullsFirst THEN "Greater" ELSE "Less"
  ELSE IF key.desc THEN Opposite(ord) ELSE ord

LEMMA PlacedTells ==
  ASSUME NEW key, Keyed(key), NEW dt, NEW v, NEW w, Has(v, dt), Has(w, dt),
         NEW ord, v # Null /\ w # Null => Says(ord, v, w)
  PROVE  Told(Placed(v, w, ord, key), v, w, key)
<1>0. (key.desc = TRUE \/ key.desc = FALSE) /\ (key.nullsFirst = TRUE \/ key.nullsFirst = FALSE)
  BY DEF Keyed
<1>1. CASE v = Null \/ w = Null
  <2>2. /\ v = Null /\ w = Null => ~BeforeOn(v, w, key) /\ ~BeforeOn(w, v, key)
        /\ v = Null /\ w # Null => (BeforeOn(v, w, key) <=> key.nullsFirst = TRUE)
        /\ v = Null /\ w # Null => (BeforeOn(w, v, key) <=> key.nullsFirst = FALSE)
        /\ v # Null /\ w = Null => (BeforeOn(v, w, key) <=> key.nullsFirst = FALSE)
        /\ v # Null /\ w = Null => (BeforeOn(w, v, key) <=> key.nullsFirst = TRUE)
    BY BeforeNull
  <2>3. CASE key.nullsFirst = TRUE
    <3>1. Placed(v, w, ord, key) = IF v = Null THEN IF w = Null THEN "Equal" ELSE "Less" ELSE "Greater"
      BY <1>1, <2>3 DEF Placed
    <3> QED
      BY <1>1, <2>2, <2>3, <3>1 DEF Told, Ordering
  <2>4. CASE key.nullsFirst = FALSE
    <3>1. Placed(v, w, ord, key) = IF v = Null THEN IF w = Null THEN "Equal" ELSE "Greater" ELSE "Less"
      BY <1>1, <2>4 DEF Placed
    <3> QED
      BY <1>1, <2>2, <2>4, <3>1 DEF Told, Ordering
  <2> QED
    BY <1>0, <2>3, <2>4
<1>2. CASE v # Null /\ w # Null
  <2>1. /\ ord \in Ordering
        /\ ord = "Less" <=> Below(v, w)
        /\ ord = "Greater" <=> Below(w, v)
    BY <1>2 DEF Says
  <2>2. /\ Opposite(ord) \in Ordering
        /\ Opposite(ord) = "Less" <=> ord = "Greater"
        /\ Opposite(ord) = "Greater" <=> ord = "Less"
    BY <2>1 DEF Opposite, Ordering
  <2>3. \A o \in Ordering : o = "Equal" <=> o # "Less" /\ o # "Greater"
    BY DEF Ordering
  <2>4. CASE key.desc = TRUE
    <3>1. Placed(v, w, ord, key) = Opposite(ord)
      BY <1>2, <2>4 DEF Placed
    <3>2. (BeforeOn(v, w, key) <=> Below(w, v)) /\ (BeforeOn(w, v, key) <=> Below(v, w))
      BY <1>2, <2>4, BeforePresent
    <3> QED
      BY <2>1, <2>2, <2>3, <3>1, <3>2 DEF Told
  <2>5. CASE key.desc = FALSE
    <3>1. Placed(v, w, ord, key) = ord
      BY <1>2, <2>5 DEF Placed
    <3>2. (BeforeOn(v, w, key) <=> Below(v, w)) /\ (BeforeOn(w, v, key) <=> Below(w, v))
      BY <1>2, <2>5, BeforePresent
    <3> QED
      BY <2>1, <2>3, <3>1, <3>2 DEF Told
  <2> QED
    BY <1>0, <2>4, <2>5
<1> QED
  BY <1>1, <1>2

(* cmp_for_sort. *)
LEMMA SortTells ==
  ASSUME NEW key, Keyed(key), NEW dt, NEW v, NEW w, Has(v, dt), Has(w, dt)
  PROVE  Told(CmpForSort(v, w, key.desc, key.nullsFirst), v, w, key)
<1>1. v # Null /\ w # Null => Says(CmpPresent(v, w), v, w)
  BY KindsAlike, PresentTells DEF Has
<1>2. CmpForSort(v, w, key.desc, key.nullsFirst) = Placed(v, w, CmpPresent(v, w), key)
  BY DEF CmpForSort, Placed
<1> QED
  BY <1>1, <1>2, PlacedTells

(* A cell of a column is read as a value of it. *)
LEMMA CellHas ==
  ASSUME NEW col, NEW row, IsCell(CellAt(col, row), col.dt)
  PROVE  /\ Has(ValueAt(col, row), col.dt)
         /\ CellAt(col, row).null \in BOOLEAN
         /\ CellAt(col, row).null = TRUE <=> ValueAt(col, row) = Null
         /\ CellAt(col, row).null = FALSE
              => /\ IsRaw(CellAt(col, row).raw, col.dt)
                 /\ ValueAt(col, row) = CellValue(col.dt, CellAt(col, row).raw)
<1> DEFINE cell == CellAt(col, row)
           v == ValueAt(col, row)
<1>0. v = IF cell.null THEN Null ELSE CellValue(col.dt, cell.raw)
  BY DEF ValueAt, Read
<1>1. cell = NullCell \/ (cell.null = FALSE /\ IsRaw(cell.raw, col.dt))
  BY DEF IsCell
<1> HIDE DEF cell, v
<1>2. CASE cell = NullCell
  <2>1. cell.null = TRUE
    BY <1>2 DEF NullCell
  <2> QED
    BY <1>0, <2>1 DEF Has, cell, v
<1>3. CASE cell.null = FALSE /\ IsRaw(cell.raw, col.dt)
  <2>1. v = CellValue(col.dt, cell.raw)
    BY <1>0, <1>3
  <2>2. KindOf(v, col.dt)
    BY <1>3, <2>1, CellReads, ReadKind
  <2>3. v # Null
    BY <2>2, KindsAlike
  <2> QED
    BY <1>3, <2>1, <2>2, <2>3 DEF Has, cell, v
<1> QED
  BY <1>1, <1>2, <1>3

(* cmp_cells. *)
LEMMA CellsTell ==
  ASSUME NEW key, Keyed(key), NEW col, NEW a, NEW b,
         IsCell(CellAt(col, a), col.dt), IsCell(CellAt(col, b), col.dt)
  PROVE  Told(CmpCells(col, a, b, key.desc, key.nullsFirst), ValueAt(col, a), ValueAt(col, b), key)
<1> DEFINE x == CellAt(col, a)
           y == CellAt(col, b)
           v == ValueAt(col, a)
           w == ValueAt(col, b)
           ord == IF InPlace(col.dt) THEN RawCmp(col.dt, x.raw, y.raw)
                  ELSE CmpForSort(v, w, FALSE, key.nullsFirst)
<1>1. /\ Has(v, col.dt) /\ x.null \in BOOLEAN
      /\ x.null = TRUE <=> v = Null
      /\ x.null = FALSE => IsRaw(x.raw, col.dt) /\ v = CellValue(col.dt, x.raw)
  BY CellHas
<1>2. /\ Has(w, col.dt) /\ y.null \in BOOLEAN
      /\ y.null = TRUE <=> w = Null
      /\ y.null = FALSE => IsRaw(y.raw, col.dt) /\ w = CellValue(col.dt, y.raw)
  BY CellHas
<1>3. CmpCells(col, a, b, key.desc, key.nullsFirst)
        = CASE x.null /\ y.null -> "Equal"
            [] x.null /\ ~y.null -> IF key.nullsFirst THEN "Less" ELSE "Greater"
            [] ~x.null /\ y.null -> IF key.nullsFirst THEN "Greater" ELSE "Less"
            [] OTHER -> IF key.desc THEN Opposite(ord) ELSE ord
  BY DEF CmpCells
<1>o. ord = IF InPlace(col.dt) THEN RawCmp(col.dt, x.raw, y.raw)
            ELSE CmpForSort(v, w, FALSE, key.nullsFirst)
  OBVIOUS
<1>w. v = ValueAt(col, a) /\ w = ValueAt(col, b)
  OBVIOUS
<1> HIDE DEF x, y, v, w, ord
<1>4. CmpCells(col, a, b, key.desc, key.nullsFirst) = Placed(v, w, ord, key)
  <2>1. (x.null = TRUE \/ x.null = FALSE) /\ (y.null = TRUE \/ y.null = FALSE)
    BY <1>1, <1>2
  <2> QED
    BY <1>1, <1>2, <1>3, <2>1 DEF Placed
<1>5. v # Null /\ w # Null => Says(ord, v, w)
  <2> SUFFICES ASSUME v # Null, w # Null
               PROVE  Says(ord, v, w)
    OBVIOUS
  <2>1. x.null = FALSE /\ y.null = FALSE
    BY <1>1, <1>2
  <2>2. CASE InPlace(col.dt)
    BY <1>1, <1>2, <1>o, <2>1, <2>2, RawTells
  <2>3. CASE ~InPlace(col.dt)
    <3>1. ord = CmpPresent(v, w)
      BY <1>o, <2>3 DEF CmpForSort
    <3> QED
      BY <1>1, <1>2, <3>1, KindsAlike, PresentTells DEF Has
  <2> QED
    BY <2>2, <2>3
<1>6. Told(Placed(v, w, ord, key), v, w, key)
  BY <1>1, <1>2, <1>5, PlacedTells
<1> QED
  BY <1>4, <1>6, <1>w

(* What KeyCol compares in place of a present value. *)
LEMMA UnpackedTells ==
  ASSUME NEW dt, NEW ty, ty.k \in IntegerFamily, NEW v, NEW w, KindOf(v, dt), KindOf(w, dt),
         Uniform(v, ty), Uniform(w, ty)
  PROVE  /\ Says(Ord(Unpacked(v), Unpacked(w)), v, w)
         /\ Unpacked(v) \in Int /\ Unpacked(w) \in Int
<1>0. Alike(v, w) /\ v # Null /\ w # Null /\ v.k = w.k
  BY KindsAlike DEF Alike
<1>1. v.k \in {"Int", "UInt", "Date", "Timestamp", "Time"}
  BY <1>0 DEF Uniform
<1>2. Unpacked(v) = Axis(v) /\ Unpacked(w) = Axis(w)
  BY <1>0, <1>1 DEF Unpacked, Axis, Position
<1>3. CmpPresent(v, w) = Ord(Axis(v), Axis(w))
  BY <1>0, <1>1, PresentOnAxis
<1>4. Axis(v) \in Int /\ Axis(w) \in Int
  BY <1>0, <1>1, AxisInt DEF Alike
<1> QED
  BY <1>0, <1>2, <1>3, <1>4, PresentTells

-----------------------------------------------------------------------------
(* The order of the positions of a partition.                               *)

TermsTell(ords, W, a, b, n) == \A c \in 1 .. n : TellsPair(ords[c], W[c], a, b)

AllWeak(W, S, n) == \A c \in 1 .. n : Weak(W[c], S)

(* The first term that tells two positions apart decides. *)
LEMMA LexicographicTells ==
  ASSUME NEW n \in Nat, NEW S, NEW W, AllWeak(W, S, n), NEW a \in S, NEW b \in S,
         NEW ords \in [1 .. n -> Ordering], TermsTell(ords, W, a, b, n)
  PROVE  TellsPair(Lexicographic(ords), FirstApart(W, n, S), a, b)
<1> DEFINE A(c) == <<a, b>> \in W[c]
           B(c) == <<b, a>> \in W[c]
           FA == <<a, b>> \in FirstApart(W, n, S)
           FB == <<b, a>> \in FirstApart(W, n, S)
<1>1. \A c \in 1 .. n : /\ ords[c] = "Less" <=> A(c)
                        /\ ords[c] = "Equal" <=> ~A(c) /\ ~B(c)
  BY DEF TermsTell, TellsPair, Tied
<1>2. \A c \in 1 .. n : A(c) => ~B(c)
  BY DEF AllWeak, Weak
<1>3. \A c \in 1 .. n : Tied(W[c], a, b) <=> ords[c] = "Equal"
  BY DEF TermsTell, TellsPair
<1>4. \A c \in 1 .. n : Tied(W[c], b, a) <=> ords[c] = "Equal"
  BY <1>3 DEF Tied
<1>5. FA <=> \E c \in 1 .. n : A(c) /\ \A e \in 1 .. n : e < c => ords[e] = "Equal"
  <2>1. FA <=> \E c \in 1 .. n : A(c) /\ \A e \in 1 .. n : e < c => Tied(W[e], a, b)
    BY DEF FirstApart
  <2> HIDE DEF FA, A
  <2> QED
    BY <1>3, <2>1
<1>6. FB <=> \E c \in 1 .. n : B(c) /\ \A e \in 1 .. n : e < c => ords[e] = "Equal"
  <2>1. FB <=> \E c \in 1 .. n : B(c) /\ \A e \in 1 .. n : e < c => Tied(W[e], b, a)
    BY DEF FirstApart
  <2> HIDE DEF FB, B
  <2> QED
    BY <1>4, <2>1
<1>7. (Lexicographic(ords) = "Less" <=> FA) /\ (Lexicographic(ords) = "Equal" <=> ~FA /\ ~FB)
  <2> HIDE DEF FA, FB, A, B
  <2> DEFINE apart == {c \in 1 .. n : ords[c] # "Equal"}
             m == Min(apart)
  <2>1. Lexicographic(ords) = IF apart = {} THEN "Equal" ELSE ords[m]
    BY DEF Lexicographic
  <2>2. CASE apart = {}
    BY <1>1, <1>5, <1>6, <2>1, <2>2
  <2>3. CASE apart # {}
    <3>1. m \in apart /\ \A c \in apart : m <= c
      <4>1. apart \in SUBSET Nat
        OBVIOUS
      <4> HIDE DEF apart
      <4> QED
        BY <2>3, <4>1, MinOfSet
    <3>2. Lexicographic(ords) = ords[m]
      BY <2>1, <2>3
    <3> HIDE DEF m
    <3>3. m \in 1 .. n /\ ords[m] # "Equal"
      BY <3>1
    <3>4. \A e \in 1 .. n : e < m => ords[e] = "Equal"
      <4> SUFFICES ASSUME NEW e \in 1 .. n, e < m, ords[e] # "Equal"
                   PROVE  FALSE
        OBVIOUS
      <4>1. ~(m <= e)
        BY <3>3
      <4> QED
        BY <3>1, <4>1
    <3>5. ASSUME NEW c \in 1 .. n, A(c) \/ B(c), \A e \in 1 .. n : e < c => ords[e] = "Equal"
          PROVE  c = m
      <4>1. ords[c] # "Equal"
        BY <1>1, <3>5
      <4>2. c < m \/ m < c \/ c = m
        BY <3>3
      <4> QED
        BY <3>3, <3>4, <3>5, <4>1, <4>2
    <3>6. (FA <=> A(m)) /\ (FB <=> B(m))
      BY <1>5, <1>6, <3>3, <3>4, <3>5
    <3> QED
      BY <1>1, <3>2, <3>3, <3>6
  <2> QED
    BY <2>2, <2>3
<1> HIDE DEF FA, FB
<1>8. TellsPair(Lexicographic(ords), FirstApart(W, n, S), a, b)
        <=> (Lexicographic(ords) = "Less" <=> FA) /\ (Lexicographic(ords) = "Equal" <=> ~FA /\ ~FB)
  BY DEF TellsPair, Tied, FA, FB
<1> QED
  BY <1>7, <1>8

ValueIn(p, c, i) == ValueAt(p.cols[c], p.tape[i])

(* By each term; and by all of them. *)
BeforeBy(p, c) ==
  {ij \in (DOMAIN p.tape) \X (DOMAIN p.tape) :
     BeforeOn(ValueIn(p, c, ij[1]), ValueIn(p, c, ij[2]), p.keys[c])}

BeforeIn(p) == [c \in DOMAIN p.keys |-> BeforeBy(p, c)]

PartBefore(p) == FirstApart(BeforeIn(p), Len(p.keys), DOMAIN p.tape)

LEMMA InputFacts ==
  ASSUME NEW p \in Inputs
  PROVE  /\ Len(p.keys) \in Nat /\ DOMAIN p.keys = 1 .. Len(p.keys) /\ DOMAIN p.cols = DOMAIN p.keys
         /\ \A c \in 1 .. Len(p.keys) : Keyed(p.keys[c])
         /\ Cardinality(DOMAIN p.tape) \in Nat
         /\ DOMAIN p.tape = 0 .. Cardinality(DOMAIN p.tape) - 1
         /\ \A i \in DOMAIN p.tape : p.tape[i] \in Row /\ p.tape[i] \in Nat
         /\ \A i, j \in DOMAIN p.tape : i < j => p.tape[i] < p.tape[j]
         /\ \A c \in 1 .. Len(p.keys), i \in DOMAIN p.tape :
              IsCell(CellAt(p.cols[c], p.tape[i]), p.cols[c].dt)
<1> DEFINE P == DOMAIN p.tape
<1>1. /\ p.keys \in Seq([desc : BOOLEAN, nullsFirst : BOOLEAN]) /\ DOMAIN p.cols = DOMAIN p.keys
      /\ IsFiniteSet(P) /\ p.tape \in [0 .. (Cardinality(P) - 1) -> Row]
      /\ \A i, j \in P : i < j => p.tape[i] < p.tape[j]
      /\ \A c \in DOMAIN p.keys, i \in P : IsCell(CellAt(p.cols[c], p.tape[i]), p.cols[c].dt)
  BY InputsAssumption
<1>2. Len(p.keys) \in Nat /\ DOMAIN p.keys = 1 .. Len(p.keys)
      /\ \A c \in 1 .. Len(p.keys) : p.keys[c] \in [desc : BOOLEAN, nullsFirst : BOOLEAN]
  BY <1>1, LenProperties, ElementOfSeq
<1>3. Cardinality(P) \in Nat
  BY <1>1, FS_CardinalityType
<1>4. P = 0 .. Cardinality(P) - 1 /\ \A i \in P : p.tape[i] \in Row
  <2> DEFINE n == Cardinality(P)
             T == p.tape
  <2>1. T \in [0 .. n - 1 -> Row]
    BY <1>1
  <2> HIDE DEF n, T
  <2>2. DOMAIN T = 0 .. n - 1 /\ \A i \in DOMAIN T : T[i] \in Row
    BY <2>1
  <2> QED
    BY <2>2 DEF n, T
<1>5. Row \subseteq Nat
  BY SizesAssumption
<1>6. \A c \in 1 .. Len(p.keys) : Keyed(p.keys[c])
  BY <1>2 DEF Keyed
<1> HIDE DEF P
<1>7. /\ \A i \in P : p.tape[i] \in Row /\ p.tape[i] \in Nat
      /\ \A c \in 1 .. Len(p.keys), i \in P : IsCell(CellAt(p.cols[c], p.tape[i]), p.cols[c].dt)
  BY <1>1, <1>2, <1>4, <1>5
<1> QED
  BY <1>1, <1>2, <1>3, <1>4, <1>6, <1>7 DEF P

LEMMA PartBeforeWeak ==
  ASSUME NEW p \in Inputs
  PROVE  /\ AllWeak(BeforeIn(p), DOMAIN p.tape, Len(p.keys))
         /\ Weak(PartBefore(p), DOMAIN p.tape)
<1> DEFINE n == Len(p.keys)
           P == DOMAIN p.tape
           W == BeforeIn(p)
<1>1. AllWeak(W, P, n)
  <2> SUFFICES ASSUME NEW c \in 1 .. n
               PROVE  Weak(W[c], P)
    BY DEF AllWeak
  <2> DEFINE key == p.keys[c]
             dt == p.cols[c].dt
             V(i) == ValueIn(p, c, i)
             R(i, j) == BeforeOn(V(i), V(j), key)
  <2>1. Keyed(key) /\ c \in DOMAIN p.keys
    BY InputFacts
  <2>2. \A i \in P : Has(V(i), dt)
    <3> SUFFICES ASSUME NEW i \in P
                 PROVE  Has(V(i), dt)
      OBVIOUS
    <3>1. IsCell(CellAt(p.cols[c], p.tape[i]), p.cols[c].dt)
      BY InputFacts
    <3> QED
      BY <3>1, CellHas DEF ValueIn
  <2>s. W[c] = BeforeBy(p, c)
    BY <2>1 DEF BeforeIn
  <2>3. \A i, j \in P : <<i, j>> \in BeforeBy(p, c) <=> R(i, j)
    BY DEF BeforeBy
  <2> HIDE DEF W, P, V, key, dt
  <2>4. /\ \A i, j \in P : R(i, j) => ~R(j, i)
        /\ \A i, j, l \in P : R(i, l) => R(i, j) \/ R(j, l)
    BY <2>1, <2>2, BeforeOnWeak
  <2> HIDE DEF R
  <2>5. Weak(BeforeBy(p, c), P)
    BY <2>3, <2>4 DEF Weak
  <2> QED
    BY <2>5, <2>s
<1>2. n \in Nat
  BY InputFacts
<1>3. Weak(FirstApart(W, n, P), P)
  <2> HIDE DEF W, n, P
  <2> QED
    BY <1>1, <1>2, FirstApartWeak DEF AllWeak
<1> QED
  BY <1>1, <1>3 DEF PartBefore

(* Told by every term, the first that tells decides. *)
LEMMA OrderTells ==
  ASSUME NEW p \in Inputs, NEW order,
         NEW ords, \A i, j \in DOMAIN p.tape : order[i][j] = Lexicographic(ords[i][j]),
         \A i, j \in DOMAIN p.tape : DOMAIN ords[i][j] = DOMAIN p.keys
                                     /\ ords[i][j] = [c \in DOMAIN p.keys |-> ords[i][j][c]],
         \A i, j \in DOMAIN p.tape, c \in DOMAIN p.keys :
           Told(ords[i][j][c], ValueIn(p, c, i), ValueIn(p, c, j), p.keys[c])
  PROVE  Tells(order, PartBefore(p), DOMAIN p.tape)
<1> DEFINE n == Len(p.keys)
           P == DOMAIN p.tape
           W == BeforeIn(p)
<1>0. n \in Nat /\ DOMAIN p.keys = 1 .. n
  BY InputFacts
<1>1. ASSUME NEW i \in P, NEW j \in P
      PROVE  TellsPair(order[i][j], PartBefore(p), i, j)
  <2> DEFINE o == ords[i][j]
  <2>1. \A c \in 1 .. n : Told(o[c], ValueIn(p, c, i), ValueIn(p, c, j), p.keys[c])
    BY <1>0
  <2>2. \A c \in 1 .. n : /\ <<i, j>> \in W[c] <=> BeforeOn(ValueIn(p, c, i), ValueIn(p, c, j), p.keys[c])
                          /\ <<j, i>> \in W[c] <=> BeforeOn(ValueIn(p, c, j), ValueIn(p, c, i), p.keys[c])
    <3>1. \A c \in 1 .. n : W[c] = BeforeBy(p, c)
      BY <1>0 DEF BeforeIn
    <3> HIDE DEF W
    <3>2. \A c \in 1 .. n :
            /\ <<i, j>> \in BeforeBy(p, c) <=> BeforeOn(ValueIn(p, c, i), ValueIn(p, c, j), p.keys[c])
            /\ <<j, i>> \in BeforeBy(p, c) <=> BeforeOn(ValueIn(p, c, j), ValueIn(p, c, i), p.keys[c])
      BY DEF BeforeBy
    <3> QED
      BY <3>1, <3>2
  <2>3. o = [c \in 1 .. n |-> o[c]]
    BY <1>0
  <2>4. order[i][j] = Lexicographic(o)
    OBVIOUS
  <2> HIDE DEF o, W
  <2>5. TermsTell(o, W, i, j, n)
    <3> SUFFICES ASSUME NEW c \in 1 .. n
                 PROVE  TellsPair(o[c], W[c], i, j)
      BY DEF TermsTell
    <3> DEFINE A == <<i, j>> \in W[c]
               B == <<j, i>> \in W[c]
    <3>1. (o[c] = "Less" <=> A) /\ (o[c] = "Equal" <=> ~A /\ ~B)
      BY <2>1, <2>2 DEF Told
    <3> QED
      BY <3>1 DEF TellsPair, Tied
  <2>6. o \in [1 .. n -> Ordering]
    <3>1. \A c \in 1 .. n : o[c] \in Ordering
      BY <2>1 DEF Told
    <3> QED
      BY <2>3, <3>1
  <2>7. AllWeak(W, P, n)
    BY PartBeforeWeak DEF W
  <2>8. TellsPair(Lexicographic(o), FirstApart(W, n, P), i, j)
    <3> HIDE DEF n, P
    <3> QED
      BY <1>0, <1>1, <2>5, <2>6, <2>7, LexicographicTells
  <2> QED
    BY <2>4, <2>8 DEF PartBefore, W
<1> QED
  BY <1>1 DEF Tells

LEMMA CellOrderTells ==
  ASSUME part \in Inputs
  PROVE  Tells(CellOrder, PartBefore(part), DOMAIN part.tape)
<1> DEFINE ords == [i \in DOMAIN part.tape |-> [j \in DOMAIN part.tape |->
                      [c \in Terms |-> CmpCells(part.cols[c], part.tape[i], part.tape[j],
                                                part.keys[c].desc, part.keys[c].nullsFirst)]]]
<1>1. \A i, j \in DOMAIN part.tape : CellOrder[i][j] = Lexicographic(ords[i][j])
  BY DEF CellOrder
<1>2. \A i, j \in DOMAIN part.tape : DOMAIN ords[i][j] = DOMAIN part.keys
                                     /\ ords[i][j] = [c \in DOMAIN part.keys |-> ords[i][j][c]]
  BY DEF Terms
<1>3. \A i, j \in DOMAIN part.tape, c \in DOMAIN part.keys :
        Told(ords[i][j][c], ValueIn(part, c, i), ValueIn(part, c, j), part.keys[c])
  <2> SUFFICES ASSUME NEW i \in DOMAIN part.tape, NEW j \in DOMAIN part.tape, NEW c \in DOMAIN part.keys
               PROVE  Told(ords[i][j][c], ValueIn(part, c, i), ValueIn(part, c, j), part.keys[c])
    OBVIOUS
  <2>1. Keyed(part.keys[c]) /\ IsCell(CellAt(part.cols[c], part.tape[i]), part.cols[c].dt)
        /\ IsCell(CellAt(part.cols[c], part.tape[j]), part.cols[c].dt)
    BY InputFacts
  <2>2. ords[i][j][c] = CmpCells(part.cols[c], part.tape[i], part.tape[j],
                                 part.keys[c].desc, part.keys[c].nullsFirst)
    BY DEF Terms
  <2> HIDE DEF ords
  <2> QED
    BY <2>1, <2>2, CellsTell DEF ValueIn
<1> HIDE DEF ords
<1> QED
  BY <1>1, <1>2, <1>3, OrderTells

(* cmp_at. *)
LEMMA ColumnTells ==
  ASSUME part \in Inputs, NEW c \in DOMAIN part.keys, NEW i \in DOMAIN part.tape, NEW j \in DOMAIN part.tape
  PROVE  Told(CmpAt(ReadColumn(part.cols[c]), i, j, part.keys[c]),
              ValueIn(part, c, i), ValueIn(part, c, j), part.keys[c])
<1> DEFINE col == part.cols[c]
           key == part.keys[c]
           kc == ReadColumn(col)
           ty == ScalarTy(col.dt)
           cells == [l \in DOMAIN part.tape |-> ValueAt(col, part.tape[l])]
           v == cells[i]
           w == cells[j]
<1>1. Keyed(key) /\ Has(v, col.dt) /\ Has(w, col.dt)
  BY InputFacts, CellHas
<1>2. kc = IF ty.k \in IntegerFamily /\ \A l \in DOMAIN cells : Uniform(cells[l], ty)
           THEN [packed |-> TRUE, null |-> [l \in DOMAIN cells |-> cells[l] = Null],
                 nums |-> [l \in DOMAIN cells |-> IF cells[l] = Null THEN 0 ELSE Unpacked(cells[l])]]
           ELSE [packed |-> FALSE, values |-> cells]
  BY DEF ReadColumn
<1>3. v = ValueIn(part, c, i) /\ w = ValueIn(part, c, j) /\ i \in DOMAIN cells /\ j \in DOMAIN cells
  BY DEF ValueIn
<1>k. key = part.keys[c] /\ kc = ReadColumn(part.cols[c])
  OBVIOUS
<1> HIDE DEF kc, cells, key
<1>4. Told(CmpAt(kc, i, j, key), v, w, key)
  <2>1. CASE ty.k \in IntegerFamily /\ \A l \in DOMAIN cells : Uniform(cells[l], ty)
    <3> DEFINE ord == Ord(kc.nums[i], kc.nums[j])
    <3>1. /\ kc.packed = TRUE
          /\ kc.null[i] = (v = Null) /\ kc.null[j] = (w = Null)
          /\ v # Null => kc.nums[i] = Unpacked(v)
          /\ w # Null => kc.nums[j] = Unpacked(w)
      BY <1>2, <1>3, <2>1
    <3>2. v # Null /\ w # Null => Says(ord, v, w) /\ kc.nums[i] \in Int /\ kc.nums[j] \in Int
      <4> SUFFICES ASSUME v # Null, w # Null
                   PROVE  Says(ord, v, w) /\ kc.nums[i] \in Int /\ kc.nums[j] \in Int
        OBVIOUS
      <4>1. KindOf(v, col.dt) /\ KindOf(w, col.dt)
        BY <1>1 DEF Has
      <4>2. Uniform(v, ty) /\ Uniform(w, ty) /\ ty.k \in IntegerFamily
        BY <1>3, <2>1
      <4>3. ord = Ord(Unpacked(v), Unpacked(w))
        BY <3>1
      <4> HIDE DEF ord, ty, v, w
      <4> QED
        BY <3>1, <4>1, <4>2, <4>3, UnpackedTells
    <3>3. CmpAt(kc, i, j, key) = Placed(v, w, ord, key)
      <4>1. \A x, y \in Int : Opposite(Ord(x, y)) = Ord(y, x)
        BY DEF Opposite, Ord
      <4>2. CASE v # Null /\ w # Null
        <5>1. kc.null[i] = FALSE /\ kc.null[j] = FALSE
          BY <3>1, <4>2
        <5>2. CmpAt(kc, i, j, key)
                = IF key.desc THEN Ord(kc.nums[j], kc.nums[i]) ELSE Ord(kc.nums[i], kc.nums[j])
          BY <3>1, <5>1 DEF CmpAt
        <5>3. Placed(v, w, ord, key) = IF key.desc THEN Opposite(ord) ELSE ord
          BY <4>2 DEF Placed
        <5> QED
          BY <3>2, <4>1, <4>2, <5>2, <5>3
      <4>3. CASE v = Null /\ w = Null
        BY <3>1, <4>3 DEF CmpAt, Placed
      <4>4. CASE v = Null /\ w # Null
        <5>1. kc.null[i] = TRUE /\ kc.null[j] = FALSE
          BY <3>1, <4>4
        <5> QED
          BY <3>1, <4>4, <5>1 DEF CmpAt, Placed
      <4>5. CASE v # Null /\ w = Null
        <5>1. kc.null[i] = FALSE /\ kc.null[j] = TRUE
          BY <3>1, <4>5
        <5> QED
          BY <3>1, <4>5, <5>1 DEF CmpAt, Placed
      <4> QED
        BY <4>2, <4>3, <4>4, <4>5
    <3> QED
      BY <1>1, <3>2, <3>3, PlacedTells
  <2>2. CASE ~(ty.k \in IntegerFamily /\ \A l \in DOMAIN cells : Uniform(cells[l], ty))
    <3>1. kc = [packed |-> FALSE, values |-> cells]
      BY <1>2, <2>2
    <3>2. CmpAt(kc, i, j, key) = CmpForSort(v, w, key.desc, key.nullsFirst)
      BY <3>1 DEF CmpAt
    <3> QED
      BY <1>1, <3>2, SortTells
  <2> QED
    BY <2>1, <2>2
<1> QED
  BY <1>3, <1>4, <1>k

LEMMA KeyOrderTells ==
  ASSUME part \in Inputs, keyCols = [c \in Terms |-> ReadColumn(part.cols[c])]
  PROVE  Tells(KeyOrder, PartBefore(part), DOMAIN part.tape)
<1> DEFINE ords == [i \in DOMAIN part.tape |-> [j \in DOMAIN part.tape |->
                      [c \in Terms |-> CmpAt(keyCols[c], i, j, part.keys[c])]]]
<1>1. \A i, j \in DOMAIN part.tape : KeyOrder[i][j] = Lexicographic(ords[i][j])
  BY DEF KeyOrder
<1>2. \A i, j \in DOMAIN part.tape : DOMAIN ords[i][j] = DOMAIN part.keys
                                     /\ ords[i][j] = [c \in DOMAIN part.keys |-> ords[i][j][c]]
  BY DEF Terms
<1>3. \A i, j \in DOMAIN part.tape, c \in DOMAIN part.keys :
        Told(ords[i][j][c], ValueIn(part, c, i), ValueIn(part, c, j), part.keys[c])
  <2> SUFFICES ASSUME NEW i \in DOMAIN part.tape, NEW j \in DOMAIN part.tape, NEW c \in DOMAIN part.keys
               PROVE  Told(ords[i][j][c], ValueIn(part, c, i), ValueIn(part, c, j), part.keys[c])
    OBVIOUS
  <2>1. ords[i][j][c] = CmpAt(ReadColumn(part.cols[c]), i, j, part.keys[c])
    BY DEF Terms
  <2> HIDE DEF ords
  <2> QED
    BY <2>1, ColumnTells
<1> HIDE DEF ords
<1> QED
  BY <1>1, <1>2, <1>3, OrderTells

(* Two rows are before each other as their positions are. *)
LEMMA BeforeIs ==
  ASSUME part \in Inputs, NEW i \in DOMAIN part.tape, NEW j \in DOMAIN part.tape
  PROVE  <<i, j>> \in PartBefore(part) <=> Before(part.tape[i], part.tape[j])
<1> DEFINE n == Len(part.keys)
           P == DOMAIN part.tape
           W == BeforeIn(part)
           R(c, x, y) == BeforeOn(ValueIn(part, c, x), ValueIn(part, c, y), part.keys[c])
           F == <<i, j>> \in FirstApart(W, n, P)
<1>0. n \in Nat /\ DOMAIN part.keys = 1 .. n
  BY InputFacts
<1>1. \A c \in 1 .. n : <<i, j>> \in W[c] <=> R(c, i, j)
  <2> SUFFICES ASSUME NEW c \in 1 .. n
               PROVE  <<i, j>> \in W[c] <=> R(c, i, j)
    OBVIOUS
  <2>1. W[c] = BeforeBy(part, c)
    BY <1>0 DEF BeforeIn
  <2> HIDE DEF W
  <2>2. <<i, j>> \in BeforeBy(part, c) <=> R(c, i, j)
    BY DEF BeforeBy
  <2> QED
    BY <2>1, <2>2
<1>2. \A c \in 1 .. n : Tied(W[c], i, j) <=> ~R(c, i, j) /\ ~R(c, j, i)
  <2> SUFFICES ASSUME NEW c \in 1 .. n
               PROVE  Tied(W[c], i, j) <=> ~R(c, i, j) /\ ~R(c, j, i)
    OBVIOUS
  <2>1. W[c] = BeforeBy(part, c)
    BY <1>0 DEF BeforeIn
  <2> HIDE DEF W
  <2>2. Tied(BeforeBy(part, c), i, j) <=> ~R(c, i, j) /\ ~R(c, j, i)
    BY DEF BeforeBy, Tied
  <2> QED
    BY <2>1, <2>2
<1>3. F <=> \E c \in 1 .. n : <<i, j>> \in W[c] /\ \A e \in 1 .. n : e < c => Tied(W[e], i, j)
  <2> HIDE DEF n, W
  <2> QED
    BY DEF FirstApart
<1>4. Before(part.tape[i], part.tape[j])
        <=> \E c \in 1 .. n : R(c, i, j) /\ \A e \in 1 .. (c - 1) : ~R(e, i, j) /\ ~R(e, j, i)
  BY <1>0 DEF Before, Terms, ValueIn
<1>5. \A c \in 1 .. n : 1 .. (c - 1) = {e \in 1 .. n : e < c}
  BY <1>0
<1> HIDE DEF W, F, n, R
<1>6. F <=> \E c \in 1 .. n : R(c, i, j) /\ \A e \in 1 .. (c - 1) : ~R(e, i, j) /\ ~R(e, j, i)
  <2>1. \A c \in 1 .. n : (\A e \in 1 .. n : e < c => Tied(W[e], i, j))
                            <=> \A e \in 1 .. (c - 1) : ~R(e, i, j) /\ ~R(e, j, i)
    BY <1>2, <1>5
  <2> QED
    BY <1>1, <1>3, <2>1
<1> QED
  BY <1>4, <1>6 DEF PartBefore, F, W, n

-----------------------------------------------------------------------------
(* sort_tape.                                                               *)

(* The positions in the order of the keys, and a tape in that order. *)
KeySorted(p, sorted) == InOrder(sorted, PartBefore(p), DOMAIN p.tape)

TapeBy(p, sorted) == [k \in DOMAIN p.tape |-> p.tape[sorted[k]]]

LEMMA SortedPositions ==
  ASSUME part \in Inputs, NEW order, Tells(order, PartBefore(part), DOMAIN part.tape)
  PROVE  KeySorted(part, Sorted(order)) /\ DOMAIN Sorted(order) = DOMAIN part.tape
<1>1. Sorted(order) = SortedBy(order, DOMAIN part.tape)
  BY DEF Sorted, SortedBy
<1>2. /\ Cardinality(DOMAIN part.tape) \in Nat
      /\ DOMAIN part.tape = 0 .. Cardinality(DOMAIN part.tape) - 1
  BY InputFacts
<1>3. Weak(PartBefore(part), DOMAIN part.tape)
  BY PartBeforeWeak
<1>4. InOrder(SortedBy(order, DOMAIN part.tape), PartBefore(part), DOMAIN part.tape)
  BY <1>2, <1>3, SortedInOrder
<1>5. DOMAIN SortedBy(order, DOMAIN part.tape) = DOMAIN part.tape
  BY DEF SortedBy
<1> QED
  BY <1>1, <1>4, <1>5 DEF KeySorted

(* A tape in that order has every row, in its one stable order. *)
LEMMA TapeSorted ==
  ASSUME part \in Inputs, NEW sorted, KeySorted(part, sorted), tape = TapeBy(part, sorted)
  PROVE  SortedStable
<1> DEFINE P == DOMAIN part.tape
<1>1. /\ \A k \in P : sorted[k] \in P
      /\ \A j \in P : \E k \in P : sorted[k] = j
      /\ \A k, l \in P : k < l => <<sorted[k], sorted[l]>> \in Stable(PartBefore(part), P)
  BY DEF KeySorted, InOrder
<1>2. DOMAIN tape = P /\ \A k \in P : tape[k] = part.tape[sorted[k]]
  BY DEF TapeBy
<1>3. {tape[i] : i \in DOMAIN tape} = {part.tape[i] : i \in DOMAIN tape}
  BY <1>1, <1>2
<1>4. ASSUME NEW i \in P, NEW j \in P, i < j
      PROVE  Before(tape[i], tape[j]) \/ (~Before(tape[j], tape[i]) /\ tape[i] < tape[j])
  <2> DEFINE a == sorted[i]
             b == sorted[j]
  <2>1. a \in P /\ b \in P /\ <<a, b>> \in Stable(PartBefore(part), P)
    BY <1>1, <1>4
  <2> HIDE DEF a, b
  <2>2. <<a, b>> \in PartBefore(part) \/ (<<b, a>> \notin PartBefore(part) /\ a < b)
    BY <2>1 DEF Stable
  <2>3. /\ <<a, b>> \in PartBefore(part) <=> Before(part.tape[a], part.tape[b])
        /\ <<b, a>> \in PartBefore(part) <=> Before(part.tape[b], part.tape[a])
    BY <2>1, BeforeIs
  <2>4. a < b => part.tape[a] < part.tape[b]
    BY <2>1, InputFacts
  <2>5. tape[i] = part.tape[a] /\ tape[j] = part.tape[b]
    BY <1>2 DEF a, b
  <2> QED
    BY <2>2, <2>3, <2>4, <2>5
<1> QED
  BY <1>2, <1>3, <1>4 DEF SortedStable

(***************************************************************************)
(* The inductive invariant: what is handed to apply_permutation are the    *)
(* rows of the partition and their order, and it keeps its own invariant.  *)
(***************************************************************************)
Copied == OnKeys /\ keyCols = [c \in Terms |-> ReadColumn(part.cols[c])]

Handed == /\ given.n = Length /\ given.tape = part.tape
          /\ KeySorted(part, given.perm)

Untouched == /\ tape = part.tape /\ given.n = 0
             /\ start = 0 /\ held = 0 /\ slot = 0

SortInv ==
  /\ part \in Inputs
  /\ at \in {"sort", "keys", "scan", "walk", "done"}
  /\ at = "sort" => Untouched /\ keyCols = <<>>
  /\ at = "keys" => Untouched /\ Copied
  /\ at \in {"scan", "walk"} => Copied /\ Handed /\ IInv
  /\ at = "done" => \/ Copied /\ Handed /\ IInv
                    \/ /\ keyCols = <<>> /\ given.n = 0
                       /\ \E sorted : KeySorted(part, sorted) /\ tape = TapeBy(part, sorted)

LEMMA InitIInvNext == PermInit' => IInv'
BY InitIInv, PTL

LEMMA SortInit == Init => SortInv
BY DEF Init, SortInv, Untouched

LEMMA SortByCellsInv ==
  ASSUME SortInv, SortByCells
  PROVE  SortInv'
<1>1. part \in Inputs /\ keyCols = <<>> /\ given.n = 0
  BY DEF SortInv, SortByCells, Untouched
<1>2. KeySorted(part, Sorted(CellOrder))
  BY <1>1, CellOrderTells, SortedPositions
<1>3. tape' = TapeBy(part, Sorted(CellOrder))
  BY DEF SortByCells, ByCells, TapeBy
<1> DEFINE sorted == Sorted(CellOrder)
<1>4. part' = part /\ keyCols' = keyCols /\ given' = given /\ at' = "done"
  BY DEF SortByCells
<1>5. KeySorted(part', sorted) /\ tape' = TapeBy(part', sorted)
  BY <1>2, <1>3, <1>4
<1> HIDE DEF sorted
<1> QED
  BY <1>1, <1>4, <1>5 DEF SortInv

LEMMA ReadKeysInv ==
  ASSUME SortInv, ReadKeys
  PROVE  SortInv'
<1>1. Untouched /\ part \in Inputs
  BY DEF SortInv, ReadKeys
<1>2. Untouched' /\ part' \in Inputs /\ at' = "keys"
  BY <1>1 DEF ReadKeys, Untouched
<1>3. Copied'
  BY DEF ReadKeys, Copied, OnKeys, Length, Terms, ReadColumn
<1> QED
  BY <1>2, <1>3 DEF SortInv

LEMMA SortOnKeysInv ==
  ASSUME SortInv, SortOnKeys
  PROVE  SortInv'
<1>1. Untouched /\ Copied /\ part \in Inputs
  BY DEF SortInv, SortOnKeys
<1> DEFINE sorted == Sorted(KeyOrder)
<1>2. KeySorted(part, sorted) /\ DOMAIN sorted = DOMAIN part.tape
  BY <1>1, KeyOrderTells, SortedPositions DEF Copied
<1>3. /\ perm' = sorted /\ given' = [n |-> Length, tape |-> tape, perm |-> sorted] /\ at' = "scan"
      /\ part' = part /\ keyCols' = keyCols /\ tape' = tape /\ start' = start /\ held' = held /\ slot' = slot
  BY DEF SortOnKeys
<1>4. Length \in Nat /\ Length <= MaxRows /\ DOMAIN part.tape = 0 .. Length - 1
  <2>1. Length \in MinRows .. MaxRows
    BY <1>1 DEF Copied, OnKeys
  <2>2. Length \in Nat /\ DOMAIN part.tape = 0 .. Length - 1
    BY <1>1, InputFacts DEF Length
  <2> QED
    BY <2>1, <2>2, SizesAssumption, PermDoneAssumption
<1>5. sorted \in [0 .. Length - 1 -> 0 .. Length - 1] /\ Injective(sorted, 0 .. Length - 1)
  <2>1. sorted = SortedBy(KeyOrder, DOMAIN part.tape)
    BY DEF Sorted, SortedBy
  <2>2. sorted = [k \in DOMAIN part.tape |-> sorted[k]]
    BY <2>1 DEF SortedBy
  <2> HIDE DEF sorted
  <2>3. /\ \A k \in DOMAIN part.tape : sorted[k] \in DOMAIN part.tape
        /\ \A k, l \in DOMAIN part.tape : sorted[k] = sorted[l] => k = l
    BY <1>2 DEF KeySorted, InOrder
  <2> QED
    BY <1>4, <2>2, <2>3 DEF Injective
<1>6. tape = part.tape /\ part.tape \in [0 .. Length - 1 -> Row] /\ held = 0 /\ start = 0 /\ slot = 0
  <2>1. part.tape \in [0 .. (Cardinality(DOMAIN part.tape) - 1) -> Row]
    BY <1>1, InputsAssumption
  <2> QED
    BY <1>1, <2>1 DEF Untouched, Length
<1> HIDE DEF sorted
<1>7. PermInit'
  <2>1. Length \in 0 .. MaxRows
    BY <1>4, PermDoneAssumption
  <2>2. held' \in Row
    BY <1>3, <1>6, SizesAssumption
  <2>3. given'.n = Length /\ given'.tape = tape /\ given'.perm = sorted
    BY <1>3
  <2> QED
    BY <1>3, <1>5, <1>6, <2>1, <2>2, <2>3 DEF PermInit, IsCall
<1>8. IInv'
  BY <1>7, InitIInvNext
<1>9. Handed'
  <2>1. given'.n = Length /\ given'.tape = part.tape /\ given'.perm = sorted
    BY <1>3, <1>6
  <2>2. Length' = Length
    BY <1>3 DEF Length
  <2>3. KeySorted(part', given'.perm)
    BY <1>2, <1>3, <2>1
  <2> QED
    BY <1>3, <2>1, <2>2, <2>3 DEF Handed
<1>10. Copied'
  BY <1>1, <1>3 DEF Copied, OnKeys, Length, Terms, ReadColumn
<1> QED
  BY <1>1, <1>3, <1>8, <1>9, <1>10 DEF SortInv

LEMMA InPlaceMoveInv ==
  ASSUME SortInv, InPlaceMove
  PROVE  SortInv'
<1>1. at \in {"scan", "walk"} /\ at' \in {"scan", "walk", "done"} /\ given' = given
  BY DEF InPlaceMove, PermNext, Skip, Open, Walk, Close, Return
<1>2. part' = part /\ keyCols' = keyCols
  BY DEF InPlaceMove
<1>3. Copied /\ Handed /\ IInv /\ part \in Inputs
  BY <1>1 DEF SortInv
<1>4. IInv'
  BY <1>3, NextIInv DEF InPlaceMove
<1>5. Copied'
  BY <1>2, <1>3 DEF Copied, OnKeys, Length, Terms, ReadColumn
<1>6. Handed'
  <2>1. Length' = Length
    BY <1>2 DEF Length
  <2>2. KeySorted(part', given'.perm)
    BY <1>1, <1>2, <1>3 DEF Handed
  <2> QED
    BY <1>1, <1>2, <1>3, <2>1, <2>2 DEF Handed
<1> QED
  BY <1>1, <1>2, <1>3, <1>4, <1>5, <1>6 DEF SortInv

LEMMA SortNext == SortInv /\ [Next]_vars => SortInv'
<1> SUFFICES ASSUME SortInv, [Next]_vars PROVE SortInv'
  OBVIOUS
<1>1. CASE UNCHANGED vars
  <2>1. /\ part' = part /\ keyCols' = keyCols /\ given' = given /\ tape' = tape /\ perm' = perm
        /\ start' = start /\ held' = held /\ slot' = slot /\ at' = at
    BY <1>1 DEF vars, permVars
  <2>2. Untouched => Untouched'
    BY <2>1 DEF Untouched
  <2>3. Copied => Copied'
    BY <2>1 DEF Copied, OnKeys, Length, Terms, ReadColumn
  <2>4. Handed => Handed'
    <3>1. Length' = Length
      BY <2>1 DEF Length
    <3>2. KeySorted(part, given.perm) => KeySorted(part', given'.perm)
      BY <2>1
    <3> QED
      BY <2>1, <3>1, <3>2 DEF Handed
  <2>5. IInv => IInv'
    BY <2>1, NextIInv DEF permVars
  <2>6. \A sorted : KeySorted(part, sorted) /\ tape = TapeBy(part, sorted)
                      => KeySorted(part', sorted) /\ tape' = TapeBy(part', sorted)
    BY <2>1
  <2> QED
    BY <2>1, <2>2, <2>3, <2>4, <2>5, <2>6 DEF SortInv
<1> QED
  BY <1>1, SortByCellsInv, ReadKeysInv, SortOnKeysInv, InPlaceMoveInv DEF Next

LEMMA SortInvStable == SortInv => SortedStable
<1> SUFFICES ASSUME SortInv, at = "done" PROVE SortedStable
  BY DEF SortedStable
<1>0. part \in Inputs
  BY DEF SortInv
<1>1. CASE Copied /\ Handed /\ IInv
  <2>1. Applied
    BY <1>1, PassedApplied
  <2>2. Slots = DOMAIN part.tape /\ given.tape = part.tape /\ KeySorted(part, given.perm)
    BY <1>0, <1>1, InputFacts DEF Handed, Slots, Length
  <2>3. tape \in [Slots -> Row]
    BY <1>1 DEF IInv, PermTypeOK
  <2>4. tape = TapeBy(part, given.perm)
    BY <2>1, <2>2, <2>3 DEF Applied, TapeBy
  <2> QED
    BY <1>0, <2>2, <2>4, TapeSorted
<1>2. CASE \E sorted : KeySorted(part, sorted) /\ tape = TapeBy(part, sorted)
  BY <1>0, <1>2, TapeSorted
<1> QED
  BY <1>1, <1>2 DEF SortInv

(***************************************************************************)
(* Whichever path the tape of a partition takes, on copied keys and the    *)
(* permutation in place or through the cells of the store, it comes out    *)
(* with its rows in the one stable order of the keys: "the same total      *)
(* order cmp_cells implements", for every type cell_value has an arm for.  *)
(***************************************************************************)
THEOREM SortExact == Spec => []SortedStable
BY SortInit, SortNext, SortInvStable, PTL DEF Spec

(* No slot of a tape being sorted is written twice, and none that is not permuted. *)
LEMMA SortOnce ==
  ASSUME SortInv, Next
  PROVE  Once
<1>1. CASE InPlaceMove
  <2>1. IInv
    BY <1>1 DEF SortInv, InPlaceMove, PermNext, Skip, Open, Walk, Close, Return
  <2> QED
    BY <1>1, <2>1, NextOnce DEF InPlaceMove
<1>2. CASE SortByCells \/ ReadKeys \/ SortOnKeys
  <2>1. given.n = 0
    BY <1>2 DEF SortInv, Untouched, SortByCells, ReadKeys, SortOnKeys
  <2>2. Slots = {}
    BY <2>1 DEF Slots
  <2> QED
    BY <2>2 DEF Once
<1> QED
  BY <1>1, <1>2 DEF Next

LEMMA SortInvApplied == SortInv => Applied
<1> SUFFICES ASSUME SortInv, at = "done" PROVE Applied
  BY DEF Applied
<1>1. CASE IInv
  BY <1>1, PassedApplied
<1>2. CASE given.n = 0
  <2>1. Slots = {}
    BY <1>2 DEF Slots
  <2> QED
    BY <2>1 DEF Applied
<1> QED
  BY <1>1, <1>2 DEF SortInv

(***************************************************************************)
(* Every permutation the sort makes is applied as apply_permutation says.  *)
(***************************************************************************)
THEOREM SortApplied == Spec => []Applied
BY SortInit, SortNext, SortInvApplied, PTL DEF Spec

(***************************************************************************)
(* And by writing every slot of the tape at most once.                     *)
(***************************************************************************)
THEOREM SortWritesOnce == Spec => WrittenOnce
<1>1. SortInv /\ [Next]_vars => [Once]_permVars
  <2>1. UNCHANGED vars => UNCHANGED permVars
    BY DEF vars, permVars
  <2> QED
    BY <2>1, SortOnce
<1>2. [][Once]_permVars => WrittenOnce
  BY PTL DEF WrittenOnce, Once
<1> QED
  BY SortInit, SortNext, <1>1, <1>2, PTL DEF Spec

LEMMA CopiedFixed ==
  ASSUME part \in Inputs, Copied
  PROVE  \A c \in DOMAIN keyCols :
           \/ keyCols[c].packed
           \/ \A i \in DOMAIN part.tape : keyCols[c].values[i].k \notin {"Str", "List"}
<1> SUFFICES ASSUME NEW c \in Terms, ~keyCols[c].packed, NEW i \in DOMAIN part.tape
             PROVE  keyCols[c].values[i].k \notin {"Str", "List"}
  BY DEF Copied
<1> DEFINE col == part.cols[c]
           v == ValueAt(col, part.tape[i])
<1>1. keyCols[c] = ReadColumn(col)
  BY DEF Copied
<1>2. keyCols[c].values[i] = v
  BY <1>1 DEF ReadColumn
<1>3. IsCell(CellAt(col, part.tape[i]), col.dt)
  BY InputFacts DEF Terms
<1>4. Has(v, col.dt)
  BY <1>3, CellHas
<1>5. FixedWidth(col.dt)
  BY DEF Copied, OnKeys
<1>r. v # Null => IsRaw(CellAt(col, part.tape[i]).raw, col.dt)
  BY <1>3, CellHas
<1> HIDE DEF v, col
<1>6. CASE v = Null
  BY <1>2, <1>6 DEF Null
<1>7. CASE KindOf(v, col.dt)
  <2>1. col.dt.k \notin Texts
    <3> SUFFICES ASSUME col.dt.k \in Texts PROVE FALSE
      OBVIOUS
    <3>1. ScalarTy(col.dt) = Scalar("Varchar")
      BY DEF ScalarTy, Texts, Widened, Spans
    <3>2. Scalar("Varchar").k = "Varchar"
      BY DEF Scalar
    <3> QED
      BY <1>5, <3>1, <3>2 DEF FixedWidth
  <2>2. v.k = KindRead(col.dt)
    BY <1>7 DEF KindOf
  <2>3. Fits(v) /\ v.k # "List"
    BY <1>7 DEF KindOf, Fits
  <2>4. v # Null
    BY <2>3 DEF Fits, Null
  <2>5. col.dt.k \in Ticks \cup {"Boolean", "Float32", "Float64", "IntervalMonthDayNano"}
    BY <1>r, <2>1, <2>4 DEF IsRaw
  <2>6. v.k # "Str"
    BY <2>1, <2>2, <2>5 DEF KindRead, Ticks, Widened, Texts
  <2> QED
    BY <1>2, <2>3, <2>6
<1> QED
  BY <1>4, <1>6, <1>7 DEF Has

(***************************************************************************)
(* Only keys of fixed width are copied, and the permutation keeps its type.*)
(***************************************************************************)
THEOREM SortTyped == Spec => []TypeOK
<1>1. SortInv => TypeOK
  <2> SUFFICES ASSUME SortInv PROVE TypeOK
    OBVIOUS
  <2>1. part \in Inputs /\ at \in {"sort", "keys", "scan", "walk", "done"}
    BY DEF SortInv
  <2>2. at \in {"scan", "walk"} => PermTypeOK
    BY DEF SortInv, IInv
  <2>3. DOMAIN tape = DOMAIN part.tape
    <3>1. CASE IInv /\ Handed
      <4>1. DOMAIN tape = Slots
        BY <3>1 DEF IInv, PermTypeOK
      <4> QED
        BY <2>1, <3>1, <4>1, InputFacts DEF Handed, Slots, Length
    <3>2. CASE Untouched
      BY <3>2 DEF Untouched
    <3>3. CASE \E sorted : tape = TapeBy(part, sorted)
      BY <3>3 DEF TapeBy
    <3> QED
      BY <2>1, <3>1, <3>2, <3>3 DEF SortInv
  <2>4. \A c \in DOMAIN keyCols :
          \/ keyCols[c].packed
          \/ \A i \in DOMAIN part.tape : keyCols[c].values[i].k \notin {"Str", "List"}
    <3>1. CASE Copied
      BY <2>1, <3>1, CopiedFixed
    <3>2. CASE keyCols = <<>>
      BY <3>2
    <3> QED
      BY <2>1, <3>1, <3>2 DEF SortInv
  <2> QED
    BY <2>1, <2>2, <2>3, <2>4 DEF TypeOK
<1> QED
  BY SortInit, SortNext, <1>1, PTL DEF Spec
=============================================================================
