-------------------------- MODULE ApplyPermutation --------------------------
(***************************************************************************)
(* apply_permutation of plan.rs: rearranges the tape of a partition in     *)
(* place, so that slot i gets the element that perm[i] named, by following *)
(* each cycle of the permutation once.  A slot whose turn has come is      *)
(* marked in the top bit of its perm entry.  Slots count from 0.           *)
(***************************************************************************)
EXTENDS Integers

CONSTANTS
  Row,        \* elements of a tape
  MaxRows,    \* the longest tape permuted
  PermDone    \* PERM_DONE: the mark

ASSUME PermDoneAssumption == PermDone \in Nat /\ MaxRows \in Nat /\ MaxRows <= PermDone

VARIABLES
  given,   \* the call: n, the tape and the permutation as they were
  tape, perm,
  start,   \* the slot the outer loop is at
  held,    \* the element taken out of start
  slot,    \* the slot the inner loop is at
  at       \* "scan" in the outer loop, "walk" in the inner one, "done"

permVars == <<given, tape, perm, start, held, slot, at>>

Slots == 0..(given.n - 1)

Marked(x) == x >= PermDone
Index(x) == IF Marked(x) THEN x - PermDone ELSE x
Mark(x) == IF Marked(x) THEN x ELSE x + PermDone

Injective(p, S) == \A i, j \in S : p[i] = p[j] => i = j

\* The calls sort_tape_on_keys makes: a tape and a permutation of its positions.
IsCall(c) ==
  /\ c.n \in 0..MaxRows
  /\ c.tape \in [0..(c.n - 1) -> Row]
  /\ c.perm \in [0..(c.n - 1) -> 0..(c.n - 1)]
  /\ Injective(c.perm, 0..(c.n - 1))

PermInit ==
  /\ IsCall(given)
  /\ tape = given.tape /\ perm = given.perm
  /\ start = 0 /\ slot = 0
  /\ held \in Row
  /\ at = "scan"

From == Index(perm[slot])

Closed == From = start

Skip ==
  /\ at = "scan" /\ start < given.n
  /\ Marked(perm[start])
  /\ start' = start + 1
  /\ UNCHANGED <<given, tape, perm, held, slot, at>>

\* Mutant: the outer loop enters cycles it has applied.
OpenAnyway ==
  /\ at = "scan" /\ start < given.n
  /\ held' = tape[start] /\ slot' = start /\ at' = "walk"
  /\ UNCHANGED <<given, tape, perm, start>>

Open ==
  /\ at = "scan" /\ start < given.n
  /\ ~Marked(perm[start])
  /\ held' = tape[start] /\ slot' = start /\ at' = "walk"
  /\ UNCHANGED <<given, tape, perm, start>>

Walk ==
  /\ at = "walk" /\ ~Closed
  /\ perm' = [perm EXCEPT ![slot] = Mark(@)]
  /\ tape' = [tape EXCEPT ![slot] = tape[From]]
  /\ slot' = From
  /\ UNCHANGED <<given, start, held, at>>

\* Mutant: what start holds by now is put back, not what it held.
CloseLate ==
  /\ at = "walk" /\ Closed
  /\ perm' = [perm EXCEPT ![slot] = Mark(@)]
  /\ tape' = [tape EXCEPT ![slot] = tape[start]]
  /\ at' = "scan" /\ start' = start + 1
  /\ UNCHANGED <<given, held, slot>>

Close ==
  /\ at = "walk" /\ Closed
  /\ perm' = [perm EXCEPT ![slot] = Mark(@)]
  /\ tape' = [tape EXCEPT ![slot] = held]
  /\ at' = "scan" /\ start' = start + 1
  /\ UNCHANGED <<given, held, slot>>

Return ==
  /\ at = "scan" /\ start = given.n
  /\ at' = "done"
  /\ UNCHANGED <<given, tape, perm, start, held, slot>>

PermNext == Skip \/ Open \/ Walk \/ Close \/ Return

PermSpec == PermInit /\ [][PermNext]_permVars

----------------------------------------------------------------------------
\* Properties.

(***************************************************************************)
(* Type invariant: an entry of perm is a slot, or a slot and the mark.     *)
(***************************************************************************)
PermTypeOK ==
  /\ IsCall(given)
  /\ tape \in [Slots -> Row]
  /\ perm \in [Slots -> Slots \cup {s + PermDone : s \in Slots}]
  /\ start \in 0..given.n
  /\ held \in Row
  /\ at \in {"scan", "walk", "done"}
  /\ at = "walk" => slot \in Slots

(***************************************************************************)
(* When it returns, every slot has the element its perm entry named: what  *)
(* a scatter through a copy of the tape would give.                        *)
(***************************************************************************)
Applied == at = "done" => \A i \in Slots : tape[i] = given.tape[given.perm[i]]

(***************************************************************************)
(* "Following each cycle writes every slot exactly once": a slot that is   *)
(* marked is never written or unmarked, and none is written unmarked.      *)
(***************************************************************************)
WrittenOnce ==
  [][\A i \in Slots : /\ Marked(perm[i]) => tape'[i] = tape[i] /\ perm'[i] = perm[i]
                      /\ tape'[i] # tape[i] => Marked(perm'[i])]_permVars

(***************************************************************************)
(* The inductive invariant.  The unmarked slots are not disturbed yet, and *)
(* no entry of theirs names a marked slot, except the one that will close  *)
(* the cycle; the slot being filled was named by a marked one.             *)
(***************************************************************************)
Undisturbed == \A i \in Slots : IF Marked(perm[i]) THEN tape[i] = given.tape[given.perm[i]]
                                ELSE tape[i] = given.tape[i]
EntriesKept == \A i \in Slots : Index(perm[i]) = given.perm[i]
Passed == \A i \in Slots : i < start => Marked(perm[i])
Closing ==
  \A i \in Slots : (~Marked(perm[i]) /\ Marked(perm[given.perm[i]])) => at = "walk" /\ given.perm[i] = start
Walking ==
  at = "walk" =>
    /\ start < given.n
    /\ held = given.tape[start]
    /\ ~Marked(perm[slot])
    /\ slot # start => /\ Marked(perm[start])
                       /\ \E i \in Slots : Marked(perm[i]) /\ given.perm[i] = slot
Returned == at = "done" => start = given.n

IInv == PermTypeOK /\ EntriesKept /\ Undisturbed /\ Passed /\ Closing /\ Walking /\ Returned
=============================================================================
