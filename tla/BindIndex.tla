------------------------------ MODULE BindIndex ------------------------------
(***************************************************************************)
(* Where each pattern label was last bound (engine/bindindex.rs): for each *)
(* label, the ascending list of the bind indices whose row that label      *)
(* covers.  A bind index is a position of `binds`; this module counts them *)
(* from 1 where the code counts from 0, and 0 stands for the code's None.  *)
(*                                                                         *)
(* The matcher grows and shrinks the index in lockstep with `binds` while  *)
(* it backtracks; the emitter refills it once per match.                   *)
(***************************************************************************)
EXTENDS Integers, Sequences

CONSTANTS
  Var,      (* The primary pattern variables: what a row can be bound to.  *)
  Label,    (* What an expression can name: the variables and the SUBSETs. *)
  Members   (* Members[l] = the variables label l covers.                  *)

ASSUME LabelAssumption ==
  /\ Var \subseteq Label
  /\ Members \in [Label -> SUBSET Var]
  /\ \A v \in Var : Members[v] = {v}

-----------------------------------------------------------------------------

(* LabelSet::covers: the same variable, or a SUBSET that lists it. *)
Covers(label, var) == var \in Members[label]

NoBinds == [l \in Label |-> <<>>]

(* push: append to the list of every label that covers the variable. *)
Push(index, bind_idx, var) ==
  [l \in Label |-> IF Covers(l, var) THEN Append(index[l], bind_idx)
                                     ELSE index[l]]

(* How many entries of an ascending list survive popping its tail while the *)
(* last entry is beyond n; popping stops at the first entry that is not.    *)
Kept(list, n) ==
  CHOOSE k \in 0 .. Len(list) :
    /\ k = 0 \/ list[k] <= n
    /\ \A m \in k + 1 .. Len(list) : list[m] > n

Truncate(index, n) ==
  [l \in Label |-> SubSeq(index[l], 1, Kept(index[l], n))]

(* Mutant: the horizon itself is excluded. *)
LastBeforeStrict(index, label, horizon) ==
  LET list == index[label]
      cut  == Kept(list, horizon - 1)
  IN  IF cut = 0 THEN 0 ELSE list[cut]

(* last_before: the list is ascending, so the entry before the partition    *)
(* point is the greatest one within the horizon.                            *)
LastBefore(index, label, horizon) ==
  LET list == index[label]
      cut  == Kept(list, horizon)
  IN  IF cut = 0 THEN 0 ELSE list[cut]

-----------------------------------------------------------------------------

(* What the index stands for: the answer a backwards scan of the visible    *)
(* binds gives (the fallback of last_bind_labelled), 0 when there is none.  *)
LastByScan(binds, label, horizon) ==
  LET covered == {k \in 1 .. horizon : Covers(label, binds[k].var)}
  IN  IF covered = {} THEN 0
      ELSE CHOOSE k \in covered : \A m \in covered : m <= k

(* The index lists, in ascending order, exactly the covered binds.          *)
Exact(index, binds) ==
  \A l \in Label :
    /\ \A k \in 1 .. Len(index[l]) :
         /\ index[l][k] \in 1 .. Len(binds)
         /\ Covers(l, binds[index[l][k]].var)
    /\ \A k, m \in 1 .. Len(index[l]) : k < m => index[l][k] < index[l][m]
    /\ \A b \in 1 .. Len(binds) :
         Covers(l, binds[b].var) => \E k \in 1 .. Len(index[l]) : index[l][k] = b
=============================================================================
