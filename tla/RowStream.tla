------------------------------ MODULE RowStream ------------------------------
(***************************************************************************)
(* What a finalize stream promises its consumer: the rows of the answer,   *)
(* in order, each exactly once, in batches that are full except the last;  *)
(* an end only after the last row; or an error in place of the rest.       *)
(***************************************************************************)
EXTENDS Naturals, Sequences

CONSTANTS
  Answers,      (* The answers a query may have, sequences of rows.         *)
  BatchRows     (* How many rows a full batch holds, at least one.           *)

VARIABLES
  answer,       (* the rows of this query                                   *)
  delivered,    (* what the consumer has received                           *)
  outcome       (* "open", then "done" or "error"                           *)

vars == <<answer, delivered, outcome>>

Init ==
  /\ answer \in Answers
  /\ delivered = <<>>
  /\ outcome = "open"

Deliver ==
  /\ outcome = "open"
  /\ Len(delivered) < Len(answer)
  /\ \E n \in 1 .. BatchRows :
       /\ n = BatchRows \/ Len(delivered) + n = Len(answer)
       /\ Len(delivered) + n <= Len(answer)
       /\ delivered' = SubSeq(answer, 1, Len(delivered) + n)
  /\ UNCHANGED <<answer, outcome>>

Finish ==
  /\ outcome = "open"
  /\ delivered = answer
  /\ outcome' = "done"
  /\ UNCHANGED <<answer, delivered>>

Fail ==
  /\ outcome = "open"
  /\ outcome' = "error"
  /\ UNCHANGED <<answer, delivered>>

Next == Deliver \/ Finish \/ Fail

SafeSpec == Init /\ [][Next]_vars
Spec == SafeSpec /\ WF_vars(Next)
=============================================================================
