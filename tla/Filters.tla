------------------------------ MODULE Filters -------------------------------
(***************************************************************************)
(* Array.prototype.filter as the managers of a transfer use it.  SelectSeq *)
(* of the standard modules takes the test as an operator, and the provers  *)
(* know nothing of it; here the elements that go are given as a set.       *)
(***************************************************************************)
EXTENDS Integers, Sequences

(* The sequence s without the elements that are in S, in the same order. *)
Dropping(s, S) ==
  LET kept[n \in 0..Len(s)] ==
        IF n = 0 THEN <<>>
        ELSE IF s[n] \in S THEN kept[n - 1]
        ELSE Append(kept[n - 1], s[n])
  IN  kept[Len(s)]
=============================================================================
