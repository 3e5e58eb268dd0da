-------------------------------- MODULE Lists --------------------------------
(***************************************************************************)
(* What the program's loops over lists share: taking out of a list, in     *)
(* order, the elements that satisfy a condition.  SelectSeq does the same  *)
(* for a condition given as an operator, of which nothing can be proved;   *)
(* here it is a set.                                                       *)
(***************************************************************************)
EXTENDS Naturals, SequencesExt

\* the elements of list that are in S, in the order of the list
Those(list, S) ==
  LET upTo[n \in 0 .. Len(list)] ==
        IF n = 0 THEN <<>>
        ELSE IF list[n] \in S THEN Append(upTo[n - 1], list[n])
        ELSE upTo[n - 1]
  IN upTo[Len(list)]

\* list.remove(x): every occurrence goes
Without(list, x) == Those(list, ToSet(list) \ {x})
=============================================================================
