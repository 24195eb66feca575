-------------------------------- MODULE Loops --------------------------------
(***************************************************************************)
(* The loops of the programs that copy some members of a list to another   *)
(* one, or erase the others.                                               *)
(***************************************************************************)
EXTENDS Integers, Sequences

(* What a loop over a list pushes back: the members that are in S.         *)
Kept(list, S) ==
  LET kept[i \in 0..Len(list)] ==
        IF i = 0 THEN <<>>
        ELSE kept[i - 1] \o (IF list[i] \in S THEN << list[i] >> ELSE <<>>)
  IN  kept[Len(list)]

=============================================================================
