----------------------------- MODULE MCJsonTree ------------------------------
(* Four blocks of memory, and containers that are full with two entries.   *)
(* Which block malloc chooses makes no difference up to a renaming of the  *)
(* blocks, as they are alike while they are free: so the states may be     *)
(* taken up to a renaming of blocks, and of names.                         *)
EXTENDS JsonTree

Symmetry == Permutations(Values) \cup Permutations(Names)
==============================================================================
