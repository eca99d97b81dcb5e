------------------------------ MODULE MCSlotPlan ------------------------------
(***************************************************************************)
(* SlotPlan for TLC.  On a day of ten minutes the half-way place of four   *)
(* customers plays the part of 11 * (1440 / 33), which is 480 and comes    *)
(* out as 479.  Nothing tells requests apart.                              *)
(***************************************************************************)
EXTENDS SlotPlan, TLC

OneRoundsDown == {<<2, 4>>}

Symmetry == Permutations(Request)
===============================================================================
