--------------------------- MODULE MCCustomerRecord ---------------------------
(***************************************************************************)
(* Instances of CustomerRecord.  No definition tells certificates or       *)
(* requests apart.                                                         *)
(***************************************************************************)
EXTENDS CustomerRecord, TLC

Symmetry == Permutations(Pair) \cup Permutations(Request)
===============================================================================
