---------------------------- MODULE MCChannelNames ----------------------------
(***************************************************************************)
(* Instances of ChannelNames.  No definition tells objects, display names  *)
(* or prefixes apart.                                                      *)
(***************************************************************************)
EXTENDS ChannelNames, TLC

Numbers == [i \in 1..Most |-> ToString(i)]

Symmetry == Permutations(Object) \cup Permutations(App) \cup Permutations(Prefix)
===============================================================================
