---------------------------- MODULE MCCustomerView ----------------------------
(***************************************************************************)
(* CustomerView for TLC: the secrets of one application and the            *)
(* certificates of another.  Either has a text that is its name, one text  *)
(* both names contain, and a list of the two names is in neither.  Which   *)
(* group is which does not matter: whatever one may be asked of, so may    *)
(* the other.                                                              *)
(***************************************************************************)
EXTENDS CustomerView, TLC

CONSTANTS first, second

Texts == {"first", "second", "common", "first,second"}

NamedBy ==
    [text \in Texts |-> CASE text = "first" -> {first} [] text = "second" -> {second} [] OTHER -> {}]

Containing == [text \in Texts |-> IF text = "common" THEN {first, second} ELSE NamedBy[text]]

BetweenCommas == [text \in Texts |-> IF text = "first,second" THEN {"first", "second"} ELSE {text}]

Symmetry == Permutations(Group)
===============================================================================
