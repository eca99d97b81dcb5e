------------------------------ MODULE MCAccounts ------------------------------
(***************************************************************************)
(* Instances of Accounts.  Neither accounts nor requests are told apart:   *)
(* the initial states, the actions and the properties treat all alike.     *)
(***************************************************************************)
EXTENDS Accounts, TLC

Symmetry == Permutations(User) \cup Permutations(Request)
===============================================================================
