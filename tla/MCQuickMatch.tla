---------------------------- MODULE MCQuickMatch ----------------------------
(* Instances of QuickMatch for TLC; users and rooms have no order.         *)
EXTENDS QuickMatch, TLC

People == Permutations(Users) \cup Permutations(Rooms) \cup Permutations(Flows)
=============================================================================
