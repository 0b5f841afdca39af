------------------------------ MODULE MCRecords -----------------------------
(* Small instances of Records for TLC.                                     *)
EXTENDS Records, TLC

CONSTANTS p1, p2, i1, i2, nameA, nameB, placeholder, f1, f2

Unordered == Permutations(People) \cup Permutations(Ids) \cup Permutations(Flows) \cup Permutations({nameA, nameB})
=============================================================================
