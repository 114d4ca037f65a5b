--------------------------- MODULE MCUsageRollup ---------------------------
(* Instances of UsageRollup for TLC.                                       *)
EXTENDS UsageRollup, TLC

CONSTANTS c1, c2, f1, f2, k1, k2

(* Failures of two codes in the first two hours; the last one only passes. *)
TwoHoursFail == [h \in 1..3 |-> IF h < 3 THEN {k1, k2} ELSE {}]

Processes == Permutations({c1, c2}) \union Permutations({f1, f2})
=============================================================================
