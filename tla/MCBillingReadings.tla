------------------------- MODULE MCBillingReadings -------------------------
(* Instances of BillingReadings for TLC.                                   *)
EXTENDS BillingReadings, TLC

CONSTANTS p1, p2

Processes == Permutations({p1, p2})
=============================================================================
