----------------------------- MODULE MCEventLog -----------------------------
(* Instances of EventLog for TLC.                                          *)
EXTENDS EventLog, TLC

CONSTANTS a, b, c, p1, p2, r1

Publishers == Permutations({p1, p2})
(* A pair of one owner with a repeat of half of it, and a sandbox event.   *)
PairRepeatSandbox == {<<a, b>>, <<b>>, <<c>>}
OneBatch == {<<a>>}
PairAndSingle == {<<a, b>>, <<c>>}
=============================================================================
