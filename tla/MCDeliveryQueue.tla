-------------------------- MODULE MCDeliveryQueue --------------------------
(* Instances of DeliveryQueue for TLC: two workers and two events, of one  *)
(* ordering key `k` or of none, for one subscription.                      *)
EXTENDS DeliveryQueue

CONSTANTS w1, w2, s1, k

KeyedPair == <<k, k>>
FreePair == <<NoKey, NoKey>>
FlatRank == <<1, 1>>
UrgentSecond == <<1, 0>>

OneSubAll == [s \in {s1} |-> Event]
OneAtATime == [s \in {s1} |-> 1]
TwoAtATime == [s \in {s1} |-> 2]
NoWait == <<0>>
OneTick == <<1>>
=============================================================================
