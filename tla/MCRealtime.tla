----------------------------- MODULE MCRealtime -----------------------------
(* Instances of Realtime for TLC: the second row is for services only.     *)
EXTENDS Realtime

AllButSecond == (1..MaxSeq) \ {2}
ByViewer == [v \in {"anonymous", "user", "service"} |->
    CASE v = "anonymous" -> AllButSecond \ {3} [] v = "user" -> AllButSecond [] OTHER -> 1..MaxSeq]
OddPublic == (1..MaxSeq) \ {2, 3}

EveryViewer == {[viewer |-> "anonymous", start |-> 0], [viewer |-> "user", start |-> 1],
                [viewer |-> "service", start |-> NoId]}
=============================================================================
