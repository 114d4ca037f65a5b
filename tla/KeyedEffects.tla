---------------------------- MODULE KeyedEffects ----------------------------
(***************************************************************************)
(* What lib/client.js promises of an ordered inbox: of the events a        *)
(* consumer is given, in any order and any number of times, each is        *)
(* settled once, and its effects are committed with that if and only if    *)
(* its revision is above all that its key has had effects of.              *)
(***************************************************************************)
EXTENDS Integers

CONSTANTS
    Event,
    KeyOf,      \* the key of each event, or NoKey: then it is only deduplicated
    NoKey,
    Revision    \* of each event within its key

VARIABLES
    settled,    \* events that have been dealt with for good
    applied     \* the ones of them whose effects are committed

vars == <<settled, applied>>

SameKey(e, f) == KeyOf[e] # NoKey /\ KeyOf[e] = KeyOf[f]

Init == settled = {} /\ applied = {}

Apply(e) ==
    /\ e \notin settled
    /\ \A f \in applied : SameKey(e, f) => Revision[f] < Revision[e]
    /\ settled' = settled \union {e}
    /\ applied' = applied \union {e}

Supersede(e) ==
    /\ e \notin settled
    /\ \E f \in applied : SameKey(e, f) /\ Revision[e] <= Revision[f]
    /\ settled' = settled \union {e}
    /\ UNCHANGED applied

Next == \E e \in Event : Apply(e) \/ Supersede(e)

Spec == Init /\ [][Next]_vars
=============================================================================
