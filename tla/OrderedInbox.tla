---------------------------- MODULE OrderedInbox ----------------------------
(***************************************************************************)
(* The ordered inbox of a consumer (createPgOrderedInbox in lib/client.js): *)
(* one transaction per event that arrives, which records the receipt, then *)
(* moves the head of the event's key, then runs the consumer's effects.    *)
(* inbox.once, which has the transaction and the receipt, is the SDK's.    *)
(*                                                                         *)
(* PostgreSQL, READ COMMITTED: an INSERT waits for another transaction's   *)
(* uncommitted row of the same primary key, and ON CONFLICT DO UPDATE      *)
(* locks the row it finds, whether its WHERE holds or not, until the       *)
(* transaction ends.                                                       *)
(***************************************************************************)
EXTENDS Integers

CONSTANTS
    Event,      \* events of one consumer
    Key,        \* inbox keys (subjectKey)
    KeyOf,      \* the key of each event, or NoKey for one without a key or a revision
    NoKey,
    Revision,   \* subject.revision
    Handler,    \* transactions that may be open at once
    MaxFails    \* bound: how many transactions fail

ASSUME InboxShape ==
    /\ NoKey \notin Key
    /\ KeyOf \in [Event -> Key \union {NoKey}]
    /\ Revision \in [Event -> Nat]
ASSUME InboxBounds == MaxFails \in Nat

VARIABLES
    receipts,   \* the receipts table: the events it has
    head,       \* the heads table: the revision of each key, NoHead without a row
    applied,    \* the events whose effects are committed
    tx,         \* each handler's transaction
    fails       \* how many failed

vars == <<receipts, head, applied, tx, fails>>

NoHead == -1
Idle == [phase |-> "idle"]
Open == [phase : {"receipt", "head", "apply", "stale"}, event : Event]

(* Transactions that have the receipt of an event, and those that have the *)
(* row of a key's head.                                                    *)
HasReceipt(h, e) == tx[h].phase \in {"head", "apply", "stale"} /\ tx[h].event = e
HasHead(h, k) == tx[h].phase \in {"apply", "stale"} /\ KeyOf[tx[h].event] = k

TypeOK ==
    /\ receipts \subseteq Event
    /\ head \in [Key -> Nat \union {NoHead}]
    /\ applied \subseteq receipts
    /\ tx \in [Handler -> Open \union {Idle}]
    /\ \A h \in Handler : tx[h].phase \in {"head", "stale"} => KeyOf[tx[h].event] \in Key
    /\ fails \in 0..MaxFails

Init ==
    /\ receipts = {}
    /\ head = [k \in Key |-> NoHead]
    /\ applied = {}
    /\ tx = [h \in Handler |-> Idle]
    /\ fails = 0

-----------------------------------------------------------------------------
(* An event arrives: for the first time, again, or late.                   *)
Arrive(h, e) ==
    /\ tx[h].phase = "idle"
    /\ tx' = [tx EXCEPT ![h] = [phase |-> "receipt", event |-> e]]
    /\ UNCHANGED <<receipts, head, applied, fails>>

(* once: INSERT ... ON CONFLICT DO NOTHING.  A duplicate ends here.        *)
Headed(e) == "head"                 \* mutated: an event without a key has a head too
AfterReceipt(e) == IF KeyOf[e] \in Key THEN "head" ELSE "apply"

Receipt(h) ==
    LET e == tx[h].event IN
    /\ tx[h].phase = "receipt"
    /\ \A g \in Handler : ~HasReceipt(g, e)
    /\ tx' = [tx EXCEPT ![h] = IF e \in receipts THEN Idle ELSE [@ EXCEPT !.phase = AfterReceipt(e)]]
    /\ UNCHANGED <<receipts, head, applied, fails>>

(* The upsert, and whether it moved the head.                              *)
MovesAlways(e) == TRUE                                   \* mutated: no WHERE
MovesAlso(e) == head[KeyOf[e]] <= Revision[e]             \* mutated: an equal revision moves it too
Moves(e) == head[KeyOf[e]] < Revision[e]

MoveHead(h) ==
    LET e == tx[h].event IN
    /\ tx[h].phase = "head"
    /\ \A g \in Handler : ~HasHead(g, KeyOf[e])
    /\ tx' = [tx EXCEPT ![h].phase = IF Moves(e) THEN "apply" ELSE "stale"]
    /\ UNCHANGED <<receipts, head, applied, fails>>

(* The effects and the commit; a stale event commits its receipt alone.    *)
Ended(h) == tx' = [tx EXCEPT ![h] = Idle]

Apply(h) ==
    LET e == tx[h].event IN
    /\ tx[h].phase = "apply"
    /\ receipts' = receipts \union {e}
    /\ head' = [k \in Key |-> IF k = KeyOf[e] THEN Revision[e] ELSE head[k]]
    /\ applied' = applied \union {e}
    /\ Ended(h)
    /\ UNCHANGED fails

Refuse(h) ==    \* mutated: a stale event is an error, and rolled back
    /\ tx[h].phase = "stale"
    /\ Ended(h)
    /\ UNCHANGED <<receipts, head, applied, fails>>
Skip(h) ==
    /\ tx[h].phase = "stale"
    /\ receipts' = receipts \union {tx[h].event}
    /\ Ended(h)
    /\ UNCHANGED <<head, applied, fails>>

(* The effects throw, a statement fails or the consumer crashes: nothing   *)
(* of the transaction stays.                                               *)
Fail(h) ==
    /\ tx[h].phase # "idle"
    /\ fails < MaxFails
    /\ fails' = fails + 1
    /\ Ended(h)
    /\ UNCHANGED <<receipts, head, applied>>

-----------------------------------------------------------------------------
Step(h) == Receipt(h) \/ MoveHead(h) \/ Apply(h) \/ Skip(h)

Next == \E h \in Handler :
    \/ \E e \in Event : Arrive(h, e)
    \/ Step(h) \/ Fail(h)

Spec == Init /\ [][Next]_vars

(* Statements end, a waiting statement gets its lock in turn, and an event *)
(* that was not acknowledged is delivered again.                           *)
Fairness ==
    /\ \A h \in Handler : WF_vars(Step(h)) /\ SF_vars(Receipt(h)) /\ SF_vars(MoveHead(h))
    /\ \A e \in Event : SF_vars(e \notin receipts /\ \E h \in Handler : Arrive(h, e))

FairSpec == Spec /\ Fairness

-----------------------------------------------------------------------------
(* "keep, per (consumer, key), the highest subject.revision applied": the  *)
(* head of a key is the highest revision of all its events that were       *)
(* settled, and an event of that revision had effects.                     *)
HeadIsTop == \A k \in Key :
    /\ \A e \in receipts : KeyOf[e] = k => Revision[e] <= head[k]
    /\ head[k] # NoHead => \E e \in applied : KeyOf[e] = k /\ Revision[e] = head[k]

(* "apply records the receipt, then moves the key's head to `revision`     *)
(* only if it is higher than the head, then runs fn(t)": what a consumer   *)
(* sees of redelivered, reordered and concurrent events is KeyedEffects.   *)
Effects == INSTANCE KeyedEffects WITH settled <- receipts
ImplementsEffects == Effects!Spec

(* Every event is settled in the end, whatever fails on the way.           *)
EventuallySettled == \A e \in Event : <>(e \in receipts)
=============================================================================
