--------------------------- MODULE ConsumerProofs ---------------------------
(* Theorems about what a consumer has, for every value of the constants:   *)
(* of its ordered inbox (OrderedInbox), and of its stream (Realtime).      *)
EXTENDS OrderedInbox, Realtime, FiniteSetTheorems, SequenceTheorems, WellFoundedInduction, TLAPS

-----------------------------------------------------------------------------
(* A transaction that is not idle has an event, and writing one            *)
(* transaction leaves the others as they are.                              *)
LEMMA OpenFields ==
    ASSUME TypeOK, NEW h \in Handler, tx[h].phase # "idle"
    PROVE  /\ tx[h] \in Open /\ tx[h].event \in Event
           /\ KeyOf[tx[h].event] \in Key \union {NoKey} /\ Revision[tx[h].event] \in Nat
  <1>1. tx[h] \in Open \union {Idle} BY DEF TypeOK
  <1>2. tx[h] # Idle BY DEF Idle
  <1>3. tx[h] \in Open /\ tx[h].event \in Event BY <1>1, <1>2 DEF Open
  <1> QED BY <1>3, InboxShape

LEMMA OneTx ==
    ASSUME TypeOK, NEW h \in Handler, NEW t \in Open \union {Idle},
           t.phase \in {"head", "stale"} => KeyOf[t.event] \in Key,
           tx' = [tx EXCEPT ![h] = t]
    PROVE  /\ tx' \in [Handler -> Open \union {Idle}]
           /\ tx'[h] = t /\ \A g \in Handler \ {h} : tx'[g] = tx[g]
           /\ \A g \in Handler : tx'[g].phase \in {"head", "stale"} => KeyOf[tx'[g].event] \in Key
  <1>1. tx \in [Handler -> Open \union {Idle}] BY DEF TypeOK
  <1>2. tx' \in [Handler -> Open \union {Idle}] /\ tx'[h] = t /\ \A g \in Handler \ {h} : tx'[g] = tx[g]
    BY <1>1
  <1>3. \A g \in Handler : tx[g].phase \in {"head", "stale"} => KeyOf[tx[g].event] \in Key BY DEF TypeOK
  <1> QED BY <1>2, <1>3

LEMMA IdleIsClosed == Idle \in Open \union {Idle} /\ Idle.phase = "idle"
  BY DEF Idle

-----------------------------------------------------------------------------
(* What each step of a transaction does to it, named for the proofs.       *)
LEMMA ArriveTx ==
    ASSUME TypeOK, NEW h \in Handler, NEW e \in Event, Arrive(h, e)
    PROVE  \E t \in Open \union {Idle} : t.phase = "receipt" /\ t.event = e /\ tx' = [tx EXCEPT ![h] = t]
  <1>1. [phase |-> "receipt", event |-> e] \in Open BY DEF Open
  <1> QED BY <1>1 DEF Arrive

LEMMA ReceiptTx ==
    ASSUME TypeOK, NEW h \in Handler, Receipt(h)
    PROVE  \E t \in Open \union {Idle} :
             /\ tx' = [tx EXCEPT ![h] = t]
             /\ \/ tx[h].event \in receipts /\ t = Idle
                \/ /\ tx[h].event \notin receipts /\ t.event = tx[h].event
                   /\ t.phase = IF KeyOf[t.event] \in Key THEN "head" ELSE "apply"
  <1>1. tx[h] \in Open BY OpenFields DEF Receipt
  <1>2. tx \in [Handler -> Open \union {Idle}] BY DEF TypeOK
  <1>3. CASE tx[h].event \in receipts BY <1>3, <1>2 DEF Receipt
  <1>4. CASE tx[h].event \notin receipts
    <2> DEFINE t == [tx[h] EXCEPT !.phase = AfterReceipt(tx[h].event)]
    <2>1. t \in Open /\ t.event = tx[h].event /\ t.phase = AfterReceipt(tx[h].event)
      BY <1>1 DEF Open, AfterReceipt
    <2>2. tx' = [tx EXCEPT ![h] = t] BY <1>4 DEF Receipt
    <2> HIDE DEF t
    <2> QED BY <1>4, <2>1, <2>2 DEF AfterReceipt
  <1> QED BY <1>3, <1>4

LEMMA MoveHeadTx ==
    ASSUME TypeOK, NEW h \in Handler, MoveHead(h)
    PROVE  \E t \in Open \union {Idle} :
             /\ tx' = [tx EXCEPT ![h] = t]
             /\ t.event = tx[h].event /\ KeyOf[t.event] \in Key
             /\ t.phase = IF head[KeyOf[t.event]] < Revision[t.event] THEN "apply" ELSE "stale"
  <1>1. tx[h] \in Open BY OpenFields DEF MoveHead
  <1>2. KeyOf[tx[h].event] \in Key BY DEF MoveHead, TypeOK
  <1> DEFINE t == [tx[h] EXCEPT !.phase = IF Moves(tx[h].event) THEN "apply" ELSE "stale"]
  <1>3. t \in Open /\ t.event = tx[h].event /\ t.phase = IF Moves(tx[h].event) THEN "apply" ELSE "stale"
    BY <1>1 DEF Open
  <1>4. tx' = [tx EXCEPT ![h] = t] BY DEF MoveHead
  <1> HIDE DEF t
  <1> QED BY <1>2, <1>3, <1>4 DEF Moves

-----------------------------------------------------------------------------
(* The invariant: what a transaction found and holds is still so.          *)
Holding(h) == tx[h].phase \in {"head", "apply", "stale"}
Judging(h) == tx[h].phase \in {"apply", "stale"} /\ KeyOf[tx[h].event] \in Key

(* An event whose receipt is being written has none yet, and nobody else   *)
(* is writing it.                                                          *)
ReceiptHeld ==
    /\ \A h \in Handler : Holding(h) => tx[h].event \notin receipts
    /\ \A g, h \in Handler : g # h /\ Holding(g) /\ Holding(h) => tx[g].event # tx[h].event

(* A key's head is judged by one transaction at a time, and it stays as it *)
(* was found until that one ends.                                          *)
HeadHeld ==
    /\ \A g, h \in Handler : g # h /\ Judging(g) /\ Judging(h) => KeyOf[tx[g].event] # KeyOf[tx[h].event]
    /\ \A h \in Handler : Judging(h) =>
         (tx[h].phase = "apply" <=> head[KeyOf[tx[h].event]] < Revision[tx[h].event])

IInv == TypeOK /\ ReceiptHeld /\ HeadHeld /\ HeadIsTop

LEMMA InvInit == Init => IInv
  BY InboxShape, InboxBounds
  DEF Init, IInv, TypeOK, ReceiptHeld, HeadHeld, HeadIsTop, Holding, Judging, Idle, NoHead

(* A step that writes one transaction and nothing else.                    *)
LEMMA InvTx ==
    ASSUME IInv, NEW h \in Handler, NEW t \in Open \union {Idle},
           tx' = [tx EXCEPT ![h] = t], UNCHANGED <<receipts, head, applied>>, fails' \in 0..MaxFails,
           t.phase \in {"head", "apply", "stale"} =>
             /\ t.event \notin receipts
             /\ \A g \in Handler \ {h} : Holding(g) => tx[g].event # t.event,
           t.phase \in {"head", "stale"} => KeyOf[t.event] \in Key,
           t.phase \in {"apply", "stale"} /\ KeyOf[t.event] \in Key =>
             /\ \A g \in Handler \ {h} : Judging(g) => KeyOf[tx[g].event] # KeyOf[t.event]
             /\ t.phase = "apply" <=> head[KeyOf[t.event]] < Revision[t.event]
    PROVE  IInv'
  <1>1. TypeOK BY DEF IInv
  <1>2. /\ tx' \in [Handler -> Open \union {Idle}]
        /\ tx'[h] = t /\ \A g \in Handler \ {h} : tx'[g] = tx[g]
        /\ \A g \in Handler : tx'[g].phase \in {"head", "stale"} => KeyOf[tx'[g].event] \in Key
    BY <1>1, OneTx
  <1>3. TypeOK' BY <1>1, <1>2 DEF TypeOK
  <1>4. ReceiptHeld' BY <1>2 DEF IInv, ReceiptHeld, Holding
  <1>5. HeadHeld' BY <1>2 DEF IInv, HeadHeld, Judging
  <1>6. HeadIsTop' BY DEF IInv, HeadIsTop
  <1> QED BY <1>3, <1>4, <1>5, <1>6 DEF IInv

LEMMA InvEnded ==
    ASSUME IInv, NEW h \in Handler, Ended(h), UNCHANGED <<receipts, head, applied>>, fails' \in 0..MaxFails
    PROVE  IInv'
  BY IdleIsClosed, InvTx DEF Ended

LEMMA InvArrive == ASSUME IInv, NEW h \in Handler, NEW e \in Event, Arrive(h, e) PROVE IInv'
  <1>1. TypeOK /\ UNCHANGED <<receipts, head, applied, fails>> BY DEF IInv, Arrive
  <1>2. fails' \in 0..MaxFails BY <1>1 DEF TypeOK
  <1>3. PICK t \in Open \union {Idle} : t.phase = "receipt" /\ tx' = [tx EXCEPT ![h] = t] BY <1>1, ArriveTx
  <1> QED BY <1>1, <1>2, <1>3, InvTx

LEMMA InvReceipt == ASSUME IInv, NEW h \in Handler, Receipt(h) PROVE IInv'
  <1>1. TypeOK /\ UNCHANGED <<receipts, head, applied, fails>> BY DEF IInv, Receipt
  <1>2. fails' \in 0..MaxFails BY <1>1 DEF TypeOK
  <1>3. PICK t \in Open \union {Idle} :
             /\ tx' = [tx EXCEPT ![h] = t]
             /\ \/ tx[h].event \in receipts /\ t = Idle
                \/ /\ tx[h].event \notin receipts /\ t.event = tx[h].event
                   /\ t.phase = IF KeyOf[t.event] \in Key THEN "head" ELSE "apply"
    BY <1>1, ReceiptTx
  <1>4. CASE t = Idle BY <1>1, <1>2, <1>3, <1>4, IdleIsClosed, InvEnded DEF Ended
  <1>5. CASE t # Idle
    <2>1. t.event = tx[h].event /\ t.event \notin receipts
          /\ t.phase = IF KeyOf[t.event] \in Key THEN "head" ELSE "apply"
      BY <1>3, <1>5
    <2>2. \A g \in Handler \ {h} : Holding(g) => tx[g].event # t.event
      BY <2>1 DEF Receipt, HasReceipt, Holding
    <2> QED BY <1>1, <1>2, <1>3, <2>1, <2>2, InvTx
  <1> QED BY <1>4, <1>5

LEMMA InvMoveHead == ASSUME IInv, NEW h \in Handler, MoveHead(h) PROVE IInv'
  <1>1. TypeOK /\ UNCHANGED <<receipts, head, applied, fails>> BY DEF IInv, MoveHead
  <1>2. fails' \in 0..MaxFails BY <1>1 DEF TypeOK
  <1>3. PICK t \in Open \union {Idle} :
             /\ tx' = [tx EXCEPT ![h] = t]
             /\ t.event = tx[h].event /\ KeyOf[t.event] \in Key
             /\ t.phase = IF head[KeyOf[t.event]] < Revision[t.event] THEN "apply" ELSE "stale"
    BY <1>1, MoveHeadTx
  <1>4. t.event \notin receipts /\ \A g \in Handler \ {h} : Holding(g) => tx[g].event # t.event
    BY <1>3 DEF IInv, ReceiptHeld, Holding, MoveHead
  <1>5. \A g \in Handler \ {h} : Judging(g) => KeyOf[tx[g].event] # KeyOf[t.event]
    BY <1>3 DEF MoveHead, HasHead, Judging
  <1> QED BY <1>1, <1>2, <1>3, <1>4, <1>5, InvTx

(* The transaction that ends is gone; the others are what they were.       *)
LEMMA EndedTx ==
    ASSUME TypeOK, NEW h \in Handler, Ended(h)
    PROVE  /\ tx' \in [Handler -> Open \union {Idle}]
           /\ tx'[h].phase = "idle" /\ \A g \in Handler \ {h} : tx'[g] = tx[g]
           /\ \A g \in Handler : tx'[g].phase \in {"head", "stale"} => KeyOf[tx'[g].event] \in Key
  <1>1. tx' = [tx EXCEPT ![h] = Idle] BY DEF Ended
  <1>2. /\ tx' \in [Handler -> Open \union {Idle}]
        /\ tx'[h] = Idle /\ \A g \in Handler \ {h} : tx'[g] = tx[g]
        /\ \A g \in Handler : tx'[g].phase \in {"head", "stale"} => KeyOf[tx'[g].event] \in Key
    BY <1>1, IdleIsClosed, OneTx
  <1> QED BY <1>2, IdleIsClosed

LEMMA InvApply == ASSUME IInv, NEW h \in Handler, Apply(h) PROVE IInv'
  <1> DEFINE e == tx[h].event
  <1>1. TypeOK /\ tx[h].phase = "apply" /\ Ended(h) BY DEF IInv, Apply
  <1>2. e \in Event /\ Revision[e] \in Nat /\ KeyOf[e] \in Key \union {NoKey} BY <1>1, OpenFields
  <1>3. /\ receipts' = receipts \union {e} /\ applied' = applied \union {e} /\ fails' = fails
        /\ head' = [k \in Key |-> IF k = KeyOf[e] THEN Revision[e] ELSE head[k]]
    BY DEF Apply
  <1>4. /\ tx' \in [Handler -> Open \union {Idle}]
        /\ tx'[h].phase = "idle" /\ \A g \in Handler \ {h} : tx'[g] = tx[g]
        /\ \A g \in Handler : tx'[g].phase \in {"head", "stale"} => KeyOf[tx'[g].event] \in Key
    BY <1>1, EndedTx
  <1>5. TypeOK' BY <1>1, <1>2, <1>3, <1>4 DEF TypeOK
  <1>6. e \notin receipts /\ \A g \in Handler \ {h} : Holding(g) => tx[g].event # e
    BY <1>1 DEF IInv, ReceiptHeld, Holding
  <1>7. ReceiptHeld' BY <1>3, <1>4, <1>6 DEF IInv, ReceiptHeld, Holding
  <1>8. \A g \in Handler \ {h} : Judging(g) => KeyOf[tx[g].event] # KeyOf[e]
    BY <1>1, InboxShape DEF IInv, HeadHeld, Judging
  <1>9. \A g \in Handler \ {h} : Judging(g) => head'[KeyOf[tx[g].event]] = head[KeyOf[tx[g].event]]
    BY <1>3, <1>8 DEF Judging
  <1>10. HeadHeld' BY <1>4, <1>9 DEF IInv, HeadHeld, Judging
  <1>11. HeadIsTop'
    <2> SUFFICES ASSUME NEW k \in Key
                 PROVE  /\ \A f \in receipts' : KeyOf[f] = k => Revision[f] <= head'[k]
                        /\ head'[k] # NoHead => \E f \in applied' : KeyOf[f] = k /\ Revision[f] = head'[k]
      BY DEF HeadIsTop
    <2>1. /\ \A f \in receipts : KeyOf[f] = k => Revision[f] <= head[k]
          /\ head[k] # NoHead => \E f \in applied : KeyOf[f] = k /\ Revision[f] = head[k]
      BY DEF IInv, HeadIsTop
    <2>2. CASE k # KeyOf[e] BY <1>3, <2>1, <2>2
    <2>3. CASE k = KeyOf[e]
      <3>1. head'[k] = Revision[e] BY <1>3, <2>3
      <3>2. head[k] < Revision[e] BY <1>1, <2>3 DEF IInv, HeadHeld, Judging
      <3>3. head[k] \in Int /\ \A f \in receipts : Revision[f] \in Nat
        BY <1>1, InboxShape DEF TypeOK, NoHead
      <3>4. \A f \in receipts' : KeyOf[f] = k => Revision[f] <= head'[k]
        BY <1>2, <1>3, <2>1, <3>1, <3>2, <3>3
      <3> QED BY <1>3, <2>3, <3>1, <3>4
    <2> QED BY <2>2, <2>3
  <1> QED BY <1>5, <1>7, <1>10, <1>11 DEF IInv

LEMMA InvSkip == ASSUME IInv, NEW h \in Handler, Skip(h) PROVE IInv'
  <1> DEFINE e == tx[h].event
  <1>1. TypeOK /\ tx[h].phase = "stale" /\ Ended(h) BY DEF IInv, Skip
  <1>2. e \in Event /\ Revision[e] \in Nat /\ KeyOf[e] \in Key
    BY <1>1, OpenFields DEF TypeOK
  <1>3. receipts' = receipts \union {e} /\ UNCHANGED <<head, applied, fails>> BY DEF Skip
  <1>4. /\ tx' \in [Handler -> Open \union {Idle}]
        /\ tx'[h].phase = "idle" /\ \A g \in Handler \ {h} : tx'[g] = tx[g]
        /\ \A g \in Handler : tx'[g].phase \in {"head", "stale"} => KeyOf[tx'[g].event] \in Key
    BY <1>1, EndedTx
  <1>5. TypeOK' BY <1>1, <1>2, <1>3, <1>4 DEF TypeOK
  <1>6. \A g \in Handler \ {h} : Holding(g) => tx[g].event # e
    BY <1>1 DEF IInv, ReceiptHeld, Holding
  <1>7. ReceiptHeld' BY <1>3, <1>4, <1>6 DEF IInv, ReceiptHeld, Holding
  <1>8. HeadHeld' BY <1>3, <1>4 DEF IInv, HeadHeld, Judging
  <1>9. ~(head[KeyOf[e]] < Revision[e]) BY <1>1, <1>2 DEF IInv, HeadHeld, Judging
  <1>10. head[KeyOf[e]] \in Int BY <1>1, <1>2 DEF TypeOK, NoHead
  <1>11. HeadIsTop' BY <1>2, <1>3, <1>9, <1>10 DEF IInv, HeadIsTop
  <1> QED BY <1>5, <1>7, <1>8, <1>11 DEF IInv

LEMMA InvFail == ASSUME IInv, NEW h \in Handler, Fail(h) PROVE IInv'
  <1>1. fails \in 0..MaxFails BY DEF IInv, TypeOK
  <1>2. fails' \in 0..MaxFails BY <1>1, InboxBounds DEF Fail
  <1> QED BY <1>2, InvEnded DEF Fail

LEMMA InvNext == IInv /\ [Next]_vars => IInv'
  <1> SUFFICES ASSUME IInv, [Next]_vars PROVE IInv' OBVIOUS
  <1>1. ASSUME NEW h \in Handler, NEW e \in Event, Arrive(h, e) PROVE IInv' BY <1>1, InvArrive
  <1>2. ASSUME NEW h \in Handler, Step(h) PROVE IInv'
    BY <1>2, InvReceipt, InvMoveHead, InvApply, InvSkip DEF Step
  <1>3. ASSUME NEW h \in Handler, Fail(h) PROVE IInv' BY <1>3, InvFail
  <1>4. CASE UNCHANGED vars
    BY <1>4 DEF vars, IInv, TypeOK, ReceiptHeld, HeadHeld, HeadIsTop, Holding, Judging
  <1> QED BY <1>1, <1>2, <1>3, <1>4 DEF Next

THEOREM Invariance == Spec => []IInv
  <1> QED BY InvInit, InvNext, PTL DEF Spec

-----------------------------------------------------------------------------
(* Every reachable state of the inbox is well typed, and what has effects  *)
(* has a receipt, for any consumers, events, keys and revisions.           *)
THEOREM TypeCorrect == Spec => []TypeOK
  <1>1. IInv => TypeOK BY DEF IInv
  <1> QED BY <1>1, Invariance, PTL

(* The head of a key is the highest revision of its settled events, and    *)
(* one of those had effects, however many transactions run at once.        *)
THEOREM HeadCorrect == Spec => []HeadIsTop
  <1>1. IInv => HeadIsTop BY DEF IInv
  <1> QED BY <1>1, Invariance, PTL

-----------------------------------------------------------------------------
(* Refinement: a commit is a step of KeyedEffects, all else a stutter.     *)
LEMMA EffectsApply == ASSUME IInv, NEW h \in Handler, Apply(h) PROVE Effects!Next
  <1> DEFINE e == tx[h].event
  <1>1. TypeOK /\ tx[h].phase = "apply" BY DEF IInv, Apply
  <1>2. e \in Event BY <1>1, OpenFields
  <1>3. e \notin receipts BY <1>1 DEF IInv, ReceiptHeld, Holding
  <1>4. ASSUME NEW f \in applied, Effects!SameKey(e, f) PROVE Revision[f] < Revision[e]
    <2>1. KeyOf[e] \in Key /\ KeyOf[f] = KeyOf[e] BY <1>2, <1>4, InboxShape DEF Effects!SameKey
    <2>2. head[KeyOf[e]] < Revision[e] BY <1>1, <2>1 DEF IInv, HeadHeld, Judging
    <2>3. f \in receipts /\ f \in Event BY <1>1 DEF TypeOK
    <2>4. Revision[f] <= head[KeyOf[e]] BY <2>1, <2>3 DEF IInv, HeadIsTop
    <2>5. head[KeyOf[e]] \in Int /\ Revision[e] \in Int /\ Revision[f] \in Int
      BY <1>1, <1>2, <2>1, <2>3, InboxShape DEF TypeOK, NoHead
    <2> QED BY <2>2, <2>4, <2>5
  <1>5. receipts' = receipts \union {e} /\ applied' = applied \union {e} BY DEF Apply
  <1>6. Effects!Apply(e) BY <1>3, <1>4, <1>5 DEF Effects!Apply
  <1> QED BY <1>2, <1>6 DEF Effects!Next

LEMMA EffectsSkip == ASSUME IInv, NEW h \in Handler, Skip(h) PROVE Effects!Next
  <1> DEFINE e == tx[h].event
  <1>1. TypeOK /\ tx[h].phase = "stale" BY DEF IInv, Skip
  <1>2. e \in Event /\ KeyOf[e] \in Key /\ Revision[e] \in Nat BY <1>1, OpenFields DEF TypeOK
  <1>3. e \notin receipts BY <1>1 DEF IInv, ReceiptHeld, Holding
  <1>4. ~(head[KeyOf[e]] < Revision[e]) BY <1>1, <1>2 DEF IInv, HeadHeld, Judging
  <1>5. head[KeyOf[e]] \in Nat \union {NoHead} BY <1>1, <1>2 DEF TypeOK
  <1>6. head[KeyOf[e]] # NoHead BY <1>2, <1>4, <1>5 DEF NoHead
  <1>7. PICK f \in applied : KeyOf[f] = KeyOf[e] /\ Revision[f] = head[KeyOf[e]]
    BY <1>2, <1>6 DEF IInv, HeadIsTop
  <1>8. Effects!SameKey(e, f) BY <1>2, <1>7, InboxShape DEF Effects!SameKey
  <1>9. Revision[e] <= Revision[f] BY <1>2, <1>4, <1>5, <1>6, <1>7
  <1>10. receipts' = receipts \union {e} /\ UNCHANGED applied BY DEF Skip
  <1>11. Effects!Supersede(e) BY <1>3, <1>8, <1>9, <1>10 DEF Effects!Supersede
  <1> QED BY <1>2, <1>11 DEF Effects!Next

LEMMA EffectsNext == IInv /\ [Next]_vars => [Effects!Next]_<<receipts, applied>>
  <1> SUFFICES ASSUME IInv, [Next]_vars PROVE [Effects!Next]_<<receipts, applied>> OBVIOUS
  <1>1. ASSUME NEW h \in Handler, Apply(h) PROVE Effects!Next BY <1>1, EffectsApply
  <1>2. ASSUME NEW h \in Handler, Skip(h) PROVE Effects!Next BY <1>2, EffectsSkip
  <1>3. ASSUME NEW h \in Handler, Receipt(h) \/ MoveHead(h) \/ Fail(h) PROVE UNCHANGED <<receipts, applied>>
    BY <1>3 DEF Receipt, MoveHead, Fail
  <1>4. ASSUME NEW h \in Handler, NEW e \in Event, Arrive(h, e) PROVE UNCHANGED <<receipts, applied>>
    BY <1>4 DEF Arrive
  <1>5. CASE UNCHANGED vars BY <1>5 DEF vars
  <1> QED BY <1>1, <1>2, <1>3, <1>4, <1>5 DEF Next, Step

(* The inbox is the abstract one: of events that are redelivered,          *)
(* reordered and handled at once, each is settled once, and has effects if *)
(* and only if its revision is above all its key has had effects of.       *)
THEOREM Refinement == Spec => ImplementsEffects
  <1>1. Init => Effects!Init BY DEF Init, Effects!Init
  <1>2. IInv /\ [Next]_vars => [Effects!Next]_Effects!vars BY EffectsNext DEF Effects!vars
  <1> QED BY <1>1, <1>2, Invariance, PTL DEF Spec, ImplementsEffects, Effects!Spec

-----------------------------------------------------------------------------
(* The stream.  What messages tell of, and of which rows they are events;  *)
(* and that with `known` they pay what is owed: no event goes out before   *)
(* the earlier ones that are owed.                                         *)
All(w) == UNION {w[i].rows : i \in DOMAIN w}
UpTo(w, i) == UNION {w[j].rows : j \in 1..i}
Events(w) == UNION {w[i].rows : i \in {j \in DOMAIN w : w[j].kind = "event"}}
Pays(w, known, owed) == \A i \in DOMAIN w : w[i].kind = "event" =>
    \A n \in w[i].rows, m \in owed : m <= n => m \in known \union UpTo(w, i)
Singles(w, rows) == \A i \in DOMAIN w : w[i].kind = "event" => \E n \in rows : w[i].rows = {n}

(* The rows the stream owes the client: those after its first position or, *)
(* without one, after the first row it is sent.  A stream may go on from   *)
(* what it reached of them.                                                *)
OwedOf(rows, start, came, latest) ==
    {n \in rows : IF start # NoId THEN start < n
                  ELSE IF came = {} THEN latest < n
                  ELSE \E g \in came : g < n}
ReachedOf(start, came, latest, at) ==
    start # NoId \/ (came = {} /\ latest <= at) \/ (\E g \in came : g <= at)

Has == got \union told \union late
Came == got \union Events(wire)
Owed == OwedOf(Visible \intersect Retained, client.start, Came, conn.latest)
Reached(at) == ReachedOf(client.start, Came, conn.latest, at)

(* What the client has, as an id to come back with.                        *)
IdOK ==
    /\ got \subseteq 1..counter
    /\ IF client.start = NoId THEN (IF lastId = NoId THEN got = {} ELSE lastId \in got)
       ELSE lastId = client.start \/ lastId \in got
    /\ Singles(wire, 1..counter)

(* What was not published before a later row is late.                      *)
LateOK == \A n \in announced : \A m \in 1..(n - 1) : m \in announced \/ m \in late

(* Where a connection is.                                                  *)
AfterLatest(c) == c.phase \in {"oldest", "empty", "window", "scan", "reply"}
ConnOK ==
    /\ conn.phase \in {"closed", "head", "latest", "oldest", "empty"} => wire = <<>>
    /\ conn.phase # "live" => Events(wire) = {}
    /\ conn.phase = "head" => lastId = NoId /\ conn.rows = {}
    /\ conn.phase \in {"latest", "oldest", "empty"} => lastId # NoId /\ conn.last = lastId
    /\ AfterLatest(conn) => conn.latest <= counter /\ (lastId \in got => lastId <= conn.latest)
    /\ conn.phase \in {"window", "scan"} => lastId # NoId /\ conn.at <= counter /\ Reached(conn.at)
    /\ conn.phase = "scan" => conn.from <= counter + 1
    /\ conn.phase = "reply" =>
          /\ conn.scanned <= counter /\ Reached(conn.latest) /\ (lastId = NoId => conn.rows = {})
          /\ \A n \in conn.rows : n <= conn.scanned /\ Reached(n)
    /\ conn.phase = "live" => conn.last <= counter /\ Reached(conn.last)

(* What waits while a connection catches up is all that was published      *)
(* beyond the head it read; what was published is not beyond what a live   *)
(* one was sent.                                                           *)
WaitOK ==
    /\ \A i \in DOMAIN conn.pending : conn.pending[i] \in announced \intersect Visible
    /\ \A i, j \in DOMAIN conn.pending : j < i =>
          conn.pending[j] # conn.pending[i] /\ (conn.pending[j] > conn.pending[i] => conn.pending[i] \in late)
    /\ AfterLatest(conn) => \A n \in announced \intersect Visible : n > conn.latest => n \in Range(conn.pending)
    /\ conn.phase = "live" => \A n \in announced \intersect Visible : n <= conn.last

(* Up to where the client has, or is sent, all it is owed.                 *)
AccountsOf(c, w, last, has, owed) ==
    /\ last # NoId => \A n \in owed : n <= last => n \in has
    /\ Pays(w, has, owed)
    /\ c.phase = "window" => \A n \in owed : n <= c.at => n \in has \union All(w)
    /\ c.phase = "scan" => \A n \in owed : n <= c.at \/ n < c.from => n \in has \union All(w)
    /\ c.phase = "reply" => \A n \in owed : n <= c.scanned => n \in has \union All(w) \union c.rows
    /\ c.phase = "live" => \A n \in owed : n <= c.last => n \in has \union All(w)
AccountsOK == AccountsOf(conn, wire, lastId, Has, Owed)

StreamInv == StreamTypeOK /\ IdOK /\ LateOK /\ ConnOK /\ WaitOK /\ AccountsOK

-----------------------------------------------------------------------------
(* Messages one after the other.                                           *)
LEMMA ConcatTells ==
    ASSUME NEW w \in Seq(Message), NEW x \in Seq(Message)
    PROVE  /\ w \o x \in Seq(Message)
           /\ All(w \o x) = All(w) \union All(x) /\ Events(w \o x) = Events(w) \union Events(x)
           /\ \A i \in DOMAIN w : (w \o x)[i] = w[i] /\ UpTo(w \o x, i) = UpTo(w, i)
           /\ \A i \in DOMAIN x : (w \o x)[Len(w) + i] = x[i]
                                  /\ UpTo(w \o x, Len(w) + i) = All(w) \union UpTo(x, i)
           /\ \A i \in DOMAIN (w \o x) : i \in DOMAIN w \/ \E j \in DOMAIN x : i = Len(w) + j
  <1> DEFINE z == w \o x
  <1>1. /\ z \in Seq(Message) /\ Len(z) = Len(w) + Len(x) /\ Len(w) \in Nat /\ Len(x) \in Nat
        /\ DOMAIN w = 1..Len(w) /\ DOMAIN x = 1..Len(x) /\ DOMAIN z = 1..(Len(w) + Len(x))
        /\ \A i \in 1..Len(w) : z[i] = w[i]
        /\ \A i \in 1..Len(x) : z[Len(w) + i] = x[i]
    OBVIOUS
  <1> HIDE DEF z
  <1>2. \A i \in DOMAIN z : i \in DOMAIN w \/ \E j \in DOMAIN x : i = Len(w) + j
    <2> SUFFICES ASSUME NEW i \in DOMAIN z, i \notin DOMAIN w PROVE \E j \in DOMAIN x : i = Len(w) + j
      OBVIOUS
    <2>1. i - Len(w) \in DOMAIN x /\ i = Len(w) + (i - Len(w)) BY <1>1
    <2> QED BY <2>1
  <1>3. \A i \in DOMAIN w : i \in DOMAIN z BY <1>1
  <1>4. \A i \in DOMAIN x : Len(w) + i \in DOMAIN z BY <1>1
  <1>5. All(z) = All(w) \union All(x)
    BY <1>1, <1>2, <1>3, <1>4 DEF All
  <1>6. Events(z) = Events(w) \union Events(x)
    BY <1>1, <1>2, <1>3, <1>4 DEF Events
  <1>7. ASSUME NEW i \in DOMAIN w PROVE UpTo(z, i) = UpTo(w, i)
    <2>1. \A j \in 1..i : z[j] = w[j] BY <1>1
    <2> QED BY <2>1 DEF UpTo
  <1>8. ASSUME NEW i \in DOMAIN x PROVE UpTo(z, Len(w) + i) = All(w) \union UpTo(x, i)
    <2>1. \A j \in 1..(Len(w) + i) : (j \in DOMAIN w /\ z[j] = w[j])
                                     \/ \E k \in 1..i : j = Len(w) + k /\ z[j] = x[k]
      <3> SUFFICES ASSUME NEW j \in 1..(Len(w) + i), j \notin DOMAIN w
                   PROVE  \E k \in 1..i : j = Len(w) + k /\ z[j] = x[k]
        BY <1>1
      <3>1. j - Len(w) \in 1..i /\ j - Len(w) \in 1..Len(x) /\ j = Len(w) + (j - Len(w)) BY <1>1
      <3> QED BY <3>1, <1>1
    <2>2. \A j \in DOMAIN w : j \in 1..(Len(w) + i) /\ z[j] = w[j] BY <1>1
    <2>3. \A k \in 1..i : Len(w) + k \in 1..(Len(w) + i) /\ z[Len(w) + k] = x[k] BY <1>1
    <2>4. UpTo(z, Len(w) + i) \subseteq All(w) \union UpTo(x, i) BY <2>1 DEF UpTo, All
    <2>5. All(w) \subseteq UpTo(z, Len(w) + i) BY <2>2 DEF UpTo, All
    <2>6. UpTo(x, i) \subseteq UpTo(z, Len(w) + i) BY <2>3 DEF UpTo
    <2> QED BY <2>4, <2>5, <2>6
  <1> QED BY <1>1, <1>2, <1>5, <1>6, <1>7, <1>8 DEF z

LEMMA ConcatPays ==
    ASSUME NEW w \in Seq(Message), NEW x \in Seq(Message), NEW known, NEW owed,
           Pays(w, known, owed), Pays(x, known \union All(w), owed)
    PROVE  Pays(w \o x, known, owed)
  <1> DEFINE z == w \o x
  <1>1. /\ \A i \in DOMAIN w : z[i] = w[i] /\ UpTo(z, i) = UpTo(w, i)
        /\ \A i \in DOMAIN x : z[Len(w) + i] = x[i] /\ UpTo(z, Len(w) + i) = All(w) \union UpTo(x, i)
        /\ \A i \in DOMAIN z : i \in DOMAIN w \/ \E j \in DOMAIN x : i = Len(w) + j
    BY ConcatTells
  <1> HIDE DEF z
  <1>2. SUFFICES ASSUME NEW i \in DOMAIN z, z[i].kind = "event", NEW n \in z[i].rows, NEW m \in owed, m <= n
                 PROVE  m \in known \union UpTo(z, i)
    BY DEF Pays, z
  <1>3. CASE i \in DOMAIN w BY <1>1, <1>2, <1>3 DEF Pays
  <1>4. CASE \E j \in DOMAIN x : i = Len(w) + j
    <2>1. PICK j \in DOMAIN x : i = Len(w) + j BY <1>4
    <2>2. m \in (known \union All(w)) \union UpTo(x, j) BY <1>1, <1>2, <2>1 DEF Pays
    <2> QED BY <1>1, <2>1, <2>2
  <1> QED BY <1>1, <1>3, <1>4

LEMMA ConcatSingles ==
    ASSUME NEW w \in Seq(Message), NEW x \in Seq(Message), NEW rows, Singles(w, rows), Singles(x, rows)
    PROVE  Singles(w \o x, rows)
  <1> DEFINE z == w \o x
  <1>1. /\ \A i \in DOMAIN w : z[i] = w[i]
        /\ \A i \in DOMAIN x : z[Len(w) + i] = x[i]
        /\ \A i \in DOMAIN z : i \in DOMAIN w \/ \E j \in DOMAIN x : i = Len(w) + j
    BY ConcatTells
  <1> HIDE DEF z
  <1>2. SUFFICES ASSUME NEW i \in DOMAIN z, z[i].kind = "event" PROVE \E n \in rows : z[i].rows = {n}
    BY DEF Singles, z
  <1>3. CASE i \in DOMAIN w BY <1>1, <1>2, <1>3 DEF Singles
  <1>4. CASE \E j \in DOMAIN x : i = Len(w) + j
    <2>1. PICK j \in DOMAIN x : i = Len(w) + j BY <1>4
    <2> QED BY <1>1, <1>2, <2>1 DEF Singles
  <1> QED BY <1>1, <1>3, <1>4

LEMMA PaysMore ==
    ASSUME NEW w, NEW known, NEW owed, NEW more, NEW less, Pays(w, known, owed),
           known \subseteq more, less \subseteq owed
    PROVE  Pays(w, more, less)
  BY DEF Pays

LEMMA NoMessages ==
    ASSUME NEW known, NEW owed, NEW rows
    PROVE  /\ <<>> \in Seq(Message) /\ All(<<>>) = {} /\ Events(<<>>) = {}
           /\ Pays(<<>>, known, owed) /\ Singles(<<>>, rows)
  BY DEF All, Events, Pays, Singles

LEMMA OneMessage ==
    ASSUME NEW m \in Message
    PROVE  /\ <<m>> \in Seq(Message) /\ DOMAIN <<m>> = {1} /\ <<m>>[1] = m
           /\ All(<<m>>) = m.rows /\ UpTo(<<m>>, 1) = m.rows
           /\ Events(<<m>>) = IF m.kind = "event" THEN m.rows ELSE {}
  <1> DEFINE w == <<m>>
  <1>1. w \in Seq(Message) /\ DOMAIN w = {1} /\ w[1] = m /\ 1..1 = {1} OBVIOUS
  <1> HIDE DEF w
  <1>2. All(w) = m.rows /\ UpTo(w, 1) = m.rows BY <1>1 DEF All, UpTo
  <1>3. Events(w) = IF m.kind = "event" THEN m.rows ELSE {} BY <1>1 DEF Events
  <1> QED BY <1>1, <1>2, <1>3 DEF w

LEMMA GapTells ==
    ASSUME NEW from \in Nat, NEW to \in Int, NEW known, NEW owed, NEW rows
    PROVE  /\ Gap(from, to) \in Message /\ <<Gap(from, to)>> \in Seq(Message)
           /\ All(<<Gap(from, to)>>) = from..to /\ Events(<<Gap(from, to)>>) = {}
           /\ Pays(<<Gap(from, to)>>, known, owed) /\ Singles(<<Gap(from, to)>>, rows)
  <1> DEFINE g == Gap(from, to)
  <1>1. g \in Message /\ g.kind = "gap" /\ g.rows = from..to BY DEF Message, Gap
  <1> HIDE DEF g
  <1>2. <<g>> \in Seq(Message) /\ DOMAIN <<g>> = {1} /\ <<g>>[1] = g /\ All(<<g>>) = g.rows /\ Events(<<g>>) = {}
    BY <1>1, OneMessage
  <1>3. Pays(<<g>>, known, owed) /\ Singles(<<g>>, rows) BY <1>1, <1>2 DEF Pays, Singles
  <1> QED BY <1>1, <1>2, <1>3 DEF g

LEMMA FrameTells ==
    ASSUME NEW n \in Nat, NEW known, NEW owed, \A m \in owed : m <= n => m \in known \union {n}
    PROVE  /\ Frame(n) \in Message /\ Frame(n).rows = {n} /\ <<Frame(n)>> \in Seq(Message)
           /\ All(<<Frame(n)>>) = {n} /\ Events(<<Frame(n)>>) = {n}
           /\ Pays(<<Frame(n)>>, known, owed)
  <1> DEFINE g == Frame(n)
  <1>1. g \in Message /\ g.kind = "event" /\ g.rows = {n} BY DEF Message, Frame
  <1> HIDE DEF g
  <1>2. /\ <<g>> \in Seq(Message) /\ DOMAIN <<g>> = {1} /\ <<g>>[1] = g /\ All(<<g>>) = {n} /\ Events(<<g>>) = {n}
        /\ UpTo(<<g>>, 1) = {n}
    BY <1>1, OneMessage
  <1>3. Pays(<<g>>, known, owed) BY <1>1, <1>2 DEF Pays
  <1> QED BY <1>1, <1>2, <1>3 DEF g

LEMMA FirstTells ==
    ASSUME NEW w \in Seq(Message), w # <<>>, NEW known, NEW owed, Pays(w, known, owed)
    PROVE  /\ Head(w) \in Message /\ Head(w) = w[1] /\ 1 \in DOMAIN w /\ Tail(w) \in Seq(Message)
           /\ \A i \in DOMAIN Tail(w) : i + 1 \in DOMAIN w /\ Tail(w)[i] = w[i + 1]
           /\ All(w) = Head(w).rows \union All(Tail(w))
           /\ Events(w) = (IF Head(w).kind = "event" THEN Head(w).rows ELSE {}) \union Events(Tail(w))
           /\ Head(w).kind = "event" => \A n \in Head(w).rows, m \in owed : m <= n => m \in known \union Head(w).rows
           /\ Pays(Tail(w), known \union Head(w).rows, owed)
  <1> DEFINE x == Tail(w)  h == Head(w)
  <1>1. /\ h \in Message /\ h = w[1] /\ 1 \in DOMAIN w /\ x \in Seq(Message)
        /\ Len(w) \in Nat /\ DOMAIN w = 1..Len(w) /\ DOMAIN x = 1..(Len(w) - 1)
        /\ \A i \in DOMAIN x : i + 1 \in DOMAIN w /\ x[i] = w[i + 1]
    OBVIOUS
  <1> HIDE DEF x, h
  <1>2. \A i \in DOMAIN w : i = 1 \/ (i - 1 \in DOMAIN x /\ w[i] = x[i - 1])
    BY <1>1
  <1>3. All(w) = h.rows \union All(x)
    <2>1. All(w) \subseteq h.rows \union All(x) BY <1>1, <1>2 DEF All
    <2>2. h.rows \union All(x) \subseteq All(w) BY <1>1 DEF All
    <2> QED BY <2>1, <2>2
  <1>4. Events(w) = (IF h.kind = "event" THEN h.rows ELSE {}) \union Events(x)
    <2>1. Events(w) \subseteq (IF h.kind = "event" THEN h.rows ELSE {}) \union Events(x) BY <1>1, <1>2 DEF Events
    <2>2. (IF h.kind = "event" THEN h.rows ELSE {}) \union Events(x) \subseteq Events(w) BY <1>1 DEF Events
    <2> QED BY <2>1, <2>2
  <1>5. UpTo(w, 1) = h.rows
    <2>1. 1..1 = {1} OBVIOUS
    <2> QED BY <1>1, <2>1 DEF UpTo
  <1>6. h.kind = "event" => \A n \in h.rows, m \in owed : m <= n => m \in known \union h.rows
    BY <1>1, <1>5 DEF Pays
  <1>7. ASSUME NEW i \in DOMAIN x PROVE UpTo(w, i + 1) = h.rows \union UpTo(x, i)
    <2>1. \A j \in 1..(i + 1) : j = 1 \/ (j - 1 \in 1..i /\ w[j] = x[j - 1]) BY <1>1
    <2>2. 1 \in 1..(i + 1) /\ \A j \in 1..i : j + 1 \in 1..(i + 1) /\ w[j + 1] = x[j] BY <1>1
    <2>3. UpTo(w, i + 1) \subseteq h.rows \union UpTo(x, i) BY <1>1, <2>1 DEF UpTo
    <2>4. h.rows \union UpTo(x, i) \subseteq UpTo(w, i + 1) BY <1>1, <2>2 DEF UpTo
    <2> QED BY <2>3, <2>4
  <1>8. Pays(x, known \union h.rows, owed)
    <2> SUFFICES ASSUME NEW i \in DOMAIN x, x[i].kind = "event", NEW n \in x[i].rows, NEW m \in owed, m <= n
                 PROVE  m \in (known \union h.rows) \union UpTo(x, i)
      BY DEF Pays
    <2>1. i + 1 \in DOMAIN w /\ w[i + 1] = x[i] BY <1>1
    <2>2. m \in known \union UpTo(w, i + 1) BY <2>1 DEF Pays
    <2> QED BY <2>2, <1>7
  <1> QED BY <1>1, <1>3, <1>4, <1>6, <1>8 DEF x, h

(* Rows sent in order.                                                     *)
LEMMA RowsAreFinite ==
    Row \subseteq Nat \ {0} /\ \A s \in SUBSET Row : IsFiniteSet(s)
  <1>1. Row \subseteq Nat \ {0} /\ IsFiniteSet(Row) BY StreamBounds, FS_Interval DEF Row
  <1> QED BY <1>1, FS_Subset

LEMMA FramesTell ==
    ASSUME NEW rows \in SUBSET Row, NEW s \in InOrder(rows), NEW known, NEW owed, owed \subseteq Nat,
           \A n \in rows, m \in owed : m <= n => m \in known \union rows
    PROVE  /\ Frames(s) \in Seq(Message) /\ All(Frames(s)) = rows /\ Events(Frames(s)) = rows
           /\ Singles(Frames(s), rows)
           /\ Pays(Frames(s), known, owed)
  <1>1. /\ Cardinality(rows) \in Nat /\ rows \subseteq Nat
    BY RowsAreFinite, FS_CardinalityType
  <1>2. /\ s \in [1..Cardinality(rows) -> rows] /\ (\A n \in rows : \E i \in DOMAIN s : s[i] = n)
        /\ \A i, j \in DOMAIN s : i < j => s[i] < s[j]
    BY DEF InOrder, Range
  <1>3. s \in Seq(rows) /\ Len(s) = Cardinality(rows) /\ DOMAIN s = 1..Len(s) /\ Len(s) \in Nat
    BY <1>1, <1>2
  <1> DEFINE w == Frames(s)
  <1>4. DOMAIN w = 1..Len(s) /\ \A i \in 1..Len(s) : w[i] = Frame(s[i])
    BY DEF Frames
  <1>5. \A i \in 1..Len(s) : /\ s[i] \in rows /\ Frame(s[i]) \in Message
                             /\ Frame(s[i]).kind = "event" /\ Frame(s[i]).rows = {s[i]}
    BY <1>1, <1>2, <1>3 DEF Message, Frame
  <1>6. w \in Seq(Message) BY <1>3, <1>5 DEF Frames
  <1> HIDE DEF w
  <1>7. All(w) = rows
    <2>1. \A i \in DOMAIN w : w[i].rows = {s[i]} /\ s[i] \in rows BY <1>4, <1>5
    <2>3. All(w) \subseteq rows BY <2>1 DEF All
    <2>2. rows \subseteq All(w) BY <1>2, <1>3, <1>4, <1>5 DEF All
    <2> QED BY <2>2, <2>3
  <1>8. Events(w) = rows
    <2>1. \A i \in DOMAIN w : w[i].rows = {s[i]} /\ s[i] \in rows BY <1>4, <1>5
    <2>3. Events(w) \subseteq rows BY <2>1 DEF Events
    <2>2. rows \subseteq Events(w) BY <1>2, <1>3, <1>4, <1>5 DEF Events
    <2> QED BY <2>2, <2>3
  <1>9. Pays(w, known, owed)
    <2> SUFFICES ASSUME NEW i \in DOMAIN w, NEW n \in w[i].rows, NEW m \in owed, m <= n, m \notin known
                 PROVE  m \in UpTo(w, i)
      BY DEF Pays
    <2>1. n = s[i] /\ i \in 1..Len(s) BY <1>4, <1>5
    <2>2. m \in rows BY <2>1, <1>5
    <2>3. PICK j \in 1..Len(s) : s[j] = m BY <2>2, <1>2, <1>3
    <2>4. j <= i
      <3>1. SUFFICES ASSUME i < j PROVE FALSE BY <1>3, <2>1, <2>3
      <3>2. n < m BY <3>1, <1>2, <1>3, <2>1, <2>3
      <3>3. n \in Nat /\ m \in Nat BY <1>1, <1>5, <2>1, <2>2
      <3> QED BY <3>2, <3>3
    <2>5. j \in 1..i /\ m \in w[j].rows BY <2>1, <2>3, <2>4, <1>3, <1>4, <1>5
    <2> QED BY <2>5 DEF UpTo
  <1>10. Singles(w, rows) BY <1>4, <1>5 DEF Singles
  <1> QED BY <1>6, <1>7, <1>8, <1>9, <1>10 DEF w

(* The least and the greatest of a set of rows.                            *)
LEMMA LeastRow ==
    ASSUME NEW s \in SUBSET Nat, s # {}
    PROVE  Min(s) \in s /\ \A n \in s : Min(s) <= n
  <1>1. PICK m \in s : \A n \in s : ~(<<n, m>> \in OpToRel(<, Nat))
    BY NatLessThanWellFounded, WFMin, Zenon
  <1>2. \A n \in s : m <= n
    <2> SUFFICES ASSUME NEW n \in s, ~(m <= n) PROVE FALSE
      OBVIOUS
    <2>1. n < m /\ n \in Nat /\ m \in Nat OBVIOUS
    <2> QED BY <1>1, <2>1 DEF OpToRel
  <1> QED BY <1>2 DEF Min

LEMMA GreatestRow ==
    ASSUME NEW bound \in Nat, NEW s \in SUBSET (0..bound), s # {}
    PROVE  Max(s) \in s /\ \A n \in s : n <= Max(s)
  <1> DEFINE t == {bound - n : n \in s}
  <1>0. \A n \in s : n \in Nat /\ bound - n \in Nat OBVIOUS
  <1>1. t \in SUBSET Nat /\ t # {} /\ (\A n \in s : bound - n \in t) /\ \A k \in t : \E n \in s : k = bound - n
    BY <1>0
  <1> HIDE DEF t
  <1>2. Min(t) \in t /\ \A k \in t : Min(t) <= k BY <1>1, LeastRow
  <1>3. PICK m \in s : Min(t) = bound - m BY <1>1, <1>2
  <1>4. \A n \in s : n <= m
    <2> SUFFICES ASSUME NEW n \in s PROVE n <= m OBVIOUS
    <2>1. bound - m <= bound - n BY <1>1, <1>2, <1>3
    <2>2. m \in 0..bound /\ n \in 0..bound OBVIOUS
    <2> QED BY <2>1, <2>2
  <1>5. \A n \in s : m >= n BY <1>4
  <1> QED BY <1>5 DEF Max

-----------------------------------------------------------------------------
(* What is owed when rows go, when the head is read again, and when the    *)
(* stream goes on from what it reached; and how it is accounted for.       *)
LEMMA OwesLess ==
    ASSUME NEW rows, NEW less, less \subseteq rows, NEW start, NEW came, NEW latest, NEW now,
           start # NoId \/ came # {} \/ now = latest
    PROVE  OwedOf(less, start, came, now) \subseteq OwedOf(rows, start, came, latest)
  BY DEF OwedOf

LEMMA OwesAsFar ==
    ASSUME NEW rows \in SUBSET Nat, NEW start, NEW came \in SUBSET Nat, NEW more \in SUBSET Nat,
           NEW latest \in Nat, \A n \in more : ReachedOf(start, came, latest, n)
    PROVE  OwedOf(rows, start, came \union more, latest) \subseteq OwedOf(rows, start, came, latest)
  <1> SUFFICES ASSUME NEW n \in OwedOf(rows, start, came \union more, latest)
               PROVE  n \in OwedOf(rows, start, came, latest)
    OBVIOUS
  <1>1. n \in rows /\ n \in Nat BY DEF OwedOf
  <1>2. CASE start # NoId \/ came \union more = {} BY <1>2 DEF OwedOf
  <1>3. CASE start = NoId /\ came \union more # {}
    <2>1. PICK g \in came \union more : g < n BY <1>3 DEF OwedOf
    <2>2. CASE g \in came BY <1>1, <1>3, <2>1, <2>2 DEF OwedOf
    <2>3. CASE g \in more
      <3>1. (came = {} /\ latest <= g) \/ \E f \in came : f <= g BY <1>3, <2>3 DEF ReachedOf
      <3>2. CASE came = {} /\ latest <= g
        <4>1. latest < n BY <1>1, <2>1, <3>2
        <4> QED BY <1>1, <1>3, <3>2, <4>1 DEF OwedOf
      <3>3. CASE \E f \in came : f <= g
        <4>1. PICK f \in came : f <= g BY <3>3
        <4>2. f < n BY <1>1, <2>1, <4>1
        <4> QED BY <1>1, <1>3, <4>2 DEF OwedOf
      <3> QED BY <3>1, <3>2, <3>3
    <2> QED BY <2>1, <2>2, <2>3
  <1> QED BY <1>2, <1>3

LEMMA ReachesFurther ==
    ASSUME NEW start, NEW came \in SUBSET Nat, NEW latest \in Nat, NEW at \in Nat, NEW to \in Nat,
           ReachedOf(start, came, latest, at), at <= to
    PROVE  ReachedOf(start, came, latest, to)
  <1>1. CASE start # NoId BY <1>1 DEF ReachedOf
  <1>2. CASE came = {} /\ latest <= at BY <1>2 DEF ReachedOf
  <1>3. CASE \E g \in came : g <= at
    <2>1. PICK g \in came : g <= at BY <1>3
    <2>2. g <= to BY <2>1
    <2> QED BY <2>2 DEF ReachedOf
  <1> QED BY <1>1, <1>2, <1>3 DEF ReachedOf

LEMMA AccountsKept ==
    ASSUME NEW c, NEW w, NEW last, NEW has, NEW owed, NEW more, NEW less,
           AccountsOf(c, w, last, has, owed), has \subseteq more, less \subseteq owed
    PROVE  AccountsOf(c, w, last, more, less)
  <1>1. Pays(w, more, less) BY PaysMore DEF AccountsOf
  <1> QED BY <1>1 DEF AccountsOf

(* What the type of the state says of its parts.                           *)
LEMMA StreamParts ==
    ASSUME StreamTypeOK
    PROVE  /\ MaxSeq \in Nat /\ counter \in Nat /\ counter <= MaxSeq /\ pruned \in Nat /\ pruned <= counter
           /\ announced \subseteq Nat /\ late \subseteq Nat /\ got \subseteq Nat /\ told \subseteq Nat
           /\ Visible \in SUBSET Row /\ Retained \subseteq Nat /\ NoId \notin Nat
           /\ client.viewer \in DOMAIN VisibleTo /\ client.start \in Nat \union {NoId}
           /\ lastId \in Nat \union {NoId}
           /\ conn.phase \in {"closed", "head", "latest", "oldest", "empty", "window", "scan", "reply", "live"}
           /\ conn.last \in Nat /\ conn.latest \in Nat /\ conn.at \in Nat /\ conn.from \in Nat /\ conn.scanned \in Nat
           /\ conn.latest <= MaxSeq /\ conn.pending \in Seq(Row) /\ conn.rows \subseteq Row
           /\ Visible \intersect Retained \in SUBSET Nat /\ Owed \subseteq Visible \intersect Retained
           /\ Owed \subseteq 1..counter /\ Has \subseteq Nat
  <1>1. MaxSeq \in Nat /\ NoId \notin Nat BY StreamBounds, StreamShape
  <1>2. counter \in Nat /\ counter <= MaxSeq /\ pruned \in Nat /\ pruned <= counter
    BY <1>1 DEF StreamTypeOK
  <1>3. client.viewer \in DOMAIN VisibleTo /\ client.start \in Nat \union {NoId}
    BY StreamShape DEF StreamTypeOK
  <1>4. Visible \in SUBSET Row BY <1>3, StreamShape DEF Visible
  <1>5. Retained \subseteq 1..counter BY <1>2 DEF Retained
  <1>6. Owed \subseteq Visible \intersect Retained BY DEF Owed, OwedOf
  <1>7. announced \subseteq Nat /\ late \subseteq Nat /\ got \subseteq Nat /\ told \subseteq Nat /\ lastId \in Nat \union {NoId}
    BY <1>2, RowsAreFinite DEF StreamTypeOK
  <1>8. /\ conn.phase \in {"closed", "head", "latest", "oldest", "empty", "window", "scan", "reply", "live"}
        /\ conn.last \in Nat /\ conn.latest \in 0..MaxSeq /\ conn.at \in Nat /\ conn.from \in Nat /\ conn.scanned \in Nat
        /\ conn.pending \in Seq(Row) /\ conn.rows \subseteq Row
    BY DEF StreamTypeOK, Connection
  <1>9. Has \subseteq Nat BY <1>7 DEF Has
  <1>10. Retained \subseteq Nat /\ Visible \intersect Retained \in SUBSET Nat /\ Owed \subseteq 1..counter
    <2>1. 1..counter \subseteq Nat BY <1>2
    <2>2. Owed \subseteq Retained BY <1>6
    <2> QED BY <1>5, <2>1, <2>2
  <1>11. conn.latest \in Nat /\ conn.latest <= MaxSeq BY <1>1, <1>8
  <1> QED BY <1>1, <1>2, <1>3, <1>4, <1>6, <1>7, <1>8, <1>9, <1>10, <1>11

LEMMA CameTyped ==
    ASSUME StreamTypeOK, IdOK
    PROVE  Events(wire) \subseteq 1..counter /\ Came \in SUBSET Nat /\ Came \subseteq 1..counter
  <1>1. wire \in Seq(Message) BY DEF StreamTypeOK
  <1>2. Events(wire) \subseteq 1..counter BY <1>1 DEF Events, IdOK, Singles
  <1>3. counter \in Nat /\ got \subseteq 1..counter BY StreamParts DEF IdOK
  <1>4. Came \subseteq 1..counter BY <1>2, <1>3 DEF Came
  <1>5. 1..counter \subseteq Nat BY <1>3
  <1> QED BY <1>2, <1>4, <1>5

(* A client without an id has received nothing; one with an id has it from *)
(* its first position, or from an event.                                   *)
LEMMA WithoutId ==
    ASSUME StreamTypeOK, IdOK
    PROVE  /\ lastId = NoId => client.start = NoId /\ got = {}
           /\ lastId # NoId => lastId \in Nat /\ (client.start # NoId \/ (lastId \in got /\ lastId \in Came))
  <1>1. lastId \in Nat \union {NoId} /\ client.start \in Nat \union {NoId} /\ NoId \notin Nat /\ got \subseteq Nat
    BY StreamParts
  <1> QED BY <1>1 DEF IdOK, Came

-----------------------------------------------------------------------------
(* The log: a new row is beyond all that was promised, and a row that goes *)
(* is owed no more.                                                        *)
LEMMA LogKeeps ==
    ASSUME StreamInv, Commit \/ Prune
    PROVE  StreamInv'
  <1>1. /\ announced' = announced /\ late' = late /\ conn' = conn /\ wire' = wire
        /\ client' = client /\ lastId' = lastId /\ got' = got /\ told' = told /\ cuts' = cuts
        /\ \/ counter < MaxSeq /\ counter' = counter + 1 /\ pruned' = pruned
           \/ pruned < counter /\ counter' = counter /\ pruned' = pruned + 1
    BY DEF Commit, Prune, clientVars
  <1>2. StreamTypeOK /\ IdOK /\ LateOK /\ ConnOK /\ WaitOK /\ AccountsOK BY DEF StreamInv
  <1>3. counter \in Nat /\ pruned \in Nat /\ MaxSeq \in Nat /\ counter <= MaxSeq /\ pruned <= counter
    BY <1>2, StreamParts
  <1>4. counter' \in 0..MaxSeq /\ pruned' \in 0..counter' /\ counter <= counter' /\ 1..counter \subseteq 1..counter'
    BY <1>1, <1>3
  <1>5. StreamTypeOK' BY <1>1, <1>2, <1>4 DEF StreamTypeOK
  <1>6. IdOK' BY <1>1, <1>2, <1>4 DEF IdOK, Singles
  <1>7. LateOK' BY <1>1, <1>2 DEF LateOK
  <1>8. Came' = Came /\ Has' = Has /\ Visible' = Visible BY <1>1 DEF Came, Has, Visible
  <1>9. ConnOK'
    <2>1. /\ conn.latest \in Nat /\ conn.at \in Nat /\ conn.from \in Nat /\ conn.scanned \in Nat /\ conn.last \in Nat
          /\ counter' \in Nat
      BY <1>2, <1>3, <1>4, StreamParts
    <2> QED BY <1>1, <1>2, <1>3, <1>4, <1>8, <2>1 DEF ConnOK, Reached, AfterLatest
  <1>10. WaitOK' BY <1>1, <1>2, <1>8 DEF WaitOK, AfterLatest
  <1>11. Owed' \subseteq Owed \union {counter + 1} /\ (counter + 1 \in Owed' => counter + 1 \notin Owed)
    <2>1. Retained' \subseteq Retained \union {counter + 1} BY <1>1, <1>3 DEF Retained
    <2>2. Owed' \subseteq Owed \union {counter + 1} BY <1>1, <1>8, <2>1 DEF Owed, OwedOf
    <2>3. counter + 1 \notin Owed
      <3>1. Owed \subseteq 1..counter BY <1>2, StreamParts
      <3> QED BY <3>1, <1>3
    <2> QED BY <2>2, <2>3
  <1>12. AccountsOK'
    <2>1. /\ conn.at \in Nat /\ conn.from \in Nat /\ conn.scanned \in Nat /\ conn.last \in Nat
          /\ NoId \notin Nat /\ client.start \in Nat \union {NoId}
      BY <1>2, StreamParts
    <2>2. AccountsOf(conn, wire, lastId, Has, Owed) BY <1>2 DEF AccountsOK
    <2>3. lastId # NoId /\ counter + 1 \in Owed' => ~(counter + 1 <= lastId)
      <3> SUFFICES ASSUME lastId # NoId, counter + 1 \in Owed', counter + 1 <= lastId PROVE FALSE OBVIOUS
      <3>1. lastId \in Nat /\ (lastId = client.start \/ lastId \in got)
        BY <1>2, WithoutId DEF IdOK
      <3>2. lastId \in got => lastId <= counter
        <4>1. got \subseteq 1..counter BY <1>2 DEF IdOK
        <4> QED BY <1>3, <4>1
      <3>3. lastId = client.start BY <1>3, <3>1, <3>2
      <3>4. client.start < counter + 1 BY <1>1, <2>1, <3>1, <3>3 DEF Owed, OwedOf
      <3> QED BY <1>3, <3>1, <3>3, <3>4
    <2>4. Pays(wire, Has, Owed')
      <3> SUFFICES ASSUME NEW i \in DOMAIN wire, wire[i].kind = "event", NEW n \in wire[i].rows, NEW m \in Owed', m <= n
                   PROVE  m \in Has \union UpTo(wire, i)
        BY DEF Pays
      <3>1. n \in 1..counter BY <1>2 DEF IdOK, Singles
      <3>2. m \in Owed
        <4>1. m # counter + 1 BY <1>3, <3>1
        <4> QED BY <4>1, <1>11
      <3> QED BY <2>2, <3>2 DEF AccountsOf, Pays
    <2>5. conn.phase \in {"window", "scan"} => conn.at <= counter BY <1>2 DEF ConnOK
    <2>6. conn.phase = "scan" => conn.from <= counter + 1 BY <1>2 DEF ConnOK
    <2>7. conn.phase = "reply" => conn.scanned <= counter BY <1>2 DEF ConnOK
    <2>8. conn.phase = "live" => conn.last <= counter BY <1>2 DEF ConnOK
    <2>9. lastId # NoId => \A n \in Owed' : n <= lastId => n \in Has BY <1>11, <2>2, <2>3 DEF AccountsOf
    <2>10. conn.phase = "window" => \A n \in Owed' : n <= conn.at => n \in Has \union All(wire)
      BY <1>3, <1>11, <2>1, <2>2, <2>5 DEF AccountsOf
    <2>11. conn.phase = "scan" => \A n \in Owed' : n <= conn.at \/ n < conn.from => n \in Has \union All(wire)
      BY <1>3, <1>11, <2>1, <2>2, <2>5, <2>6 DEF AccountsOf
    <2>12. conn.phase = "reply" => \A n \in Owed' : n <= conn.scanned => n \in Has \union All(wire) \union conn.rows
      BY <1>3, <1>11, <2>1, <2>2, <2>7 DEF AccountsOf
    <2>13. conn.phase = "live" => \A n \in Owed' : n <= conn.last => n \in Has \union All(wire)
      BY <1>3, <1>11, <2>1, <2>2, <2>8 DEF AccountsOf
    <2>14. AccountsOf(conn, wire, lastId, Has, Owed') BY <2>4, <2>9, <2>10, <2>11, <2>12, <2>13 DEF AccountsOf
    <2> QED BY <1>1, <1>8, <2>14 DEF AccountsOK
  <1> QED BY <1>5, <1>6, <1>7, <1>9, <1>10, <1>12 DEF StreamInv

-----------------------------------------------------------------------------
(* A connection begins with nothing sent and nothing waiting; the client   *)
(* has what it has.                                                        *)
LEMMA NoConnTyped ==
    NoConn \in Connection /\ NoConn.phase = "closed" /\ NoConn.pending = <<>>
  BY StreamBounds DEF NoConn, Connection

LEMMA ConnectKeeps ==
    ASSUME StreamInv, Connect
    PROVE  StreamInv'
  <1>1. StreamTypeOK /\ IdOK /\ LateOK /\ ConnOK /\ WaitOK /\ AccountsOK BY DEF StreamInv
  <1>2. /\ counter' = counter /\ pruned' = pruned /\ announced' = announced /\ late' = late /\ wire' = wire
        /\ client' = client /\ lastId' = lastId /\ got' = got /\ told' = told /\ cuts' = cuts
    BY DEF Connect, clientVars, logVars
  <1> DEFINE phase == IF lastId = NoId THEN "head" ELSE "latest"
             last == IF lastId = NoId THEN 0 ELSE lastId
             c == [NoConn EXCEPT !.phase = phase, !.last = last]
  <1>3. conn' = c /\ conn.phase = "closed" /\ wire = <<>> BY <1>1 DEF Connect, ConnOK
  <1>4. last \in Nat /\ phase \in {"head", "latest"} BY <1>1, StreamParts
  <1>5. /\ c \in Connection /\ c.phase = phase /\ c.last = last /\ c.pending = <<>> /\ c.rows = {}
    <2> HIDE DEF phase, last
    <2> QED BY <1>4, NoConnTyped, StreamBounds DEF Connection, NoConn
  <1> HIDE DEF c
  <1>6. StreamTypeOK' BY <1>1, <1>2, <1>3, <1>4, <1>5 DEF StreamTypeOK
  <1>7. IdOK' /\ LateOK' BY <1>1, <1>2 DEF IdOK, LateOK
  <1>8. Came' = Came /\ Has' = Has /\ Visible' = Visible /\ Retained' = Retained /\ Events(wire) = {}
    BY <1>2, <1>3, NoMessages DEF Came, Has, Visible, Retained
  <1>9. ConnOK' BY <1>1, <1>2, <1>3, <1>4, <1>5, <1>8 DEF ConnOK, AfterLatest
  <1>10. WaitOK' BY <1>3, <1>4, <1>5 DEF WaitOK, AfterLatest
  <1>11. AccountsOK'
    <2>1. Pays(wire, Has, Owed') BY <1>3, NoMessages
    <2>2. lastId # NoId => \A n \in Owed' : n <= lastId => n \in Has
      <3> SUFFICES ASSUME lastId # NoId PROVE \A n \in Owed' : n <= lastId => n \in Has OBVIOUS
      <3>1. client.start # NoId \/ Came # {} BY <1>1, WithoutId
      <3>2. Owed' \subseteq Owed BY <1>2, <1>8, <3>1, OwesLess DEF Owed
      <3> QED BY <1>1, <3>2 DEF AccountsOK, AccountsOf
    <2>3. AccountsOf(c, wire, lastId, Has, Owed') BY <1>4, <1>5, <2>1, <2>2 DEF AccountsOf
    <2> QED BY <1>2, <1>3, <1>8, <2>3 DEF AccountsOK
  <1> QED BY <1>6, <1>7, <1>9, <1>10, <1>11 DEF StreamInv

LEMMA DisconnectKeeps ==
    ASSUME StreamInv, Cut \/ Restart
    PROVE  StreamInv'
  <1>1. StreamTypeOK /\ IdOK /\ LateOK /\ ConnOK /\ WaitOK /\ AccountsOK BY DEF StreamInv
  <1>2. /\ counter' = counter /\ pruned' = pruned /\ late' = late /\ (announced' = announced \/ announced' = 1..counter)
        /\ client' = client /\ lastId' = lastId /\ got' = got /\ told' = told
        /\ conn' = NoConn /\ wire' = <<>> /\ cuts < MaxCuts /\ cuts' = cuts + 1
    BY DEF Cut, Restart, Disconnect, clientVars, logVars
  <1>3. StreamTypeOK'
    <2>1. cuts' \in 0..MaxCuts BY <1>1, <1>2, StreamBounds DEF StreamTypeOK
    <2>2. announced' \subseteq 1..counter BY <1>1, <1>2 DEF StreamTypeOK
    <2> QED BY <1>1, <1>2, <2>1, <2>2, NoConnTyped, NoMessages DEF StreamTypeOK
  <1>4. IdOK' BY <1>1, <1>2, NoMessages DEF IdOK
  <1>5. LateOK'
    <2>1. CASE announced' = announced BY <1>1, <1>2, <2>1 DEF LateOK
    <2>2. CASE announced' = 1..counter
      <3>1. counter \in Nat BY <1>1, StreamParts
      <3> QED BY <1>2, <2>2, <3>1 DEF LateOK
    <2> QED BY <1>2, <2>1, <2>2
  <1>6. ConnOK' BY <1>2, NoConnTyped, NoMessages DEF ConnOK, AfterLatest
  <1>7. WaitOK' BY <1>2, NoConnTyped DEF WaitOK, AfterLatest
  <1>8. Has' = Has /\ Visible' = Visible /\ Retained' = Retained /\ Came' = got
    BY <1>2, NoMessages DEF Has, Visible, Retained, Came
  <1>9. AccountsOK'
    <2>1. Pays(<<>>, Has, Owed') BY NoMessages
    <2>2. lastId # NoId => \A n \in Owed' : n <= lastId => n \in Has
      <3> SUFFICES ASSUME lastId # NoId PROVE \A n \in Owed' : n <= lastId => n \in Has OBVIOUS
      <3>1. client.start # NoId \/ got # {} BY <1>1, WithoutId
      <3>2. got \subseteq Came BY DEF Came
      <3>3. Owed' \subseteq Owed BY <1>2, <1>8, <3>1, <3>2 DEF Owed, OwedOf
      <3> QED BY <1>1, <3>3 DEF AccountsOK, AccountsOf
    <2>3. AccountsOf(NoConn, <<>>, lastId, Has, Owed') BY <2>1, <2>2, NoConnTyped DEF AccountsOf
    <2> QED BY <1>2, <1>8, <2>3 DEF AccountsOK
  <1> QED BY <1>3, <1>4, <1>5, <1>6, <1>7, <1>9 DEF StreamInv

-----------------------------------------------------------------------------
(* A step of the catch-up leaves the log and the client as they are.  What *)
(* is left to show of one is where the connection gets.                    *)
LEMMA CatchUpFrame ==
    ASSUME StreamInv, UNCHANGED <<logVars, clientVars, cuts>>,
           NEW c \in Connection, NEW more \in Seq(Message),
           conn' = c, wire' = wire \o more, c.phase # "closed", c.phase = "live" => c.pending = <<>>,
           Singles(more, 1..counter)
    PROVE  /\ StreamTypeOK' /\ IdOK' /\ LateOK'
           /\ Has' = Has /\ Visible' = Visible /\ Retained' = Retained
           /\ wire' \in Seq(Message) /\ All(wire') = All(wire) \union All(more)
           /\ Events(wire') = Events(wire) \union Events(more) /\ Came' = Came \union Events(more)
           /\ counter' = counter /\ announced' = announced /\ late' = late /\ pruned' = pruned
           /\ client' = client /\ lastId' = lastId /\ got' = got
  <1>1. StreamTypeOK /\ IdOK /\ LateOK BY DEF StreamInv
  <1>2. /\ counter' = counter /\ pruned' = pruned /\ announced' = announced /\ late' = late
        /\ client' = client /\ lastId' = lastId /\ got' = got /\ told' = told /\ cuts' = cuts
    BY DEF clientVars, logVars
  <1>3. wire \in Seq(Message) BY <1>1 DEF StreamTypeOK
  <1>4. /\ wire' \in Seq(Message) /\ All(wire') = All(wire) \union All(more)
        /\ Events(wire') = Events(wire) \union Events(more)
    BY <1>3, ConcatTells
  <1>5. StreamTypeOK' BY <1>1, <1>2, <1>4 DEF StreamTypeOK
  <1>6. Singles(wire', 1..counter) BY <1>1, <1>3, ConcatSingles DEF IdOK
  <1>7. IdOK' BY <1>1, <1>2, <1>6 DEF IdOK
  <1>8. LateOK' BY <1>1, <1>2 DEF LateOK
  <1>9. Has' = Has /\ Visible' = Visible /\ Retained' = Retained /\ Came' = Came \union Events(more)
    BY <1>2, <1>4 DEF Has, Visible, Retained, Came
  <1> QED BY <1>2, <1>4, <1>5, <1>7, <1>8, <1>9

(* One that sends no event and keeps the head it read owes the same.       *)
LEMMA CatchUpOwes ==
    ASSUME StreamInv, UNCHANGED <<logVars, clientVars, cuts>>,
           NEW c \in Connection, NEW more \in Seq(Message), Events(more) = {},
           conn' = c, wire' = wire \o more, c.phase \notin {"closed", "live"},
           c.latest = conn.latest \/ lastId # NoId
    PROVE  /\ Came' = Came /\ Owed' \subseteq Owed
           /\ \A at \in Nat : c.latest = conn.latest /\ Reached(at) => ReachedOf(client.start, Came, c.latest, at)
  <1>2. StreamTypeOK /\ IdOK BY DEF StreamInv
  <1>3. wire \in Seq(Message) BY <1>2 DEF StreamTypeOK
  <1>4. Came' = Came BY <1>3, ConcatTells DEF Came, clientVars
  <1>5. client' = client /\ (Visible \intersect Retained)' = Visible \intersect Retained
    BY DEF Visible, Retained, clientVars, logVars
  <1>6. client.start # NoId \/ Came # {} \/ c.latest = conn.latest BY <1>2, WithoutId
  <1>7. OwedOf(Visible \intersect Retained, client.start, Came, c.latest)
          \subseteq OwedOf(Visible \intersect Retained, client.start, Came, conn.latest)
    BY <1>6, OwesLess
  <1>8. Owed' \subseteq Owed BY <1>4, <1>5, <1>7 DEF Owed
  <1> QED BY <1>4, <1>8 DEF Reached

LEMMA ReadHeadKeeps ==
    ASSUME StreamInv, ReadHead
    PROVE  StreamInv'
  <1>1. StreamTypeOK /\ IdOK /\ LateOK /\ ConnOK /\ WaitOK /\ AccountsOK BY DEF StreamInv
  <1>2. conn.phase = "head" /\ UNCHANGED <<logVars, clientVars, cuts>> /\ wire' = wire BY DEF ReadHead
  <1> DEFINE c == [conn EXCEPT !.phase = "reply", !.latest = counter, !.scanned = counter]
  <1>3. counter \in Nat /\ counter \in 0..MaxSeq /\ conn \in Connection BY <1>1, StreamParts DEF StreamTypeOK
  <1>4. /\ c \in Connection /\ c.phase = "reply" /\ c.latest = counter /\ c.scanned = counter
        /\ c.rows = conn.rows /\ c.pending = conn.pending
    BY <1>3 DEF Connection
  <1>5. conn' = c BY DEF ReadHead
  <1> HIDE DEF c
  <1>6. wire \in Seq(Message) /\ wire' = wire \o <<>> /\ wire = <<>>  BY <1>1, <1>2 DEF StreamTypeOK, ConnOK
  <1>7. /\ StreamTypeOK' /\ IdOK' /\ LateOK' /\ Has' = Has /\ Visible' = Visible /\ Retained' = Retained
        /\ Came' = Came /\ counter' = counter /\ announced' = announced /\ late' = late
        /\ client' = client /\ lastId' = lastId /\ got' = got
    BY <1>2, <1>4, <1>5, <1>6, CatchUpFrame, NoMessages
  <1>8. lastId = NoId /\ client.start = NoId /\ got = {} /\ conn.rows = {} /\ Came = {} /\ Events(wire) = {}
    BY <1>1, <1>2, <1>6, WithoutId, NoMessages DEF ConnOK, Came
  <1>9. Owed' = {}
    <2>1. Retained \subseteq 1..counter
      <3>1. pruned \in Nat BY <1>1, StreamParts
      <3> QED BY <1>3, <3>1 DEF Retained
    <2>2. \A n \in Retained' : ~(counter < n) BY <1>3, <1>7, <2>1
    <2> QED BY <1>4, <1>5, <1>7, <1>8, <2>2 DEF Owed, OwedOf
  <1>10. ConnOK' BY <1>2, <1>3, <1>4, <1>5, <1>7, <1>8 DEF ConnOK, AfterLatest, Reached, ReachedOf
  <1>11. WaitOK'
    <2>1. \A n \in announced : ~(n > counter) BY <1>1, <1>3 DEF StreamTypeOK
    <2> QED BY <1>1, <1>4, <1>5, <1>7, <2>1 DEF WaitOK, AfterLatest
  <1>12. AccountsOK' BY <1>9 DEF AccountsOK, AccountsOf, Pays
  <1> QED BY <1>7, <1>10, <1>11, <1>12 DEF StreamInv

LEMMA ReadLatestKeeps ==
    ASSUME StreamInv, ReadLatest
    PROVE  StreamInv'
  <1>1. StreamTypeOK /\ IdOK /\ LateOK /\ ConnOK /\ WaitOK /\ AccountsOK BY DEF StreamInv
  <1>2. conn.phase = "latest" /\ UNCHANGED <<logVars, clientVars, cuts>> /\ wire' = wire BY DEF ReadLatest
  <1> DEFINE c == [conn EXCEPT !.phase = "oldest", !.latest = counter]
  <1>3. counter \in Nat /\ counter \in 0..MaxSeq /\ conn \in Connection BY <1>1, StreamParts DEF StreamTypeOK
  <1>4. /\ c \in Connection /\ c.phase = "oldest" /\ c.latest = counter /\ c.last = conn.last
        /\ c.pending = conn.pending
    BY <1>3 DEF Connection
  <1>5. conn' = c BY DEF ReadLatest
  <1> HIDE DEF c
  <1>6. wire \in Seq(Message) /\ wire' = wire \o <<>> /\ wire = <<>> /\ lastId # NoId /\ conn.last = lastId
    BY <1>1, <1>2 DEF StreamTypeOK, ConnOK
  <1>7. /\ StreamTypeOK' /\ IdOK' /\ LateOK' /\ Has' = Has /\ Visible' = Visible /\ Retained' = Retained
        /\ Came' = Came /\ counter' = counter /\ announced' = announced /\ late' = late
        /\ client' = client /\ lastId' = lastId /\ got' = got
    BY <1>2, <1>4, <1>5, <1>6, CatchUpFrame, NoMessages
  <1>8. Owed' \subseteq Owed BY <1>2, <1>4, <1>5, <1>6, CatchUpOwes, NoMessages
  <1>9. ConnOK'
    <2>1. lastId \in got => lastId <= counter
      <3>1. got \subseteq 1..counter BY <1>1 DEF IdOK
      <3> QED BY <1>3, <3>1
    <2> QED BY <1>2, <1>3, <1>4, <1>5, <1>6, <1>7, <2>1, NoMessages DEF ConnOK, AfterLatest
  <1>10. WaitOK'
    <2>1. \A n \in announced : ~(n > counter) BY <1>1, <1>3 DEF StreamTypeOK
    <2> QED BY <1>1, <1>4, <1>5, <1>7, <2>1 DEF WaitOK, AfterLatest
  <1>11. AccountsOK'
    <2>1. AccountsOf(conn, wire, lastId, Has, Owed') BY <1>1, <1>8, AccountsKept DEF AccountsOK
    <2>2. AccountsOf(c, wire, lastId, Has, Owed') BY <1>4, <2>1 DEF AccountsOf
    <2> QED BY <1>2, <1>5, <1>7, <2>2 DEF AccountsOK
  <1> QED BY <1>7, <1>9, <1>10, <1>11 DEF StreamInv

(* Where the replay starts is not beyond what the client has or is told    *)
(* of, and within what the stream reached.                                 *)
LEMMA PlacedKeeps ==
    ASSUME StreamInv, conn.phase \in {"oldest", "empty"}, NEW oldest \in Nat \ {0}, oldest <= counter + 1,
           PlacedFrom(oldest), UNCHANGED <<logVars, clientVars, cuts>>
    PROVE  StreamInv'
  <1>1. StreamTypeOK /\ IdOK /\ LateOK /\ ConnOK /\ WaitOK /\ AccountsOK BY DEF StreamInv
  <1>2. /\ counter \in Nat /\ conn \in Connection /\ conn.latest \in Nat /\ conn.latest <= counter
        /\ wire \in Seq(Message) /\ wire = <<>> /\ lastId # NoId /\ conn.last = lastId
        /\ lastId \in got => lastId <= conn.latest
    BY <1>1, StreamParts DEF StreamTypeOK, ConnOK, AfterLatest
  <1>3. lastId \in Nat /\ (client.start # NoId \/ (lastId \in got /\ lastId \in Came)) BY <1>1, <1>2, WithoutId
  <1> DEFINE ahead == lastId > conn.latest
             old == ~ahead /\ lastId < oldest - 1
             at == IF ahead THEN conn.latest ELSE IF old THEN oldest - 1 ELSE lastId
             more == IF ahead THEN <<Gap(conn.latest + 1, lastId)>>
                     ELSE IF old THEN <<Gap(lastId + 1, oldest - 1)>> ELSE <<>>
             c == [conn EXCEPT !.phase = "window", !.at = at]
  <1>4. conn' = c /\ wire' = wire \o more BY <1>2 DEF PlacedFrom
  <1>5. at \in Nat /\ at <= counter /\ (ahead \/ lastId <= at) BY <1>2, <1>3
  <1>6. /\ more \in Seq(Message) /\ Events(more) = {} /\ Singles(more, 1..counter)
        /\ Pays(more, Has \union All(wire), Owed')
        /\ old => All(more) = (lastId + 1)..at
    <2>1. CASE ahead
      <3>1. conn.latest + 1 \in Nat /\ lastId \in Int /\ more = <<Gap(conn.latest + 1, lastId)>> /\ ~old
        BY <1>2, <1>3, <2>1
      <3> HIDE DEF more, at, ahead, old
      <3> QED BY <3>1, GapTells
    <2>2. CASE old
      <3>1. lastId + 1 \in Nat /\ oldest - 1 \in Int /\ more = <<Gap(lastId + 1, oldest - 1)>> /\ at = oldest - 1
        BY <1>3, <2>2
      <3> HIDE DEF more, at
      <3> QED BY <3>1, GapTells
    <2>3. CASE ~ahead /\ ~old
      <3>1. more = <<>> BY <2>3
      <3> HIDE DEF more, at
      <3> QED BY <2>3, <3>1, NoMessages
    <2> QED BY <2>1, <2>2, <2>3
  <1> HIDE DEF more, at
  <1>7. /\ c \in Connection /\ c.phase = "window" /\ c.at = at /\ c.latest = conn.latest
        /\ c.pending = conn.pending
    BY <1>2, <1>5 DEF Connection
  <1> HIDE DEF c
  <1>8. /\ StreamTypeOK' /\ IdOK' /\ LateOK' /\ Has' = Has /\ Visible' = Visible
        /\ All(wire') = All(wire) \union All(more) /\ Events(wire') = Events(wire)
        /\ counter' = counter /\ announced' = announced /\ late' = late
        /\ client' = client /\ lastId' = lastId /\ got' = got
    BY <1>4, <1>6, <1>7, CatchUpFrame
  <1>9. Came' = Came /\ Owed' \subseteq Owed BY <1>4, <1>6, <1>7, CatchUpOwes
  <1>10. ConnOK'
    <2>1. ReachedOf(client.start, Came, conn.latest, at)
      <3>1. CASE client.start # NoId BY <3>1 DEF ReachedOf
      <3>2. CASE lastId \in got /\ lastId \in Came BY <1>2, <1>3, <1>5, <3>2 DEF ReachedOf
      <3> QED BY <1>3, <3>1, <3>2
    <2>2. Events(wire) = {} BY <1>2, NoMessages
    <2> QED BY <1>2, <1>4, <1>5, <1>7, <1>8, <1>9, <2>1, <2>2 DEF ConnOK, AfterLatest, Reached
  <1>11. WaitOK' BY <1>1, <1>4, <1>7, <1>8 DEF WaitOK, AfterLatest
  <1>12. AccountsOK'
    <2>1. AccountsOf(conn, wire, lastId, Has, Owed') BY <1>1, <1>9, AccountsKept DEF AccountsOK
    <2>2. \A n \in Owed' : n <= lastId => n \in Has BY <1>2, <2>1 DEF AccountsOf
    <2>3. Pays(wire', Has, Owed')
      <3>1. Pays(wire, Has, Owed') BY <2>1 DEF AccountsOf
      <3> QED BY <1>2, <1>4, <1>6, <3>1, ConcatPays
    <2>4. \A n \in Owed' : n <= at => n \in Has \union All(wire')
      <3> SUFFICES ASSUME NEW n \in Owed', n <= at, ~(n <= lastId) PROVE n \in All(wire')
        BY <2>2
      <3>1. n \in Nat BY <1>1, <1>9, StreamParts
      <3>2. CASE ahead BY <1>2, <1>3, <3>1, <3>2 DEF at
      <3>3. CASE old BY <1>3, <1>5, <1>6, <1>8, <3>1, <3>3
      <3>4. CASE ~ahead /\ ~old BY <1>3, <3>1, <3>4 DEF at
      <3> QED BY <3>2, <3>3, <3>4
    <2>5. AccountsOf(c, wire', lastId, Has, Owed') BY <1>7, <2>2, <2>3, <2>4 DEF AccountsOf
    <2> QED BY <1>4, <1>8, <2>5 DEF AccountsOK
  <1> QED BY <1>8, <1>10, <1>11, <1>12 DEF StreamInv

LEMMA ReadOldestKeeps ==
    ASSUME StreamInv, ReadOldest \/ ReadEmpty
    PROVE  StreamInv'
  <1>1. StreamTypeOK /\ IdOK /\ LateOK /\ ConnOK /\ WaitOK /\ AccountsOK BY DEF StreamInv
  <1>2. counter \in Nat /\ pruned \in Nat /\ pruned <= counter BY <1>1, StreamParts
  <1>3. CASE ReadOldest /\ Retained # {}
    <2>1. PlacedFrom(OldestSeq) /\ conn.phase = "oldest" /\ UNCHANGED <<logVars, clientVars, cuts>>
      BY <1>3 DEF ReadOldest
    <2>2. OldestSeq \in Nat \ {0} /\ OldestSeq <= counter + 1 BY <1>2 DEF OldestSeq
    <2> QED BY <2>1, <2>2, PlacedKeeps
  <1>4. CASE ReadEmpty
    <2>1. PlacedFrom(counter + 1) /\ conn.phase = "empty" /\ UNCHANGED <<logVars, clientVars, cuts>>
      BY <1>4 DEF ReadEmpty
    <2>2. counter + 1 \in Nat \ {0} /\ counter + 1 <= counter + 1 BY <1>2
    <2> QED BY <2>1, <2>2, PlacedKeeps
  <1>5. CASE ReadOldest /\ Retained = {}
    <2> DEFINE c == [conn EXCEPT !.phase = "empty"]
    <2>1. conn' = c /\ wire' = wire /\ conn.phase = "oldest" /\ UNCHANGED <<logVars, clientVars, cuts>>
      BY <1>5 DEF ReadOldest
    <2>2. conn \in Connection /\ wire \in Seq(Message) /\ wire' = wire \o <<>> BY <1>1, <2>1 DEF StreamTypeOK
    <2>3. /\ c \in Connection /\ c.phase = "empty" /\ c.latest = conn.latest /\ c.last = conn.last
          /\ c.pending = conn.pending
      BY <2>2 DEF Connection
    <2> HIDE DEF c
    <2>4. /\ StreamTypeOK' /\ IdOK' /\ LateOK' /\ Has' = Has /\ Visible' = Visible
          /\ counter' = counter /\ announced' = announced /\ late' = late
          /\ client' = client /\ lastId' = lastId /\ got' = got
      BY <2>1, <2>2, <2>3, CatchUpFrame, NoMessages
    <2>5. Came' = Came /\ Owed' \subseteq Owed BY <2>1, <2>2, <2>3, CatchUpOwes, NoMessages
    <2>6. ConnOK' BY <1>1, <2>1, <2>3, <2>4 DEF ConnOK, AfterLatest
    <2>7. WaitOK' BY <1>1, <2>1, <2>3, <2>4 DEF WaitOK, AfterLatest
    <2>8. AccountsOK'
      <3>1. AccountsOf(conn, wire, lastId, Has, Owed') BY <1>1, <2>5, AccountsKept DEF AccountsOK
      <3>2. AccountsOf(c, wire, lastId, Has, Owed') BY <2>3, <3>1 DEF AccountsOf
      <3> QED BY <2>1, <2>4, <3>2 DEF AccountsOK
    <2> QED BY <2>4, <2>6, <2>7, <2>8 DEF StreamInv
  <1> QED BY <1>3, <1>4, <1>5

(* The window of a browser moves the start on, with a gap for what it      *)
(* leaves out.                                                             *)
LEMMA ReadWindowKeeps ==
    ASSUME StreamInv, NEW from, ReadWindow(from)
    PROVE  StreamInv'
  <1>1. StreamTypeOK /\ IdOK /\ LateOK /\ ConnOK /\ WaitOK /\ AccountsOK BY DEF StreamInv
  <1>2. /\ conn.phase = "window" /\ from \in WindowStarts /\ UNCHANGED <<logVars, clientVars, cuts>>
    BY DEF ReadWindow
  <1>3. /\ counter \in Nat /\ pruned \in Nat /\ conn \in Connection /\ conn.latest \in Nat /\ conn.latest <= counter
        /\ conn.at \in Nat /\ conn.at <= counter /\ Reached(conn.at)
        /\ wire \in Seq(Message) /\ Events(wire) = {} /\ lastId # NoId
    BY <1>1, <1>2, StreamParts DEF StreamTypeOK, ConnOK, AfterLatest
  <1>4. from \in Nat /\ from <= counter + 1 BY <1>2, <1>3 DEF WindowStarts, OldestSeq
  <1> DEFINE at == IF conn.at < from - 1 /\ client.viewer = "anonymous" THEN from - 1 ELSE conn.at
             more == IF conn.at < from - 1 THEN <<Gap(conn.at + 1, from - 1)>> ELSE <<>>
             c == [conn EXCEPT !.phase = "scan", !.from = from, !.at = at]
  <1>5. conn' = c /\ wire' = wire \o more BY <1>3 DEF ReadWindow, Connection
  <1>6. at \in Nat /\ at <= counter /\ conn.at <= at /\ (at <= conn.at \/ at < from) BY <1>3, <1>4
  <1>7. /\ more \in Seq(Message) /\ Events(more) = {} /\ Singles(more, 1..counter)
        /\ Pays(more, Has \union All(wire), Owed')
        /\ conn.at < from - 1 => All(more) = (conn.at + 1)..(from - 1)
    <2>1. CASE conn.at < from - 1
      <3>1. conn.at + 1 \in Nat /\ from - 1 \in Int /\ more = <<Gap(conn.at + 1, from - 1)>>
        BY <1>3, <1>4, <2>1
      <3> HIDE DEF more
      <3> QED BY <3>1, GapTells
    <2>2. CASE ~(conn.at < from - 1)
      <3>1. more = <<>> BY <2>2
      <3> HIDE DEF more
      <3> QED BY <2>2, <3>1, NoMessages
    <2> QED BY <2>1, <2>2
  <1> HIDE DEF more, at
  <1>8. /\ c \in Connection /\ c.phase = "scan" /\ c.at = at /\ c.from = from /\ c.latest = conn.latest
        /\ c.pending = conn.pending
    <2> DEFINE b == [conn EXCEPT !.phase = "scan", !.from = from]
    <2>1. b \in Connection /\ b.phase = "scan" /\ b.from = from /\ b.latest = conn.latest /\ b.pending = conn.pending
      BY <1>3, <1>4 DEF Connection
    <2>2. c = [b EXCEPT !.at = at] BY <1>3 DEF Connection
    <2> HIDE DEF b, c
    <2> QED BY <1>6, <2>1, <2>2 DEF Connection
  <1> HIDE DEF c
  <1>9. /\ StreamTypeOK' /\ IdOK' /\ LateOK' /\ Has' = Has /\ Visible' = Visible
        /\ All(wire') = All(wire) \union All(more) /\ Events(wire') = Events(wire)
        /\ counter' = counter /\ announced' = announced /\ late' = late
        /\ client' = client /\ lastId' = lastId /\ got' = got
    BY <1>2, <1>5, <1>7, <1>8, CatchUpFrame
  <1>10. Came' = Came /\ Owed' \subseteq Owed BY <1>2, <1>5, <1>7, <1>8, CatchUpOwes
  <1>11. ConnOK'
    <2>1. ReachedOf(client.start, Came, conn.latest, at)
      <3>1. Came \in SUBSET Nat BY <1>1, CameTyped
      <3> QED BY <1>3, <1>6, <3>1, ReachesFurther DEF Reached
    <2> QED BY <1>1, <1>2, <1>3, <1>4, <1>5, <1>6, <1>8, <1>9, <1>10, <2>1 DEF ConnOK, AfterLatest, Reached
  <1>12. WaitOK' BY <1>1, <1>2, <1>5, <1>8, <1>9 DEF WaitOK, AfterLatest
  <1>13. AccountsOK'
    <2>1. AccountsOf(conn, wire, lastId, Has, Owed') BY <1>1, <1>10, AccountsKept DEF AccountsOK
    <2>2. \A n \in Owed' : n <= lastId => n \in Has BY <1>3, <2>1 DEF AccountsOf
    <2>3. Pays(wire', Has, Owed')
      <3>1. Pays(wire, Has, Owed') BY <2>1 DEF AccountsOf
      <3> QED BY <1>3, <1>5, <1>7, <3>1, ConcatPays
    <2>4. \A n \in Owed' : n <= at \/ n < from => n \in Has \union All(wire')
      <3> SUFFICES ASSUME NEW n \in Owed', n <= at \/ n < from PROVE n \in Has \union All(wire')
        OBVIOUS
      <3>1. n \in Nat BY <1>1, <1>10, StreamParts
      <3>2. CASE n <= conn.at BY <1>2, <1>9, <2>1, <3>2 DEF AccountsOf
      <3>3. CASE ~(n <= conn.at)
        <4>1. n < from BY <1>3, <1>4, <1>6, <3>1, <3>3
        <4>2. conn.at < from - 1 /\ n \in (conn.at + 1)..(from - 1) BY <1>3, <1>4, <3>1, <3>3, <4>1
        <4> QED BY <1>7, <1>9, <4>2
      <3> QED BY <3>2, <3>3
    <2>5. AccountsOf(c, wire', lastId, Has, Owed') BY <1>8, <2>2, <2>3, <2>4 DEF AccountsOf
    <2> QED BY <1>5, <1>9, <2>5 DEF AccountsOK
  <1> QED BY <1>9, <1>11, <1>12, <1>13 DEF StreamInv

(* The scan takes what it passes and the filter accepts; what it passes    *)
(* and leaves is before the window, of which the client was told.          *)
LEMMA ScannedFar ==
    ASSUME StreamTypeOK, conn.at <= counter
    PROVE  Scanned \in Nat /\ Scanned <= counter
  <1>1. counter \in Nat /\ conn.at \in Nat /\ \A n \in Retained : n \in Nat /\ n \in 0..counter
    <2>1. counter \in Nat /\ pruned \in Nat /\ conn.at \in Nat BY StreamParts
    <2> QED BY <2>1 DEF Retained
  <1> DEFINE ahead == {n \in Retained : n > conn.at}
             stops == {n \in ahead : Stops(n)}
  <1>2. Scanned = IF stops # {} THEN Min(stops) ELSE Max({conn.at} \union ahead) BY DEF Scanned
  <1>3. \A n \in stops : n \in ahead OBVIOUS
  <1> HIDE DEF stops
  <1>4. \A n \in ahead : n \in Nat /\ n \in 0..counter BY <1>1
  <1> HIDE DEF ahead
  <1>5. CASE stops # {}
    <2>1. stops \in SUBSET Nat BY <1>3, <1>4
    <2>2. Min(stops) \in 0..counter BY <1>3, <1>4, <1>5, <2>1, LeastRow
    <2> QED BY <1>1, <1>2, <1>5, <2>2
  <1>6. CASE stops = {}
    <2> DEFINE s == {conn.at} \union ahead
    <2>1. s \in SUBSET (0..counter) /\ s # {} BY <1>1, <1>4
    <2>2. Scanned = Max(s) BY <1>2, <1>6
    <2> HIDE DEF s
    <2>3. Max(s) \in 0..counter BY <1>1, <2>1, GreatestRow
    <2> QED BY <1>1, <2>2, <2>3
  <1> QED BY <1>5, <1>6

LEMMA ReadScanKeeps ==
    ASSUME StreamInv, ReadScan
    PROVE  StreamInv'
  <1>1. StreamTypeOK /\ IdOK /\ LateOK /\ ConnOK /\ WaitOK /\ AccountsOK BY DEF StreamInv
  <1>2. conn.phase = "scan" /\ wire' = wire /\ UNCHANGED <<logVars, clientVars, cuts>> BY DEF ReadScan
  <1>3. /\ counter \in Nat /\ conn \in Connection /\ conn.latest \in Nat /\ conn.latest <= counter
        /\ conn.at \in Nat /\ conn.at <= counter /\ Reached(conn.at) /\ conn.from \in Nat
        /\ wire \in Seq(Message) /\ wire' = wire \o <<>> /\ Events(wire) = {} /\ lastId # NoId
        /\ lastId \in got => lastId <= conn.latest
    BY <1>1, <1>2, StreamParts DEF StreamTypeOK, ConnOK, AfterLatest
  <1>4. Scanned \in Nat /\ Scanned <= counter BY <1>1, <1>3, ScannedFar
  <1>5. Replayed \in SUBSET Row /\ \A n \in Replayed : n \in Nat /\ n <= Scanned /\ conn.at <= n
    <2>1. Visible \in SUBSET Row /\ Retained \subseteq Nat BY <1>1, StreamParts
    <2>2. \A n \in Replayed : n \in Visible /\ n \in Retained /\ n <= Scanned /\ conn.at < n BY DEF Replayed, Accepted
    <2>3. \A n \in Replayed : n \in Row /\ n \in Nat BY <2>1, <2>2
    <2>4. \A n \in Replayed : conn.at <= n BY <1>3, <2>2, <2>3
    <2> QED BY <2>2, <2>3, <2>4
  <1> DEFINE c == [conn EXCEPT !.phase = "reply", !.rows = Replayed, !.scanned = Scanned]
  <1>6. conn' = c BY DEF ReadScan
  <1>7. /\ c \in Connection /\ c.phase = "reply" /\ c.rows = Replayed /\ c.scanned = Scanned
        /\ c.latest = conn.latest /\ c.pending = conn.pending
    <2> DEFINE b == [conn EXCEPT !.phase = "reply", !.rows = Replayed]
    <2>1. b \in Connection /\ b.phase = "reply" /\ b.rows = Replayed /\ b.latest = conn.latest /\ b.pending = conn.pending
      BY <1>3, <1>5 DEF Connection
    <2>2. c = [b EXCEPT !.scanned = Scanned] BY <1>3 DEF Connection
    <2> HIDE DEF b, c
    <2> QED BY <1>4, <2>1, <2>2 DEF Connection
  <1> HIDE DEF c
  <1>8. /\ StreamTypeOK' /\ IdOK' /\ LateOK' /\ Has' = Has /\ Visible' = Visible
        /\ counter' = counter /\ announced' = announced /\ late' = late
        /\ client' = client /\ lastId' = lastId /\ got' = got
    BY <1>2, <1>3, <1>6, <1>7, CatchUpFrame, NoMessages
  <1>9. Came' = Came /\ Owed' \subseteq Owed BY <1>2, <1>3, <1>6, <1>7, CatchUpOwes, NoMessages
  <1>10. ConnOK'
    <2>1. Came \in SUBSET Nat BY <1>1, CameTyped
    <2>2. \A n \in Replayed : ReachedOf(client.start, Came, conn.latest, n)
      BY <1>3, <1>5, <2>1, ReachesFurther DEF Reached
    <2>3. ReachedOf(client.start, Came, conn.latest, conn.latest)
      <3>1. client.start # NoId \/ (lastId \in got /\ lastId \in Came) BY <1>1, <1>3, WithoutId
      <3> QED BY <1>3, <3>1 DEF ReachedOf
    <2> QED BY <1>2, <1>3, <1>4, <1>5, <1>6, <1>7, <1>8, <1>9, <2>2, <2>3 DEF ConnOK, AfterLatest, Reached
  <1>11. WaitOK' BY <1>1, <1>2, <1>6, <1>7, <1>8 DEF WaitOK, AfterLatest
  <1>12. AccountsOK'
    <2>1. AccountsOf(conn, wire, lastId, Has, Owed') BY <1>1, <1>9, AccountsKept DEF AccountsOK
    <2>2. \A n \in Owed' : n <= Scanned => n \in Has \union All(wire) \union Replayed
      <3> SUFFICES ASSUME NEW n \in Owed', n <= Scanned, n \notin Replayed PROVE n \in Has \union All(wire)
        OBVIOUS
      <3>1. n \in Nat /\ n \in Visible /\ n \in Retained BY <1>1, <1>9, StreamParts
      <3>2. n <= conn.at \/ n < conn.from BY <1>3, <3>1 DEF Replayed, Accepted
      <3> QED BY <1>2, <2>1, <3>2 DEF AccountsOf
    <2>3. AccountsOf(c, wire, lastId, Has, Owed') BY <1>7, <2>1, <2>2 DEF AccountsOf
    <2> QED BY <1>2, <1>6, <1>8, <2>3 DEF AccountsOK
  <1> QED BY <1>8, <1>10, <1>11, <1>12 DEF StreamInv

-----------------------------------------------------------------------------
(* The rows that waited: the last of them that is sent is the greatest of  *)
(* them, and one that is not sent was published after a later one.         *)
LEMMA DrainedRows ==
    ASSUME StreamTypeOK, WaitOK, conn.phase = "reply"
    PROVE  /\ Drained(conn.pending, conn.latest) \subseteq announced \intersect Visible
           /\ \A n \in Drained(conn.pending, conn.latest) : n > conn.latest
           /\ \A n \in announced \intersect Visible : n > conn.latest =>
                 \/ n \in Drained(conn.pending, conn.latest) \/ n \in late
           /\ \A n \in announced \intersect Visible : n > conn.latest =>
                 \E g \in Drained(conn.pending, conn.latest) : n <= g
  <1> DEFINE p == conn.pending
             rest == Drained(p, conn.latest)
  <1>1. /\ p \in Seq(Row) /\ DOMAIN p = 1..Len(p) /\ Len(p) \in Nat /\ MaxSeq \in Nat
        /\ conn.latest \in Nat /\ announced \subseteq Nat
    BY StreamParts
  <1>2. /\ \A i \in DOMAIN p : p[i] \in announced \intersect Visible
        /\ \A i, j \in DOMAIN p : j < i => p[j] # p[i] /\ (p[j] > p[i] => p[i] \in late)
        /\ \A n \in announced \intersect Visible : n > conn.latest => n \in Range(p)
    BY DEF WaitOK, AfterLatest
  <1>3. \A n \in Range(p) : \E i \in DOMAIN p : p[i] = n BY DEF Range
  <1> HIDE DEF p
  <1>4. \A n \in rest : n \in Range(p) /\ n > conn.latest BY DEF Drained
  <1>5. \A n : (/\ n \in Range(p) /\ n > conn.latest
                /\ \E i \in DOMAIN p : p[i] = n /\ \A j \in 1..(i - 1) : p[j] < n) => n \in rest
    BY DEF Drained
  <1> HIDE DEF rest
  <1>6. rest \subseteq announced \intersect Visible BY <1>2, <1>3, <1>4
  <1>7. ASSUME NEW i \in DOMAIN p, p[i] > conn.latest, \A j \in 1..(i - 1) : ~(p[j] > p[i])
        PROVE  p[i] \in rest
    <2>1. \A j \in 1..(i - 1) : j \in DOMAIN p /\ j < i BY <1>1
    <2>2. \A j \in 1..(i - 1) : p[j] \in Nat /\ p[i] \in Nat /\ p[j] # p[i] BY <1>1, <1>2, <2>1
    <2>3. \A j \in 1..(i - 1) : p[j] < p[i] BY <1>7, <2>2
    <2>4. p[i] \in Range(p) BY DEF Range
    <2> QED BY <1>5, <1>7, <2>3, <2>4
  <1>8. ASSUME NEW n \in announced \intersect Visible, n > conn.latest, n \notin late PROVE n \in rest
    <2>1. PICK i \in DOMAIN p : p[i] = n BY <1>2, <1>3, <1>8
    <2>2. \A j \in 1..(i - 1) : j \in DOMAIN p /\ j < i BY <1>1
    <2>3. \A j \in 1..(i - 1) : ~(p[j] > p[i]) BY <1>2, <1>8, <2>1, <2>2
    <2> QED BY <1>7, <1>8, <2>1, <2>3
  <1>9. ASSUME NEW n \in announced \intersect Visible, n > conn.latest PROVE \E g \in rest : n <= g
    <2>1. Range(p) \in SUBSET (0..MaxSeq)
      <3>1. \A i \in DOMAIN p : p[i] \in Row BY <1>1
      <3> QED BY <1>1, <1>3, <3>1 DEF Row
    <2>2. n \in Range(p) BY <1>2, <1>9
    <2>3. Max(Range(p)) \in Range(p) /\ \A m \in Range(p) : m <= Max(Range(p)) BY <1>1, <2>1, <2>2, GreatestRow
    <2>4. PICK i \in DOMAIN p : p[i] = Max(Range(p)) BY <1>3, <2>3
    <2>5. \A j \in 1..(i - 1) : p[j] \in Range(p) BY <1>1 DEF Range
    <2>6. \A m \in Range(p) : m \in Nat BY <2>1
    <2>7. \A j \in 1..(i - 1) : ~(p[j] > p[i]) BY <2>3, <2>4, <2>5, <2>6
    <2>8. n <= p[i] /\ p[i] > conn.latest
      <3>1. n \in Nat /\ p[i] \in Nat BY <2>2, <2>3, <2>4, <2>6
      <3>2. n <= p[i] BY <2>2, <2>3, <2>4
      <3> QED BY <1>1, <1>9, <3>1, <3>2
    <2> QED BY <1>7, <2>7, <2>8
  <1> QED BY <1>4, <1>6, <1>8, <1>9 DEF rest, p

(* All that is owed up to the last row sent is sent, or told of, or late.  *)
LEMMA ReplyAccounts ==
    ASSUME StreamInv, conn.phase = "reply", NEW m \in Owed, NEW n, 
           n = conn.latest \/ n \in Drained(conn.pending, conn.latest), m <= n
    PROVE  \/ m \in Has \union All(wire) \union conn.rows
           \/ m \in Drained(conn.pending, conn.latest)
           \/ conn.scanned < m /\ m <= conn.latest
  <1>1. StreamTypeOK /\ LateOK /\ ConnOK /\ WaitOK /\ AccountsOK BY DEF StreamInv
  <1>2. /\ m \in Nat /\ m \in Visible /\ m \in 1..counter /\ conn.scanned \in Nat /\ conn.latest \in Nat
        /\ announced \subseteq Nat
    BY <1>1, StreamParts
  <1>3. CASE m <= conn.scanned BY <1>1, <1>3 DEF AccountsOK, AccountsOf
  <1>4. CASE conn.scanned < m /\ m <= conn.latest BY <1>4
  <1>5. CASE conn.latest < m
    <2>1. n \in Drained(conn.pending, conn.latest) BY <1>2, <1>5
    <2>2. n \in announced /\ n \in Nat BY <1>1, <1>2, <2>1, DrainedRows
    <2>3. m \in announced \/ m \in late
      <3>1. m = n \/ m \in 1..(n - 1) BY <1>2, <2>2
      <3> QED BY <1>1, <2>2, <3>1 DEF LateOK
    <2>4. m \in announced => m \in Drained(conn.pending, conn.latest) \/ m \in late
      BY <1>1, <1>2, <1>5, DrainedRows
    <2> QED BY <2>3, <2>4 DEF Has
  <1> QED BY <1>2, <1>3, <1>4, <1>5

LEMMA ReplyKeeps ==
    ASSUME StreamInv, Reply
    PROVE  StreamInv'
  <1>1. StreamTypeOK /\ IdOK /\ LateOK /\ ConnOK /\ WaitOK /\ AccountsOK BY DEF StreamInv
  <1> DEFINE rest == Drained(conn.pending, conn.latest)
             last == Max({conn.latest} \union rest)
             c == [conn EXCEPT !.phase = "live", !.rows = {}, !.pending = <<>>, !.last = last]
  <1>2. /\ conn.phase = "reply" /\ conn' = c /\ UNCHANGED <<logVars, clientVars, cuts>>
    BY DEF Reply
  <1>3. PICK s \in InOrder(conn.rows), t \in InOrder(rest) : wire' = wire \o (Frames(s) \o LimitGap \o Frames(t))
    BY DEF Reply, Sends
  <1>4. /\ counter \in Nat /\ conn \in Connection /\ conn.latest \in Nat /\ conn.latest <= counter
        /\ conn.latest \in 0..counter /\ conn.scanned \in Nat /\ wire \in Seq(Message) /\ Events(wire) = {}
        /\ Reached(conn.latest) /\ conn.scanned <= counter /\ (lastId = NoId => conn.rows = {})
        /\ (\A n \in conn.rows : n <= conn.scanned /\ Reached(n)) /\ conn.rows \subseteq Row
        /\ announced \subseteq 1..counter /\ Row \subseteq Nat \ {0}
    <2>1. /\ counter \in Nat /\ conn \in Connection /\ conn.latest \in Nat /\ conn.scanned \in Nat
          /\ wire \in Seq(Message) /\ conn.rows \subseteq Row /\ announced \subseteq 1..counter
      BY <1>1, StreamParts DEF StreamTypeOK
    <2>2. /\ conn.latest <= counter /\ Events(wire) = {} /\ conn.scanned <= counter
          /\ Reached(conn.latest) /\ (lastId = NoId => conn.rows = {})
          /\ \A n \in conn.rows : n <= conn.scanned /\ Reached(n)
      BY <1>1, <1>2 DEF ConnOK, AfterLatest
    <2> QED BY <2>1, <2>2, RowsAreFinite
  <1>5. /\ rest \subseteq announced \intersect Visible /\ \A n \in rest : n > conn.latest
        /\ \A n \in announced \intersect Visible : n > conn.latest => \E g \in rest : n <= g
    BY <1>1, <1>2, DrainedRows
  <1>6. rest \in SUBSET Row
    <2>1. Visible \in SUBSET Row BY <1>1, StreamParts
    <2> QED BY <1>5, <2>1
  <1>7. \A m \in Owed : \A n : (n = conn.latest \/ n \in rest) /\ m <= n =>
           \/ m \in Has \union All(wire) \union conn.rows \/ m \in rest
           \/ conn.scanned < m /\ m <= conn.latest
    BY <1>2, ReplyAccounts
  <1> HIDE DEF rest
  <1>8. last \in {conn.latest} \union rest /\ \A n \in {conn.latest} \union rest : n <= last
    <2> DEFINE sent == {conn.latest} \union rest
    <2>1. sent \in SUBSET (0..counter) /\ sent # {}
      <3>1. \A n \in 1..counter : n \in 0..counter BY <1>4
      <3>2. \A n \in rest : n \in 1..counter BY <1>4, <1>5
      <3> QED BY <1>4, <3>1, <3>2
    <2> HIDE DEF sent
    <2>2. Max(sent) \in sent /\ \A n \in sent : n <= Max(sent) BY <1>4, <2>1, GreatestRow
    <2> QED BY <2>2 DEF sent
  <1> HIDE DEF last
  <1>9. last \in Nat /\ last <= counter /\ conn.latest <= last
    <2>1. \A n \in rest : n \in 1..counter BY <1>4, <1>5
    <2>2. conn.latest <= last BY <1>8
    <2>3. last = conn.latest \/ last \in 1..counter BY <1>8, <2>1
    <2> QED BY <1>4, <2>2, <2>3
  <1>10. /\ c \in Connection /\ c.phase = "live" /\ c.rows = {} /\ c.pending = <<>> /\ c.last = last
         /\ c.latest = conn.latest
    <2> DEFINE b == [conn EXCEPT !.phase = "live", !.rows = {}]
               d == [b EXCEPT !.pending = <<>>]
    <2>1. b \in Connection /\ b.phase = "live" /\ b.rows = {} /\ b.latest = conn.latest BY <1>4 DEF Connection
    <2>2. d = [conn EXCEPT !.phase = "live", !.rows = {}, !.pending = <<>>] BY <1>4 DEF Connection
    <2> HIDE DEF b
    <2>3. d \in Connection /\ d.phase = "live" /\ d.rows = {} /\ d.pending = <<>> /\ d.latest = conn.latest
      <3>1. <<>> \in Seq(Row) OBVIOUS
      <3> QED BY <2>1, <3>1 DEF Connection
    <2>4. c = [d EXCEPT !.last = last] BY <1>4, <2>2 DEF Connection
    <2> HIDE DEF d, c
    <2> QED BY <1>9, <2>3, <2>4 DEF Connection
  <1> HIDE DEF c
  <1>11. Owed \subseteq Nat
    <2>1. Owed \subseteq 1..counter BY <1>1, StreamParts
    <2> QED BY <1>4, <2>1
  <1> DEFINE x == Frames(s)
             y == LimitGap
             z == Frames(t)
             more == (x \o y) \o z
             known == Has \union All(wire)
  <1>12. /\ x \in Seq(Message) /\ All(x) = conn.rows /\ Events(x) = conn.rows /\ Singles(x, conn.rows)
         /\ Pays(x, known, Owed)
    <2>1. \A n \in conn.rows, m \in Owed : m <= n => m \in known \union conn.rows
      <3> SUFFICES ASSUME NEW n \in conn.rows, NEW m \in Owed, m <= n PROVE m \in known \union conn.rows OBVIOUS
      <3>1. m <= conn.scanned
        <4>1. n \in Nat /\ m \in Nat /\ n <= conn.scanned BY <1>4, <1>11
        <4> QED BY <1>4, <4>1
      <3> QED BY <1>1, <1>2, <3>1 DEF AccountsOK, AccountsOf
    <2>2. conn.rows \in SUBSET Row BY <1>4
    <2> HIDE DEF known
    <2> QED BY <1>11, <2>1, <2>2, FramesTell
  <1>13. /\ y \in Seq(Message) /\ All(y) = (conn.scanned + 1)..conn.latest /\ Events(y) = {}
         /\ Singles(y, 1..counter) /\ Pays(y, known \union All(x), Owed)
    <2>1. CASE conn.scanned < conn.latest
      <3>1. LimitGap = <<Gap(conn.scanned + 1, conn.latest)>> /\ conn.scanned + 1 \in Nat /\ conn.latest \in Int
        BY <1>4, <2>1 DEF LimitGap
      <3> HIDE DEF x, known
      <3> QED BY <3>1, GapTells
    <2>2. CASE ~(conn.scanned < conn.latest)
      <3>1. LimitGap = <<>> /\ (conn.scanned + 1)..conn.latest = {} BY <1>4, <2>2 DEF LimitGap
      <3> HIDE DEF x, known
      <3> QED BY <3>1, NoMessages
    <2> QED BY <2>1, <2>2
  <1>14. \A m \in Owed : \A n : (n = conn.latest \/ n \in rest) /\ m <= n =>
            m \in known \union All(x) \union All(y) \union rest
    BY <1>4, <1>7, <1>11, <1>12, <1>13
  <1>15. /\ z \in Seq(Message) /\ All(z) = rest /\ Events(z) = rest /\ Singles(z, rest)
         /\ Pays(z, (known \union All(x)) \union All(y), Owed)
    <2>1. \A n \in rest, m \in Owed : m <= n => m \in ((known \union All(x)) \union All(y)) \union rest
      BY <1>14
    <2> HIDE DEF x, y, known
    <2> QED BY <1>6, <1>11, <2>1, FramesTell
  <1> HIDE DEF x, y, z, known
  <1>16. /\ x \o y \in Seq(Message) /\ All(x \o y) = All(x) \union All(y) /\ Events(x \o y) = conn.rows
         /\ Singles(x \o y, 1..counter) /\ Pays(x \o y, known, Owed)
    <2>1. \A n \in conn.rows : n \in 1..counter
      <3>1. \A n \in conn.rows : n \in Nat \ {0} /\ n <= conn.scanned BY <1>4
      <3> QED BY <1>4, <3>1
    <2>2. Singles(x, 1..counter) BY <1>12, <2>1 DEF Singles
    <2>3. x \o y \in Seq(Message) /\ All(x \o y) = All(x) \union All(y) /\ Events(x \o y) = Events(x) \union Events(y)
      BY <1>12, <1>13, ConcatTells
    <2>4. Singles(x \o y, 1..counter) BY <1>12, <1>13, <2>2, ConcatSingles
    <2>5. Pays(x \o y, known, Owed) BY <1>12, <1>13, ConcatPays
    <2> QED BY <1>12, <1>13, <2>3, <2>4, <2>5
  <1>17. /\ more \in Seq(Message) /\ All(more) = (All(x) \union All(y)) \union rest
         /\ Events(more) = conn.rows \union rest
         /\ Singles(more, 1..counter) /\ Pays(more, known, Owed)
    <2>1. Singles(z, 1..counter) BY <1>4, <1>5, <1>15 DEF Singles
    <2>2. Pays(z, known \union All(x \o y), Owed)
      <3>1. (known \union All(x)) \union All(y) = known \union All(x \o y) BY <1>16
      <3> QED BY <1>15, <3>1
    <2> DEFINE v == x \o y
    <2>3. v \in Seq(Message) /\ Singles(v, 1..counter) /\ Pays(v, known, Owed) BY <1>16
    <2> HIDE DEF v
    <2>4. v \o z \in Seq(Message) /\ All(v \o z) = All(v) \union All(z) /\ Events(v \o z) = Events(v) \union Events(z)
      BY <1>15, <2>3, ConcatTells
    <2>5. Singles(v \o z, 1..counter) BY <1>15, <2>1, <2>3, ConcatSingles
    <2>6. Pays(v \o z, known, Owed) BY <1>15, <2>2, <2>3, ConcatPays DEF v
    <2> QED BY <1>15, <1>16, <2>4, <2>5, <2>6 DEF v
  <1>18. wire' = wire \o more BY <1>3 DEF x, y, z, more
  <1> HIDE DEF more
  <1>19. /\ StreamTypeOK' /\ IdOK' /\ LateOK' /\ Has' = Has /\ Visible' = Visible /\ Retained' = Retained
         /\ All(wire') = All(wire) \union All(more) /\ Came' = Came \union (conn.rows \union rest)
         /\ counter' = counter /\ announced' = announced /\ late' = late
         /\ client' = client /\ lastId' = lastId /\ got' = got
    BY <1>2, <1>10, <1>17, <1>18, CatchUpFrame
  <1>20. Came \in SUBSET Nat BY <1>1, CameTyped
  <1>21. \A n \in conn.rows \union rest : n \in Nat /\ Reached(n)
    <2>1. \A n \in rest : n \in Nat /\ conn.latest <= n BY <1>4, <1>5, <1>6
    <2>2. \A n \in rest : Reached(n) BY <1>4, <1>20, <2>1, ReachesFurther DEF Reached
    <2> QED BY <1>4, <2>1, <2>2
  <1>22. Owed' \subseteq Owed
    <2>1. Visible \intersect Retained \in SUBSET Nat /\ conn.rows \union rest \in SUBSET Nat
      BY <1>1, <1>21, StreamParts
    <2>2. OwedOf(Visible \intersect Retained, client.start, Came \union (conn.rows \union rest), conn.latest)
            \subseteq OwedOf(Visible \intersect Retained, client.start, Came, conn.latest)
      BY <1>4, <1>20, <1>21, <2>1, OwesAsFar DEF Reached
    <2> QED BY <1>2, <1>10, <1>19, <2>2 DEF Owed
  <1>23. ConnOK'
    <2>1. ReachedOf(client.start, Came \union (conn.rows \union rest), conn.latest, last)
      <3>1. CASE client.start # NoId BY <3>1 DEF ReachedOf
      <3>2. CASE \E g \in Came : g <= conn.latest
        <4>1. PICK g \in Came : g <= conn.latest BY <3>2
        <4>2. g <= last BY <1>4, <1>9, <1>20, <4>1
        <4> QED BY <4>2 DEF ReachedOf
      <3>3. CASE client.start = NoId /\ Came = {}
        <4>1. conn.rows = {} BY <1>1, <1>4, <3>3, WithoutId DEF Came
        <4>2. CASE rest = {} BY <1>9, <3>3, <4>1, <4>2 DEF ReachedOf
        <4>3. CASE rest # {} BY <1>8, <4>3 DEF ReachedOf
        <4> QED BY <4>2, <4>3
      <3> QED BY <1>4, <3>1, <3>2, <3>3 DEF Reached, ReachedOf
    <2> QED BY <1>2, <1>9, <1>10, <1>19, <2>1 DEF ConnOK, AfterLatest, Reached
  <1>24. WaitOK'
    <2>1. \A n \in announced \intersect Visible : n <= last
      <3> SUFFICES ASSUME NEW n \in announced \intersect Visible PROVE n <= last OBVIOUS
      <3>1. n \in Nat BY <1>4
      <3>2. CASE n <= conn.latest BY <1>4, <1>9, <3>1, <3>2
      <3>3. CASE n > conn.latest
        <4>1. PICK g \in rest : n <= g BY <1>5, <3>3
        <4>2. g \in Nat /\ g <= last BY <1>8, <1>21, <4>1
        <4> QED BY <1>9, <3>1, <4>1, <4>2
      <3> QED BY <1>4, <3>1, <3>2, <3>3
    <2> QED BY <1>2, <1>10, <1>19, <2>1 DEF WaitOK, AfterLatest
  <1>25. AccountsOK'
    <2>1. AccountsOf(conn, wire, lastId, Has, Owed') BY <1>1, <1>22, AccountsKept DEF AccountsOK
    <2>2. Pays(wire', Has, Owed')
      <3>1. Pays(wire, Has, Owed) BY <1>1 DEF AccountsOK, AccountsOf
      <3>2. Pays(wire \o more, Has, Owed) BY <1>4, <1>17, <3>1, ConcatPays DEF known
      <3> QED BY <1>18, <1>22, <3>2, PaysMore
    <2>3. \A m \in Owed' : m <= last => m \in Has \union All(wire')
      BY <1>8, <1>14, <1>17, <1>19, <1>22 DEF known
    <2>4. AccountsOf(c, wire', lastId, Has, Owed') BY <1>10, <2>1, <2>2, <2>3 DEF AccountsOf
    <2> QED BY <1>2, <1>19, <2>4 DEF AccountsOK
  <1> QED BY <1>19, <1>23, <1>24, <1>25 DEF StreamInv

-----------------------------------------------------------------------------
(* publish(row): it waits, it goes out, or it is at or below what was sent.*)
LEMMA PublishedLate ==
    ASSUME StreamInv, NEW n, Published(n), UNCHANGED <<counter, pruned, clientVars, cuts>>
    PROVE  /\ n \in 1..counter /\ n \notin announced /\ n \in Nat /\ counter \in Nat
           /\ announced' = announced \union {n} /\ late \subseteq late'
           /\ announced' \subseteq 1..counter /\ late' \subseteq 1..counter
           /\ LateOK' /\ Has \subseteq Has' /\ Visible' = Visible /\ Retained' = Retained
           /\ \A m \in Nat \ {0} : m < n => m \in announced \/ m \in late'
           /\ \A m \in announced : m > n => n \in late
  <1>1. StreamTypeOK /\ LateOK BY DEF StreamInv
  <1>2. /\ counter \in Nat /\ announced \subseteq 1..counter /\ late \subseteq 1..counter
    BY <1>1, StreamParts DEF StreamTypeOK
  <1>3. /\ n \in 1..counter /\ n \notin announced /\ announced' = announced \union {n}
        /\ late' = late \union (1..(n - 1) \ announced)
    BY DEF Published
  <1>4. n \in Nat /\ \A m \in 1..(n - 1) : m \in 1..counter BY <1>2, <1>3
  <1>5. announced' \subseteq 1..counter /\ late' \subseteq 1..counter BY <1>2, <1>3, <1>4
  <1>6. \A m \in 1..(n - 1) : m \in announced \/ m \in late' BY <1>3
  <1>7. LateOK' BY <1>1, <1>3, <1>6 DEF LateOK
  <1>8. \A m \in announced : m > n => n \in late
    <2> SUFFICES ASSUME NEW m \in announced, m > n PROVE n \in late OBVIOUS
    <2>1. n \in 1..(m - 1) BY <1>2, <1>3
    <2> QED BY <1>1, <1>3, <2>1 DEF LateOK
  <1>9. \A m \in Nat \ {0} : m < n => m \in announced \/ m \in late' BY <1>4, <1>6
  <1>10. Has \subseteq Has' /\ Visible' = Visible /\ Retained' = Retained
    BY <1>3 DEF Has, Visible, Retained, clientVars
  <1> QED BY <1>2, <1>3, <1>4, <1>5, <1>7, <1>8, <1>9, <1>10

LEMMA AnnounceKeeps ==
    ASSUME StreamInv, NEW n \in Row, Announce(n)
    PROVE  StreamInv'
  <1>1. StreamTypeOK /\ IdOK /\ LateOK /\ ConnOK /\ WaitOK /\ AccountsOK BY DEF StreamInv
  <1>2. /\ Published(n) /\ UNCHANGED <<counter, pruned, clientVars, cuts>>
        /\ counter' = counter /\ pruned' = pruned /\ client' = client /\ lastId' = lastId
        /\ got' = got /\ told' = told /\ cuts' = cuts
    BY DEF Announce, clientVars
  <1>3. /\ n \in 1..counter /\ n \notin announced /\ n \in Nat /\ counter \in Nat
        /\ announced' = announced \union {n} /\ late \subseteq late'
        /\ announced' \subseteq 1..counter /\ late' \subseteq 1..counter
        /\ LateOK' /\ Has \subseteq Has' /\ Visible' = Visible /\ Retained' = Retained
        /\ \A m \in Nat \ {0} : m < n => m \in announced \/ m \in late'
        /\ \A m \in announced : m > n => n \in late
    BY <1>2, PublishedLate
  <1>4. conn \in Connection /\ wire \in Seq(Message) /\ conn.last \in Nat BY <1>1, StreamParts DEF StreamTypeOK
  <1>5. CASE CatchingUp /\ n \in Visible
    <2> DEFINE c == [conn EXCEPT !.pending = Append(@, n)]
    <2>1. conn' = c /\ wire' = wire /\ conn.phase \notin {"closed", "live"}
      BY <1>5 DEF Announce, CatchingUp, Mine
    <2>2. /\ conn.pending \in Seq(Row) /\ Append(conn.pending, n) \in Seq(Row)
          /\ Len(conn.pending) \in Nat /\ DOMAIN conn.pending = 1..Len(conn.pending)
          /\ DOMAIN Append(conn.pending, n) = 1..(Len(conn.pending) + 1)
          /\ \A i \in DOMAIN conn.pending : Append(conn.pending, n)[i] = conn.pending[i]
          /\ Append(conn.pending, n)[Len(conn.pending) + 1] = n
      BY <1>1, StreamParts
    <2>3. /\ c \in Connection /\ c.phase = conn.phase /\ c.last = conn.last /\ c.latest = conn.latest
          /\ c.at = conn.at /\ c.from = conn.from /\ c.rows = conn.rows /\ c.scanned = conn.scanned
          /\ c.pending = Append(conn.pending, n)
      BY <1>4, <2>2 DEF Connection
    <2> HIDE DEF c
    <2>4. StreamTypeOK' BY <1>1, <1>2, <1>3, <2>1, <2>3 DEF StreamTypeOK
    <2>5. IdOK' BY <1>1, <1>2, <2>1 DEF IdOK
    <2>6. Came' = Came BY <1>2, <2>1 DEF Came
    <2>7. Owed' = Owed BY <1>2, <1>3, <2>1, <2>3, <2>6 DEF Owed
    <2>8. ConnOK' BY <1>1, <1>2, <2>1, <2>3, <2>6 DEF ConnOK, AfterLatest, Reached
    <2>9. WaitOK'
      <3> DEFINE p == conn.pending  q == Append(conn.pending, n)
      <3>1. /\ Len(p) \in Nat /\ DOMAIN p = 1..Len(p) /\ DOMAIN q = 1..(Len(p) + 1)
            /\ (\A i \in DOMAIN p : q[i] = p[i]) /\ q[Len(p) + 1] = n
        BY <2>2
      <3>2. /\ \A i \in DOMAIN p : p[i] \in announced \intersect Visible
            /\ \A i, j \in DOMAIN p : j < i => p[j] # p[i] /\ (p[j] > p[i] => p[i] \in late)
            /\ AfterLatest(conn) => \A m \in announced \intersect Visible : m > conn.latest => m \in Range(p)
        BY <1>1 DEF WaitOK
      <3> HIDE DEF p, q
      <3>3. \A i \in DOMAIN q : i \in DOMAIN p \/ i = Len(p) + 1 BY <3>1
      <3>4. \A i \in DOMAIN q : q[i] \in announced' \intersect Visible BY <1>3, <1>5, <3>1, <3>2, <3>3
      <3>5. ASSUME NEW i \in DOMAIN q, NEW j \in DOMAIN q, j < i
            PROVE  q[j] # q[i] /\ (q[j] > q[i] => q[i] \in late')
        <4>1. j \in DOMAIN p BY <3>1, <3>5
        <4>2. CASE i \in DOMAIN p BY <1>3, <3>1, <3>2, <3>5, <4>1, <4>2
        <4>3. CASE i = Len(p) + 1 BY <1>3, <3>1, <3>2, <4>1, <4>3
        <4> QED BY <3>3, <4>2, <4>3
      <3>6. n \in Range(q) /\ Range(p) \subseteq Range(q)
        <4>1. n \in Range(q) BY <3>1 DEF Range
        <4>2. \A i \in DOMAIN p : i \in DOMAIN q BY <3>1
        <4> QED BY <3>1, <4>1, <4>2 DEF Range
      <3>7. AfterLatest(c) => \A m \in announced' \intersect Visible : m > c.latest => m \in Range(q)
        BY <1>3, <2>3, <3>2, <3>6 DEF AfterLatest
      <3>8. c.pending = q BY <2>3 DEF q
      <3> QED BY <1>3, <2>1, <2>3, <3>4, <3>5, <3>7, <3>8 DEF WaitOK
    <2>10. AccountsOK'
      <3>1. AccountsOf(conn, wire, lastId, Has', Owed) BY <1>1, <1>3, AccountsKept DEF AccountsOK
      <3>2. AccountsOf(c, wire, lastId, Has', Owed) BY <2>3, <3>1 DEF AccountsOf
      <3> QED BY <1>2, <2>1, <2>7, <3>2 DEF AccountsOK
    <2> QED BY <1>3, <2>4, <2>5, <2>8, <2>9, <2>10 DEF StreamInv
  <1>6. CASE conn.phase = "live" /\ n \in Visible /\ n > conn.last
    <2> DEFINE c == [conn EXCEPT !.last = n]
    <2>1. conn' = c /\ wire' = Append(wire, Frame(n))
      BY <1>6 DEF Announce, CatchingUp, Mine
    <2>2. /\ c \in Connection /\ c.phase = "live" /\ c.last = n /\ c.latest = conn.latest /\ c.pending = conn.pending
      BY <1>3, <1>4, <1>6 DEF Connection
    <2> HIDE DEF c
    <2>3. /\ conn.last <= counter /\ Reached(conn.last) /\ conn.pending = <<>>
          /\ \A m \in announced \intersect Visible : m <= conn.last
      BY <1>1, <1>6 DEF StreamTypeOK, ConnOK, WaitOK
    <2>4. Owed \subseteq Nat \ {0} /\ Owed \subseteq Visible /\ Came \in SUBSET Nat
          /\ Visible \intersect Retained \in SUBSET Nat /\ conn.latest \in Nat /\ announced \subseteq Nat
      <3>1. Owed \subseteq 1..counter /\ Owed \subseteq Visible \intersect Retained /\ Came \in SUBSET Nat
            /\ Visible \intersect Retained \in SUBSET Nat /\ conn.latest \in Nat /\ announced \subseteq Nat
        BY <1>1, StreamParts, CameTyped
      <3> QED BY <1>3, <3>1
    <2>5. \A m \in Owed : m <= n => m \in (Has' \union All(wire)) \union {n}
      <3> SUFFICES ASSUME NEW m \in Owed, m <= n, m # n, m \notin Has' PROVE m \in All(wire)
        OBVIOUS
      <3>1. m \in Nat \ {0} /\ m < n BY <1>3, <2>4
      <3>2. m \notin late' BY DEF Has
      <3>3. m \in announced BY <1>3, <3>1, <3>2
      <3>4. m <= conn.last BY <2>3, <2>4, <3>3
      <3> QED BY <1>1, <1>3, <1>6, <3>4 DEF AccountsOK, AccountsOf
    <2>6. /\ Frame(n) \in Message /\ <<Frame(n)>> \in Seq(Message) /\ Frame(n).rows = {n}
          /\ All(<<Frame(n)>>) = {n} /\ Events(<<Frame(n)>>) = {n}
          /\ Pays(<<Frame(n)>>, Has' \union All(wire), Owed)
      BY <1>3, <2>5, FrameTells
    <2>7. wire' = wire \o <<Frame(n)>> BY <1>4, <2>1, <2>6, AppendIsConcat
    <2>8. /\ wire' \in Seq(Message) /\ All(wire') = All(wire) \union {n} /\ Events(wire') = Events(wire) \union {n}
      <3> DEFINE f == <<Frame(n)>>
      <3>1. f \in Seq(Message) /\ All(f) = {n} /\ Events(f) = {n} /\ wire' = wire \o f BY <2>6, <2>7
      <3> HIDE DEF f
      <3>2. wire \o f \in Seq(Message) /\ All(wire \o f) = All(wire) \union All(f)
            /\ Events(wire \o f) = Events(wire) \union Events(f)
        BY <1>4, <3>1, ConcatTells
      <3> QED BY <3>1, <3>2
    <2>9. StreamTypeOK' BY <1>1, <1>2, <1>3, <1>6, <2>1, <2>2, <2>8 DEF StreamTypeOK
    <2>10. IdOK'
      <3>1. Singles(<<Frame(n)>>, 1..counter)
        <4>1. DOMAIN <<Frame(n)>> = {1} /\ <<Frame(n)>>[1] = Frame(n) BY <2>6, OneMessage
        <4> QED BY <1>3, <2>6, <4>1 DEF Singles
      <3>2. Singles(wire', 1..counter) BY <1>1, <1>4, <2>6, <2>7, <3>1, ConcatSingles DEF IdOK
      <3> QED BY <1>1, <1>2, <3>2 DEF IdOK
    <2>11. Came' = Came \union {n} BY <1>2, <2>8 DEF Came
    <2>12. Owed' \subseteq Owed
      <3>1. ReachedOf(client.start, Came, conn.latest, n)
        BY <1>3, <1>4, <1>6, <2>3, <2>4, ReachesFurther DEF Reached
      <3>2. OwedOf(Visible \intersect Retained, client.start, Came \union {n}, conn.latest)
              \subseteq OwedOf(Visible \intersect Retained, client.start, Came, conn.latest)
        <4>1. {n} \in SUBSET Nat /\ \A k \in {n} : ReachedOf(client.start, Came, conn.latest, k) BY <1>3, <3>1
        <4> QED BY <2>4, <4>1, OwesAsFar
      <3> QED BY <1>2, <1>3, <2>1, <2>2, <2>11, <3>2 DEF Owed
    <2>13. ConnOK'
      <3>1. ReachedOf(client.start, Came \union {n}, conn.latest, n) BY <1>3 DEF ReachedOf
      <3>2. n <= counter BY <1>3
      <3> QED BY <1>2, <2>1, <2>2, <2>11, <3>1, <3>2 DEF ConnOK, AfterLatest, Reached
    <2>14. WaitOK'
      <3>1. \A m \in announced' \intersect Visible : m <= n BY <1>3, <1>4, <1>6, <2>3, <2>4
      <3> QED BY <1>3, <2>1, <2>2, <2>3, <3>1 DEF WaitOK, AfterLatest
    <2>15. AccountsOK'
      <3>1. AccountsOf(conn, wire, lastId, Has', Owed') BY <1>1, <1>3, <2>12, AccountsKept DEF AccountsOK
      <3>2. Pays(wire', Has', Owed')
        <4>1. Pays(<<Frame(n)>>, Has' \union All(wire), Owed') BY <2>6, <2>12, PaysMore
        <4>2. Pays(wire, Has', Owed') BY <3>1 DEF AccountsOf
        <4> QED BY <1>4, <2>6, <2>7, <4>1, <4>2, ConcatPays
      <3>3. \A m \in Owed' : m <= n => m \in Has' \union All(wire') BY <2>5, <2>8, <2>12
      <3>4. AccountsOf(c, wire', lastId, Has', Owed') BY <2>2, <3>1, <3>2, <3>3 DEF AccountsOf
      <3> QED BY <1>2, <2>1, <3>4 DEF AccountsOK
    <2> QED BY <1>3, <2>9, <2>10, <2>13, <2>14, <2>15 DEF StreamInv
  <1>7. CASE ~(CatchingUp /\ n \in Visible) /\ ~(conn.phase = "live" /\ n \in Visible /\ n > conn.last)
    <2>1. conn' = conn /\ wire' = wire BY <1>7 DEF Announce, Mine
    <2>2. StreamTypeOK' BY <1>1, <1>2, <1>3, <2>1 DEF StreamTypeOK
    <2>3. IdOK' BY <1>1, <1>2, <2>1 DEF IdOK
    <2>4. Came' = Came BY <1>2, <2>1 DEF Came
    <2>5. Owed' = Owed BY <1>2, <1>3, <2>1, <2>4 DEF Owed
    <2>6. ConnOK' BY <1>1, <1>2, <2>1, <2>4 DEF ConnOK, AfterLatest, Reached
    <2>7. WaitOK'
      <3>1. AfterLatest(conn) => n \notin Visible BY <1>7 DEF AfterLatest, CatchingUp
      <3>2. conn.phase = "live" => n \notin Visible \/ n <= conn.last BY <1>3, <1>4, <1>7
      <3> QED BY <1>1, <1>3, <2>1, <3>1, <3>2 DEF WaitOK, AfterLatest
    <2>8. AccountsOK'
      <3>1. AccountsOf(conn, wire, lastId, Has', Owed) BY <1>1, <1>3, AccountsKept DEF AccountsOK
      <3> QED BY <1>2, <2>1, <2>5, <3>1 DEF AccountsOK
    <2> QED BY <1>3, <2>2, <2>3, <2>6, <2>7, <2>8 DEF StreamInv
  <1> QED BY <1>5, <1>6, <1>7

-----------------------------------------------------------------------------
(* What arrives is what was owed up to it; what is on the way accounts for *)
(* the rest as before.                                                     *)
LEMMA ReceiveKeeps ==
    ASSUME StreamInv, Receive
    PROVE  StreamInv'
  <1>1. StreamTypeOK /\ IdOK /\ LateOK /\ ConnOK /\ WaitOK /\ AccountsOK BY DEF StreamInv
  <1> DEFINE m == Head(wire)
  <1>2. /\ wire # <<>> /\ wire' = Tail(wire) /\ conn' = conn /\ client' = client /\ cuts' = cuts
        /\ counter' = counter /\ pruned' = pruned /\ announced' = announced /\ late' = late
        /\ \/ m.kind = "event" /\ got' = got \union m.rows /\ lastId' = Max(m.rows) /\ told' = told
           \/ m.kind # "event" /\ told' = told \union m.rows /\ got' = got /\ lastId' = lastId
    BY DEF Receive, logVars
  <1>3. wire \in Seq(Message) /\ Pays(wire, Has, Owed) BY <1>1 DEF StreamTypeOK, AccountsOK, AccountsOf
  <1>4. /\ m \in Message /\ m = wire[1] /\ 1 \in DOMAIN wire /\ Tail(wire) \in Seq(Message)
        /\ \A i \in DOMAIN Tail(wire) : i + 1 \in DOMAIN wire /\ Tail(wire)[i] = wire[i + 1]
        /\ All(wire) = m.rows \union All(Tail(wire))
        /\ Events(wire) = (IF m.kind = "event" THEN m.rows ELSE {}) \union Events(Tail(wire))
        /\ m.kind = "event" => \A n \in m.rows, p \in Owed : p <= n => p \in Has \union m.rows
        /\ Pays(Tail(wire), Has \union m.rows, Owed)
    BY <1>2, <1>3, FirstTells
  <1>5. m.rows \subseteq Nat BY <1>4 DEF Message
  <1>6. Singles(wire, 1..counter) /\ Singles(Tail(wire), 1..counter)
    <2>1. Singles(wire, 1..counter) BY <1>1 DEF IdOK
    <2> QED BY <1>4, <2>1 DEF Singles
  <1> HIDE DEF m
  <1>7. ASSUME m.kind = "event"
        PROVE  \E n \in 1..counter : m.rows = {n} /\ lastId' = n /\ got' = got \union {n} /\ told' = told
    <2>1. PICK n \in 1..counter : m.rows = {n} BY <1>4, <1>6, <1>7 DEF Singles
    <2>2. Max({n}) = n
      <3>1. \A k \in {n} : k >= n OBVIOUS
      <3>2. Max({n}) \in {n} BY <3>1 DEF Max
      <3> QED BY <3>2
    <2> QED BY <1>2, <1>7, <2>1, <2>2
  <1>8. Has' = Has \union m.rows /\ Visible' = Visible /\ Retained' = Retained /\ Came' = Came
        /\ Has' \union All(wire') = Has \union All(wire)
    <2>1. Has' = Has \union m.rows BY <1>2 DEF Has
    <2>2. Came' = Came BY <1>2, <1>4 DEF Came
    <2> QED BY <1>2, <1>4, <2>1, <2>2 DEF Visible, Retained
  <1>9. Owed' = Owed BY <1>2, <1>8 DEF Owed
  <1>10. counter \in Nat /\ counter <= MaxSeq /\ MaxSeq \in Nat BY <1>1, StreamParts
  <1>11. StreamTypeOK'
    <2>1. got' \subseteq Row /\ told' \subseteq Nat /\ lastId' \in Nat \union {NoId}
      <3>1. CASE m.kind = "event"
        <4>1. PICK n \in 1..counter : lastId' = n /\ got' = got \union {n} /\ told' = told BY <1>7, <3>1
        <4>2. n \in Row /\ n \in Nat BY <1>10 DEF Row
        <4>3. got \subseteq Row /\ told \subseteq Nat BY <1>1 DEF StreamTypeOK
        <4> QED BY <4>1, <4>2, <4>3
      <3>2. CASE m.kind # "event" BY <1>1, <1>2, <1>5, <3>2 DEF StreamTypeOK
      <3> QED BY <3>1, <3>2
    <2> QED BY <1>1, <1>2, <1>4, <2>1 DEF StreamTypeOK
  <1>12. IdOK'
    <2>1. NoId \notin Nat /\ client.start \in Nat \union {NoId} BY <1>1, StreamParts
    <2>2. Singles(wire', 1..counter') BY <1>2, <1>6
    <2>3. CASE m.kind = "event"
      <3>1. PICK n \in 1..counter : lastId' = n /\ got' = got \union {n} BY <1>7, <2>3
      <3>2. lastId' \in got' /\ lastId' # NoId /\ got' \subseteq 1..counter
        <4>1. got \subseteq 1..counter BY <1>1 DEF IdOK
        <4> QED BY <1>10, <2>1, <3>1, <4>1
      <3> QED BY <1>2, <2>2, <3>2 DEF IdOK
    <2>4. CASE m.kind # "event" BY <1>1, <1>2, <2>2, <2>4 DEF IdOK
    <2> QED BY <2>3, <2>4
  <1>13. LateOK' BY <1>1, <1>2 DEF LateOK
  <1>14. m.kind = "event" => conn.phase = "live" BY <1>1, <1>4, <1>7 DEF ConnOK
  <1>15. ConnOK'
    <2>1. CASE conn.phase = "live" BY <1>1, <1>2, <1>8, <2>1 DEF ConnOK, AfterLatest, Reached
    <2>2. CASE conn.phase # "live"
      <3>1. lastId' = lastId /\ got' = got /\ Events(wire') = {} BY <1>1, <1>2, <1>4, <1>14, <2>2 DEF ConnOK
      <3> QED BY <1>1, <1>2, <1>8, <2>2, <3>1 DEF ConnOK, AfterLatest, Reached
    <2> QED BY <2>1, <2>2
  <1>16. WaitOK' BY <1>1, <1>2, <1>8 DEF WaitOK, AfterLatest
  <1>17. AccountsOK'
    <2>1. AccountsOf(conn, wire, lastId, Has', Owed) BY <1>1, <1>8, AccountsKept DEF AccountsOK
    <2>2. lastId' # NoId => \A p \in Owed : p <= lastId' => p \in Has'
      <3>1. CASE m.kind = "event" BY <1>4, <1>7, <1>8, <3>1
      <3>2. CASE m.kind # "event" BY <1>2, <2>1, <3>2 DEF AccountsOf
      <3> QED BY <3>1, <3>2
    <2>3. Pays(wire', Has', Owed) BY <1>2, <1>4, <1>8
    <2>4. AccountsOf(conn, wire', lastId', Has', Owed)
      BY <1>1, <1>8, <2>2, <2>3 DEF AccountsOK, AccountsOf
    <2> QED BY <1>2, <1>9, <2>4 DEF AccountsOK
  <1> QED BY <1>11, <1>12, <1>13, <1>15, <1>16, <1>17 DEF StreamInv

-----------------------------------------------------------------------------
(* The invariant holds at the start and through every step, and it implies *)
(* that a client that resumes has all it passed.                           *)
LEMMA StreamBegins ==
    ASSUME StreamInit
    PROVE  StreamInv
  <1>1. /\ counter = 0 /\ pruned = 0 /\ announced = {} /\ late = {} /\ conn = NoConn /\ wire = <<>>
        /\ client \in Client /\ lastId = client.start /\ got = {} /\ told = {} /\ cuts = 0
    BY DEF StreamInit
  <1>2. StreamTypeOK
    <2>1. client.start \in Nat \union {NoId} /\ MaxSeq \in Nat /\ MaxCuts \in Nat BY <1>1, StreamShape, StreamBounds
    <2> QED BY <1>1, <2>1, NoConnTyped, NoMessages DEF StreamTypeOK
  <1>3. Owed = {}
    <2>1. Retained = {} BY <1>1 DEF Retained
    <2> QED BY <2>1 DEF Owed, OwedOf
  <1>4. IdOK BY <1>1, NoMessages DEF IdOK
  <1>5. LateOK BY <1>1 DEF LateOK
  <1>6. ConnOK BY <1>1, NoConnTyped, NoMessages DEF ConnOK, AfterLatest
  <1>7. WaitOK BY <1>1, NoConnTyped DEF WaitOK, AfterLatest
  <1>8. AccountsOK BY <1>3 DEF AccountsOK, AccountsOf, Pays
  <1> QED BY <1>2, <1>4, <1>5, <1>6, <1>7, <1>8 DEF StreamInv

LEMMA StreamStutters ==
    ASSUME StreamInv, UNCHANGED streamVars
    PROVE  StreamInv'
  <1>1. /\ counter' = counter /\ pruned' = pruned /\ announced' = announced /\ late' = late
        /\ client' = client /\ conn' = conn /\ wire' = wire /\ lastId' = lastId /\ got' = got
        /\ told' = told /\ cuts' = cuts
    BY DEF streamVars
  <1>2. Has' = Has /\ Came' = Came /\ Visible' = Visible /\ Retained' = Retained
    BY <1>1 DEF Has, Came, Visible, Retained
  <1>3. Owed' = Owed BY <1>1, <1>2 DEF Owed
  <1>4. StreamTypeOK' /\ IdOK' /\ LateOK' BY <1>1 DEF StreamInv, StreamTypeOK, IdOK, LateOK
  <1>5. ConnOK' BY <1>1, <1>2 DEF StreamInv, ConnOK, AfterLatest, Reached
  <1>6. WaitOK' BY <1>1, <1>2 DEF StreamInv, WaitOK, AfterLatest
  <1>7. AccountsOK' BY <1>1, <1>2, <1>3 DEF StreamInv, AccountsOK
  <1> QED BY <1>4, <1>5, <1>6, <1>7 DEF StreamInv

LEMMA ResumesFromInv ==
    ASSUME StreamInv
    PROVE  ResumesSound
  <1>1. StreamTypeOK /\ IdOK /\ AccountsOK BY DEF StreamInv
  <1>2. SUFFICES ASSUME lastId # NoId, NEW n \in Passed PROVE n \in Owed
    BY <1>1 DEF ResumesSound, ResumeMissesNothing, AccountsOK, AccountsOf, Passed, Has
  <1>3. n \in Visible \intersect Retained /\ First < n /\ n <= lastId BY DEF Passed
  <1>4. CASE client.start # NoId BY <1>3, <1>4 DEF First, Owed, OwedOf
  <1>5. CASE client.start = NoId
    <2>1. lastId \in got BY <1>1, <1>2, <1>5 DEF IdOK
    <2>2. got \in SUBSET Nat /\ got # {} /\ got \union {lastId} = got BY <1>1, <2>1, StreamParts
    <2>3. Min(got) \in got BY <2>2, LeastRow
    <2>4. First \in Came /\ First < n BY <1>3, <1>5, <2>2, <2>3 DEF First, Came
    <2> QED BY <1>3, <1>5, <2>4 DEF Owed, OwedOf
  <1> QED BY <1>4, <1>5

(* A client that resumes misses nothing: of all it may see between its     *)
(* first position, or its first event, and its last, it has every row that *)
(* is retained, or a gap told it, or a later one was published before it,  *)
(* over any number of cuts and restarts.                                   *)
THEOREM ResumesAreSound == StreamSpec => []ResumesSound
  <1>1. StreamInit => StreamInv BY StreamBegins
  <1>2. StreamInv /\ [StreamNext]_streamVars => StreamInv'
    <2> SUFFICES ASSUME StreamInv, [StreamNext]_streamVars PROVE StreamInv' OBVIOUS
    <2>1. CASE Commit \/ Prune BY <2>1, LogKeeps
    <2>2. CASE Connect BY <2>2, ConnectKeeps
    <2>3. CASE ReadHead BY <2>3, ReadHeadKeeps
    <2>4. CASE ReadLatest BY <2>4, ReadLatestKeeps
    <2>5. CASE ReadOldest \/ ReadEmpty BY <2>5, ReadOldestKeeps
    <2>6. CASE \E from \in 0..(MaxSeq + 1) : ReadWindow(from) BY <2>6, ReadWindowKeeps
    <2>7. CASE ReadScan BY <2>7, ReadScanKeeps
    <2>8. CASE Reply BY <2>8, ReplyKeeps
    <2>9. CASE \E n \in Row : Announce(n) BY <2>9, AnnounceKeeps
    <2>10. CASE Receive BY <2>10, ReceiveKeeps
    <2>11. CASE Cut \/ Restart BY <2>11, DisconnectKeeps
    <2>12. CASE UNCHANGED streamVars BY <2>12, StreamStutters
    <2> QED BY <2>1, <2>2, <2>3, <2>4, <2>5, <2>6, <2>7, <2>8, <2>9, <2>10, <2>11, <2>12 DEF StreamNext, CatchUp
  <1>3. StreamInv => ResumesSound BY ResumesFromInv
  <1> QED BY <1>1, <1>2, <1>3, PTL DEF StreamSpec
=============================================================================
