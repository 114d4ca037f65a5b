------------------------ MODULE DeliveryQueueProofs ------------------------
(* Theorems about DeliveryQueue, for every value of its constants.         *)
EXTENDS DeliveryQueue, FiniteSetTheorems, TLAPS


(* The rows the actions write.                                             *)
LEMMA NullRows == NoRow \in Row /\ FreshRow \in Row
BY DEF NoRow, FreshRow, Row, Status

LEMMA WrittenRows ==
    ASSUME NEW d \in Row
    PROVE  /\ Requeued(d) \in Row /\ Older(d) \in Row
           /\ \A w \in Worker, i \in Slot : LeasedTo(d, w, i) \in Row
<1>1. Requeued(d) \in Row
  BY DEF Requeued, Row, Status
<1>2. Less(d.wait) \in Nat /\ Less(d.lease) \in Nat
  BY DEF Row, Less
<1>3. Older(d) \in Row
  BY <1>2 DEF Older, Row
<1>4. \A i \in Slot : i \in Nat
  BY NaturalBounds DEF Slot
<1>5. LeaseTicks \in Nat
  BY NaturalBounds
<1>6. \A w \in Worker, i \in Slot : LeasedTo(d, w, i) \in Row
  BY <1>4, <1>5 DEF LeasedTo, Row
<1> QED BY <1>1, <1>3, <1>6

LEMMA BackoffIsNat == ASSUME NEW n \in Nat \ {0} PROVE BackoffAfter(n) \in Nat
BY NaturalBounds DEF BackoffAfter

LEMMA RecordedRow ==
    ASSUME NEW d \in Row, NEW job \in Job, NEW once \in BOOLEAN
    PROVE  Recorded(d, job, once) \in Row
<1>1. job.attempt \in Nat \ {0} /\ BackoffAfter(job.attempt) \in Nat
  BY BackoffIsNat DEF Job
<1> QED BY <1>1 DEF Recorded, Row, Status

(* Writing one row.                                                        *)
LEMMA OneRow ==
    ASSUME TypeOK, NEW s \in Sub, NEW e \in Event, NEW row \in Row,
           delivery' = [delivery EXCEPT ![s][e] = row]
    PROVE  /\ delivery' \in [Sub -> [Event -> Row]]
           /\ \A r \in Sub, f \in Event :
                 delivery'[r][f] = IF r = s /\ f = e THEN row ELSE delivery[r][f]
BY DEF TypeOK

(* Writing one send slot.                                                  *)
LEMMA OneSlot ==
    ASSUME TypeOK, NEW w \in Worker, NEW i \in Slot, NEW job \in Job \union {Idle},
           send' = [send EXCEPT ![w][i] = job]
    PROVE  /\ send' \in [Worker -> [Slot -> Job \union {Idle}]]
           /\ \A v \in Worker, j \in Slot :
                 send'[v][j] = IF v = w /\ j = i THEN job ELSE send[v][j]
BY DEF TypeOK

LEMMA PassSlots == PassSlot \subseteq Slot /\ 0 \notin PassSlot
BY NaturalBounds DEF PassSlot, Slot

(* What a pass is left with.                                               *)
LEMMA SlotCounts ==
    ASSUME NEW w \in Worker
    PROVE  Cardinality(IdleSlots(w)) \in 0..MaxInflight /\ AppRoom(w) \in 0..MaxAppInflight
<1>1. IsFiniteSet(PassSlot) /\ Cardinality(PassSlot) = MaxInflight
  BY FS_Interval, NaturalBounds DEF PassSlot
<1>2. ASSUME NEW S \in SUBSET PassSlot PROVE Cardinality(S) \in 0..MaxInflight
  <2>1. IsFiniteSet(S) /\ Cardinality(S) <= MaxInflight
    BY <1>1, FS_Subset
  <2>2. Cardinality(S) \in Nat
    BY <2>1, FS_CardinalityType
  <2> QED BY <2>1, <2>2, NaturalBounds
<1>3. Cardinality(IdleSlots(w)) \in 0..MaxInflight
  BY <1>2 DEF IdleSlots
<1>4. Cardinality(AppSends(w)) \in 0..MaxInflight
  BY <1>2 DEF AppSends
<1> QED BY <1>3, <1>4, NaturalBounds DEF AppRoom

LEMMA PassRecords ==
    /\ NoPass \in Pass
    /\ \A p \in Pass, i \in PassSlot, s \in Sub :
          p.room > 0 /\ (s \in AppSub => p.app > 0) => PassAfter(p, i, s) \in Pass
<1>1. NoPass \in Pass
  BY NaturalBounds DEF NoPass, Pass
<1>2. ASSUME NEW p \in Pass, NEW i \in PassSlot, NEW s \in Sub, p.room > 0, s \in AppSub => p.app > 0
      PROVE  PassAfter(p, i, s) \in Pass
  <2>1. /\ p.room \in 0..MaxInflight /\ p.app \in 0..MaxAppInflight /\ p.taken \in SUBSET PassSlot
    BY DEF Pass
  <2>2. p.room - 1 \in 0..MaxInflight
    BY <1>2, <2>1, NaturalBounds
  <2>3. (IF s \in AppSub THEN p.app - 1 ELSE p.app) \in 0..MaxAppInflight
    BY <1>2, <2>1, NaturalBounds
  <2>4. p.taken \union {i} \in SUBSET PassSlot
    BY <2>1
  <2> QED BY <2>2, <2>3, <2>4 DEF PassAfter, Pass
<1> QED BY <1>1, <1>2

(* What the histories gain.                                                *)
LEMMA ReachGains ==
    ASSUME TypeOK, NEW s \in Sub, NEW e \in Event, Reach(s, e)
    PROVE  /\ reached' \in [Sub -> [Event -> 0..2]]
           /\ reached'[s][e] > 0
           /\ \A r \in Sub, f \in Event : r # s \/ f # e => reached'[r][f] = reached[r][f]
<1> DEFINE n == IF e \in AtMostOnce /\ reached[s][e] > 0 THEN 2 ELSE 1
<1>1. n \in 0..2 /\ n > 0
  OBVIOUS
<1>2. reached' = [reached EXCEPT ![s][e] = n]
  BY DEF Reach, TypeOK
<1> HIDE DEF n
<1> QED BY <1>1, <1>2 DEF TypeOK

LEMMA ExcuseGains ==
    ASSUME TypeOK, NEW s \in Sub, NEW es \in SUBSET Event,
           excused' = [excused EXCEPT ![s] = @ \union es]
    PROVE  /\ excused' \in [Sub -> SUBSET Event]
           /\ \A r \in Sub : excused'[r] = IF r = s THEN excused[r] \union es ELSE excused[r]
<1>1. excused[s] \union es \in SUBSET Event
  BY DEF TypeOK
<1> QED BY <1>1 DEF TypeOK

LEMMA AgainGains ==
    ASSUME TypeOK, NEW s \in Sub, NEW es \in SUBSET AtMostOnce,
           again' = [again EXCEPT ![s] = @ \union es]
    PROVE  /\ again' \in [Sub -> SUBSET AtMostOnce]
           /\ \A r \in Sub : again'[r] = IF r = s THEN again[r] \union es ELSE again[r]
<1>1. again[s] \union es \in SUBSET AtMostOnce
  BY DEF TypeOK
<1> QED BY <1>1 DEF TypeOK

LEMMA UnrecordedGains ==
    ASSUME TypeOK, NEW w \in Worker, NEW slots \in SUBSET Slot, Unrecorded(w, slots)
    PROVE  /\ again' \in [Sub -> SUBSET AtMostOnce]
           /\ \A s \in Sub : again[s] \subseteq again'[s]
           /\ \A s \in Sub, e \in AtMostOnce, i \in slots : Posted(w, i, s, e) => e \in again'[s]
<1>1. \A s \in Sub : again'[s] = again[s] \union {e \in AtMostOnce : \E i \in slots : Posted(w, i, s, e)}
  BY DEF Unrecorded
<1>2. again' = [s \in Sub |-> again'[s]]
  BY DEF Unrecorded
<1>3. \A s \in Sub : again[s] \in SUBSET AtMostOnce
  BY DEF TypeOK
<1>4. \A s \in Sub : again'[s] \in SUBSET AtMostOnce
  BY <1>1, <1>3
<1>5. again' \in [Sub -> SUBSET AtMostOnce]
  BY <1>2, <1>4
<1> QED BY <1>1, <1>5

(* A slot that is not idle holds a job.                                    *)
LEMMA JobFields ==
    ASSUME TypeOK, NEW w \in Worker, NEW i \in Slot, send[w][i].phase # "idle"
    PROVE  /\ send[w][i] \in Job
           /\ send[w][i].sub \in Sub /\ send[w][i].seq \in Event
           /\ send[w][i].attempt \in Nat \ {0}
           /\ send[w][i].phase \in {"claimed", "ok", "error", "refused"}
<1>1. send[w][i] \in Job
  BY DEF TypeOK, Idle
<1> QED BY <1>1 DEF Job

-----------------------------------------------------------------------------
LEMMA TypeInit == Init => TypeOK
BY NaturalBounds, NullRows, PassRecords DEF Init, TypeOK

(* The steps of the system, as the proofs split them.                      *)
Claims(w, i, s, e) == ClaimDue(w, i, s, e) \/ ClaimHinted(w, i, s, e)
PassStep(w) == BeginPass(w) \/ StartPass(w)
LifeStep(w) == Stop(w) \/ Stopped(w) \/ Crash(w)
QueueStep ==
    \/ \E e \in Event : Publish(e)
    \/ \E s \in Sub, b \in BOOLEAN : SetEnabled(s, b)
    \/ \E s \in Sub, es \in SUBSET Event : Replay(s, es)
    \/ \E e \in Event, to \in {"replay", "gone"} : Prune(e, to)
    \/ Tick

LEMMA TypeQueue == ASSUME TypeOK, QueueStep PROVE TypeOK'
<1>1. ASSUME NEW e \in Event, Publish(e) PROVE TypeOK'
  BY <1>1, NullRows DEF Publish, counts, histories, TypeOK
<1>2. ASSUME NEW s \in Sub, NEW b \in BOOLEAN, SetEnabled(s, b) PROVE TypeOK'
  BY <1>2 DEF SetEnabled, counts, histories, TypeOK
<1>3. ASSUME NEW s \in Sub, NEW es \in SUBSET Event, Replay(s, es) PROVE TypeOK'
  <2>1. delivery' \in [Sub -> [Event -> Row]]
    BY <1>3, WrittenRows DEF Replay, TypeOK
  <2>2. replays' \in 0..MaxReplays /\ excused' \in [Sub -> SUBSET Event]
    BY <1>3, NaturalBounds DEF Replay, TypeOK
  <2>3. again' \in [Sub -> SUBSET AtMostOnce]
    <3>1. es \cap AtMostOnce \in SUBSET AtMostOnce
      OBVIOUS
    <3> QED BY <1>3, <3>1, AgainGains DEF Replay
  <2> QED BY <1>3, <2>1, <2>2, <2>3 DEF Replay, TypeOK
<1>4. ASSUME NEW e \in Event, NEW to \in {"replay", "gone"}, Prune(e, to) PROVE TypeOK'
  BY <1>4, NullRows DEF Prune, counts, histories, TypeOK
<1>5. ASSUME Tick PROVE TypeOK'
  BY <1>5, WrittenRows DEF Tick, counts, histories, TypeOK
<1> QED BY <1>1, <1>2, <1>3, <1>4, <1>5 DEF QueueStep

(* A pass that begins or ends: nothing else changes.                       *)
PassOnly == UNCHANGED <<tier, delivery, enabled, send, life, counts, histories>>

LEMMA TypePass ==
    ASSUME TypeOK, NEW w \in Worker, PassStep(w)
    PROVE  TypeOK' /\ PassOnly
<1>1. PassOnly
  BY DEF PassStep, BeginPass, StartPass, PassOnly
<1>2. PICK p \in Pass : pass' = [pass EXCEPT ![w] = p]
  <2>1. [open |-> TRUE, room |-> Cardinality(IdleSlots(w)), app |-> AppRoom(w), taken |-> {}] \in Pass
    BY SlotCounts DEF Pass
  <2> QED BY <2>1, PassRecords DEF PassStep, BeginPass, StartPass
<1>3. pass' \in [Worker -> Pass]
  BY <1>2 DEF TypeOK
<1> QED BY <1>1, <1>3 DEF PassOnly, counts, histories, TypeOK

LEMMA TypeTake ==
    ASSUME TypeOK, NEW w \in Worker, NEW i \in Slot, NEW s \in Sub, NEW e \in Event, Take(w, i, s, e),
           pass' \in [Worker -> Pass]
    PROVE  TypeOK'
<1> DEFINE job == [phase |-> "claimed", sub |-> s, seq |-> e, attempt |-> delivery[s][e].attempt + 1]
<1>1. delivery[s][e] \in Row
  BY DEF TypeOK
<1>2. LeasedTo(delivery[s][e], w, i) \in Row /\ job \in Job
  BY <1>1, WrittenRows DEF Job, Row
<1>3. delivery' \in [Sub -> [Event -> Row]]
  BY <1>2, OneRow DEF Take
<1>4. send' \in [Worker -> [Slot -> Job \union {Idle}]]
  BY <1>2, OneSlot DEF Take
<1> QED BY <1>3, <1>4 DEF Take, counts, histories, TypeOK

(* Every way to take a delivery goes through Take; a pass takes one with   *)
(* what it has left, and a carrier while its process is up.                *)
LEMMA ClaimsTake ==
    ASSUME TypeOK, NEW w \in Worker, NEW i \in Slot, NEW s \in Sub, NEW e \in Event, Claims(w, i, s, e)
    PROVE  /\ Take(w, i, s, e) /\ Claimable(s, e) /\ UnderCap(s) /\ send[w][i] = Idle
           /\ pass' \in [Worker -> Pass]
           /\ life[w] = "up" \/ pass[w].open
           /\ \A v \in Worker : pass'[v].open = pass[v].open /\ (~pass[v].open => pass'[v] = pass[v])
<1>1. CASE ClaimHinted(w, i, s, e)
  BY <1>1 DEF ClaimHinted, FirstIdle, TypeOK
<1>2. CASE ClaimDue(w, i, s, e)
  <2> DEFINE after == PassAfter(pass[w], i, s)
  <2>1. i \in PassSlot /\ pass[w] \in Pass /\ pass[w].room > 0 /\ (s \in AppSub => pass[w].app > 0)
    BY <1>2 DEF ClaimDue, FirstIdle, TypeOK
  <2>2. after \in Pass
    BY <2>1, PassRecords
  <2>3. after.open = pass[w].open
    BY <2>1 DEF PassAfter, Pass
  <2>4. pass' = [pass EXCEPT ![w] = after]
    BY <1>2 DEF ClaimDue, TypeOK
  <2> HIDE DEF after
  <2>5. /\ pass' \in [Worker -> Pass] /\ pass[w].open
        /\ \A v \in Worker : pass'[v].open = pass[v].open /\ (v # w => pass'[v] = pass[v])
    BY <1>2, <2>2, <2>3, <2>4 DEF ClaimDue, TypeOK
  <2> QED BY <1>2, <2>5 DEF ClaimDue, FirstIdle
<1> QED BY <1>1, <1>2 DEF Claims

(* What a recorded attempt and a thrown one write.                         *)
LEMMA RecordWrites ==
    ASSUME TypeOK, NEW w \in Worker, NEW i \in Slot, NEW once \in BOOLEAN, Record(w, i, once)
    PROVE  /\ send[w][i] \in Job /\ send[w][i].sub \in Sub /\ send[w][i].seq \in Event
           /\ send' = [send EXCEPT ![w][i] = Idle]
           /\ delivery' \in [Sub -> [Event -> Row]]
           /\ excused' \in [Sub -> SUBSET Event] /\ \A s \in Sub : excused[s] \subseteq excused'[s]
           /\ again' \in [Sub -> SUBSET AtMostOnce] /\ \A s \in Sub : again[s] \subseteq again'[s]
<1> DEFINE job == send[w][i]
           last == IF job.phase # "ok" /\ Final(job, once) THEN {job.seq} ELSE {}
           missed == IF job.phase = "error" /\ ~once THEN {job.seq} \cap AtMostOnce ELSE {}
<1>1. job \in Job /\ job.sub \in Sub /\ job.seq \in Event /\ send' = [send EXCEPT ![w][i] = Idle]
  BY JobFields DEF Record, Finish
<1>2. last \in SUBSET Event /\ missed \in SUBSET AtMostOnce
  BY <1>1
<1>3. \/ UNCHANGED <<delivery, excused, again>>
      \/ /\ delivery' = [delivery EXCEPT ![job.sub][job.seq] = Recorded(delivery[job.sub][job.seq], job, once)]
         /\ excused' = [excused EXCEPT ![job.sub] = @ \union last]
         /\ again' = [again EXCEPT ![job.sub] = @ \union missed]
  BY DEF Record, Excuses
<1>4. Recorded(delivery[job.sub][job.seq], job, once) \in Row
  BY <1>1, RecordedRow DEF TypeOK
<1>5. delivery' \in [Sub -> [Event -> Row]]
  BY <1>1, <1>3, <1>4, OneRow DEF TypeOK
<1> HIDE DEF last, missed
<1>6. excused' \in [Sub -> SUBSET Event] /\ \A s \in Sub : excused[s] \subseteq excused'[s]
  <2>1. CASE excused' = excused
    BY <2>1 DEF TypeOK
  <2>2. CASE excused' = [excused EXCEPT ![job.sub] = @ \union last]
    BY <1>1, <1>2, <2>2, ExcuseGains
  <2> QED BY <1>3, <2>1, <2>2
<1>7. again' \in [Sub -> SUBSET AtMostOnce] /\ \A s \in Sub : again[s] \subseteq again'[s]
  <2>1. CASE again' = again
    BY <2>1 DEF TypeOK
  <2>2. CASE again' = [again EXCEPT ![job.sub] = @ \union missed]
    BY <1>1, <1>2, <2>2, AgainGains
  <2> QED BY <1>3, <2>1, <2>2
<1> QED BY <1>1, <1>5, <1>6, <1>7

LEMMA ThrowWrites ==
    ASSUME TypeOK, NEW w \in Worker, NEW i \in Slot, Throw(w, i)
    PROVE  /\ send[w][i] \in Job /\ send[w][i].sub \in Sub /\ send[w][i].seq \in Event
           /\ send' = [send EXCEPT ![w][i] = Idle]
           /\ delivery' \in [Sub -> [Event -> Row]]
           /\ \A s \in Sub, e \in Event :
                 /\ s # send[w][i].sub \/ e # send[w][i].seq => delivery'[s][e] = delivery[s][e]
                 /\ delivery'[s][e].status = delivery[s][e].status
                 /\ delivery'[s][e].owner = delivery[s][e].owner
                 /\ delivery'[s][e].lease = delivery[s][e].lease
                 /\ delivery'[s][e].slot = delivery[s][e].slot \/ delivery'[s][e].slot = 0
           /\ LET s == send[w][i].sub
                  e == send[w][i].seq
              IN  delivery[s][e].owner = w /\ delivery[s][e].slot = i => delivery'[s][e].slot = 0
<1> DEFINE job == send[w][i]
           row == [delivery[job.sub][job.seq] EXCEPT !.slot = 0]
<1>1. job.phase # "idle"
  <2>1. job \in Job \union {Idle}
    BY DEF TypeOK
  <2>2. job \in Job
    BY <2>1 DEF Throw
  <2> QED BY <2>2 DEF Job
<1>2. job \in Job /\ job.sub \in Sub /\ job.seq \in Event
  BY <1>1, JobFields
<1>3. send' = [send EXCEPT ![w][i] = Idle]
  BY DEF Throw, Finish
<1>4. delivery[job.sub][job.seq] \in Row
  BY <1>2 DEF TypeOK
<1>5. /\ row \in Row /\ row.status = delivery[job.sub][job.seq].status /\ row.slot = 0
      /\ row.owner = delivery[job.sub][job.seq].owner /\ row.lease = delivery[job.sub][job.seq].lease
  BY <1>4 DEF Row
<1>6. IF Holds(w, job.sub, job.seq) /\ delivery[job.sub][job.seq].slot = i
      THEN delivery' = [delivery EXCEPT ![job.sub][job.seq] = row] ELSE delivery' = delivery
  BY DEF Throw, TypeOK
<1> HIDE DEF row
<1>7. CASE delivery' = [delivery EXCEPT ![job.sub][job.seq] = row]
  <2>1. /\ delivery' \in [Sub -> [Event -> Row]]
        /\ \A s \in Sub, e \in Event :
              delivery'[s][e] = IF s = job.sub /\ e = job.seq THEN row ELSE delivery[s][e]
    BY <1>2, <1>5, <1>7, OneRow
  <2>2. \A s \in Sub, e \in Event :
            /\ s # job.sub \/ e # job.seq => delivery'[s][e] = delivery[s][e]
            /\ delivery'[s][e].status = delivery[s][e].status
            /\ delivery'[s][e].owner = delivery[s][e].owner
            /\ delivery'[s][e].lease = delivery[s][e].lease
            /\ delivery'[s][e].slot = delivery[s][e].slot \/ delivery'[s][e].slot = 0
    <3> SUFFICES ASSUME NEW s \in Sub, NEW e \in Event
                 PROVE  /\ s # job.sub \/ e # job.seq => delivery'[s][e] = delivery[s][e]
                        /\ delivery'[s][e].status = delivery[s][e].status
                        /\ delivery'[s][e].owner = delivery[s][e].owner
                        /\ delivery'[s][e].lease = delivery[s][e].lease
                        /\ delivery'[s][e].slot = delivery[s][e].slot \/ delivery'[s][e].slot = 0
      OBVIOUS
    <3>1. CASE s = job.sub /\ e = job.seq
      <4>1. delivery'[s][e] = row
        BY <2>1, <3>1
      <4> QED BY <1>5, <3>1, <4>1
    <3>2. CASE ~(s = job.sub /\ e = job.seq)
      <4>1. delivery'[s][e] = delivery[s][e]
        BY <2>1, <3>2
      <4> QED BY <3>2, <4>1
    <3> QED BY <3>1, <3>2
  <2>3. delivery'[job.sub][job.seq].slot = 0
    <3>1. delivery'[job.sub][job.seq] = row
      BY <1>2, <2>1
    <3> QED BY <1>5, <3>1
  <2> QED BY <1>2, <1>3, <2>1, <2>2, <2>3
<1>8. CASE delivery' = delivery /\ ~(Holds(w, job.sub, job.seq) /\ delivery[job.sub][job.seq].slot = i)
  BY <1>2, <1>3, <1>8 DEF TypeOK, Holds
<1> QED BY <1>6, <1>7, <1>8

LEMMA TypeSend ==
    ASSUME TypeOK, NEW w \in Worker, NEW i \in Slot, SendStep(w, i)
    PROVE  TypeOK'
<1>1. CASE GiveUp(w, i)
  BY <1>1, OneSlot DEF GiveUp, Finish, counts, histories, TypeOK
<1>2. ASSUME NEW answer \in {"ok", "error", "refused"}, Post(w, i, answer) PROVE TypeOK'
  <2>1. send[w][i] \in Job /\ send[w][i].sub \in Sub /\ send[w][i].seq \in Event
    BY <1>2, JobFields DEF Post
  <2>2. [send[w][i] EXCEPT !.phase = answer] \in Job
    BY <2>1 DEF Job
  <2>3. send' = [send EXCEPT ![w][i] = [send[w][i] EXCEPT !.phase = answer]]
    BY <1>2 DEF Post, TypeOK
  <2>4. send' \in [Worker -> [Slot -> Job \union {Idle}]]
    BY <2>2, <2>3, OneSlot
  <2>5. reached' \in [Sub -> [Event -> 0..2]]
    BY <1>2, <2>1, ReachGains DEF Post, TypeOK
  <2> QED BY <1>2, <2>4, <2>5 DEF Post, counts, TypeOK
<1>3. ASSUME NEW once \in BOOLEAN, Record(w, i, once) PROVE TypeOK'
  <2>1. send' \in [Worker -> [Slot -> Job \union {Idle}]]
    <3>1. send' = [send EXCEPT ![w][i] = Idle]
      BY <1>3, RecordWrites
    <3> QED BY <3>1, OneSlot
  <2>2. UNCHANGED <<tier, enabled, pass, life, replays, throws, reached>>
    BY <1>3 DEF Record, counts
  <2> QED BY <1>3, <2>1, <2>2, RecordWrites DEF TypeOK
<1>4. CASE Throw(w, i)
  <2>1. send' \in [Worker -> [Slot -> Job \union {Idle}]]
    <3>1. send' = [send EXCEPT ![w][i] = Idle]
      BY <1>4, ThrowWrites
    <3> QED BY <3>1, OneSlot
  <2>2. throws' \in 0..MaxThrows
    BY <1>4, NaturalBounds DEF Throw, TypeOK
  <2>3. again' \in [Sub -> SUBSET AtMostOnce]
    BY <1>4, UnrecordedGains DEF Throw
  <2>4. UNCHANGED <<tier, enabled, pass, life, replays, reached, excused>>
    BY <1>4 DEF Throw
  <2> QED BY <1>4, <2>1, <2>2, <2>3, <2>4, ThrowWrites DEF TypeOK
<1> QED BY <1>1, <1>2, <1>3, <1>4 DEF SendStep

(* A process that goes drops its sends and its pass.                       *)
LEMMA DropWrites ==
    ASSUME TypeOK, NEW w \in Worker, Drop(w)
    PROVE  /\ send' \in [Worker -> [Slot -> Job \union {Idle}]] /\ pass' \in [Worker -> Pass]
           /\ \A i \in Slot : send'[w][i] = Idle
           /\ \A v \in Worker \ {w}, i \in Slot : send'[v][i] = send[v][i]
           /\ pass'[w] = NoPass /\ \A v \in Worker \ {w} : pass'[v] = pass[v]
           /\ again' \in [Sub -> SUBSET AtMostOnce]
           /\ \A s \in Sub : again[s] \subseteq again'[s]
           /\ \A s \in Sub, e \in AtMostOnce, i \in Slot : Posted(w, i, s, e) => e \in again'[s]
<1>1. /\ send' \in [Worker -> [Slot -> Job \union {Idle}]]
      /\ \A i \in Slot : send'[w][i] = Idle
      /\ \A v \in Worker \ {w}, i \in Slot : send'[v][i] = send[v][i]
  BY DEF Drop, TypeOK
<1>2. pass' = [pass EXCEPT ![w] = NoPass] /\ NoPass \in Pass
  BY PassRecords DEF Drop
<1>3. pass' \in [Worker -> Pass] /\ pass'[w] = NoPass /\ \A v \in Worker \ {w} : pass'[v] = pass[v]
  BY <1>2 DEF TypeOK
<1>4. Slot \in SUBSET Slot /\ Unrecorded(w, Slot)
  BY DEF Drop
<1> QED BY <1>1, <1>3, <1>4, UnrecordedGains

LEMMA TypeLife ==
    ASSUME TypeOK, NEW w \in Worker, LifeStep(w)
    PROVE  TypeOK'
<1>1. CASE Stop(w)
  BY <1>1 DEF Stop, counts, histories, TypeOK
<1>2. CASE Stopped(w) \/ Crash(w)
  <2>1. Drop(w) /\ UNCHANGED <<tier, delivery, enabled, replays, throws, reached, excused>>
    BY <1>2 DEF Stopped, Crash, counts
  <2>2. life' \in [Worker -> {"up", "stopping", "stopped", "crashed"}]
    BY <1>2 DEF Stopped, Crash, TypeOK
  <2> QED BY <2>1, <2>2, DropWrites DEF TypeOK
<1> QED BY <1>1, <1>2 DEF LifeStep

LEMMA StepCases ==
    ASSUME Next
    PROVE  \/ QueueStep
           \/ \E w \in Worker : PassStep(w)
           \/ \E w \in Worker, i \in Slot, s \in Sub, e \in Event : Claims(w, i, s, e)
           \/ \E w \in Worker, i \in Slot : SendStep(w, i)
           \/ \E w \in Worker : LifeStep(w)
BY DEF Next, Step, Claim, QueueStep, PassStep, LifeStep, Claims

LEMMA TypeNext == TypeOK /\ [Next]_vars => TypeOK'
<1> SUFFICES ASSUME TypeOK, [Next]_vars PROVE TypeOK'
  OBVIOUS
<1>1. CASE QueueStep
  BY <1>1, TypeQueue
<1>2. ASSUME NEW w \in Worker, NEW i \in Slot, NEW s \in Sub, NEW e \in Event, Claims(w, i, s, e)
      PROVE  TypeOK'
  BY <1>2, ClaimsTake, TypeTake
<1>3. ASSUME NEW w \in Worker, NEW i \in Slot, SendStep(w, i) PROVE TypeOK'
  BY <1>3, TypeSend
<1>4. ASSUME NEW w \in Worker, LifeStep(w) PROVE TypeOK'
  BY <1>4, TypeLife
<1>5. CASE UNCHANGED vars
  BY <1>5 DEF vars, counts, histories, TypeOK
<1>6. ASSUME NEW w \in Worker, PassStep(w) PROVE TypeOK'
  BY <1>6, TypePass
<1> QED BY <1>1, <1>2, <1>3, <1>4, <1>5, <1>6, StepCases

(* The type invariant: every variable keeps its shape, rows, sends and     *)
(* counters alike, whatever the workers, carriers and operators do.        *)
THEOREM TypeCorrect == Spec => []TypeOK
BY TypeInit, TypeNext, PTL DEF Spec

-----------------------------------------------------------------------------
(* A pass is under way only in a process that is up or stopping, and only  *)
(* a pass under way has slots it took and not started.                     *)
PassInv == \A w \in Worker :
    /\ pass[w].open => Live(w)
    /\ ~pass[w].open => pass[w].taken = {}

LEMMA PassNext == TypeOK /\ PassInv /\ [Next]_vars => PassInv'
<1> SUFFICES ASSUME TypeOK, PassInv, [Next]_vars PROVE PassInv'
  OBVIOUS
<1>1. ASSUME UNCHANGED <<pass, life>> PROVE PassInv'
  BY <1>1 DEF PassInv, Live
<1>2. CASE QueueStep
  <2>1. UNCHANGED <<pass, life>>
    BY <1>2 DEF QueueStep, Publish, SetEnabled, Replay, Prune, Tick
  <2> QED BY <1>1, <2>1
<1>3. ASSUME NEW w \in Worker, PassStep(w) PROVE PassInv'
  <2>1. life' = life
    BY <1>3 DEF PassStep, BeginPass, StartPass
  <2>2. CASE BeginPass(w)
    <3>1. pass'[w].open /\ life[w] = "up" /\ \A v \in Worker \ {w} : pass'[v] = pass[v]
      BY <2>2 DEF BeginPass, TypeOK
    <3> QED BY <2>1, <3>1 DEF PassInv, Live
  <2>3. CASE StartPass(w)
    <3>1. pass'[w] = NoPass /\ \A v \in Worker \ {w} : pass'[v] = pass[v]
      BY <2>3 DEF StartPass, TypeOK
    <3> QED BY <2>1, <3>1 DEF PassInv, Live, NoPass
  <2> QED BY <1>3, <2>2, <2>3 DEF PassStep
<1>4. ASSUME NEW w \in Worker, NEW i \in Slot, NEW s \in Sub, NEW e \in Event, Claims(w, i, s, e)
      PROVE  PassInv'
  <2>1. life' = life
    BY <1>4, ClaimsTake DEF Take
  <2> QED BY <1>4, <2>1, ClaimsTake DEF PassInv, Live
<1>5. ASSUME NEW w \in Worker, NEW i \in Slot, SendStep(w, i) PROVE PassInv'
  <2>1. UNCHANGED <<pass, life>>
    BY <1>5 DEF SendStep, GiveUp, Post, Record, Throw
  <2> QED BY <1>1, <2>1
<1>6. ASSUME NEW w \in Worker, LifeStep(w) PROVE PassInv'
  <2>1. CASE Stop(w)
    <3>1. pass' = pass /\ life'[w] = "stopping" /\ \A v \in Worker \ {w} : life'[v] = life[v]
      BY <2>1 DEF Stop, TypeOK
    <3> QED BY <3>1 DEF PassInv, Live
  <2>2. CASE Stopped(w) \/ Crash(w)
    <3>1. Drop(w) /\ \A v \in Worker \ {w} : life'[v] = life[v]
      BY <2>2 DEF Stopped, Crash, TypeOK
    <3> QED BY <3>1, DropWrites DEF PassInv, Live, NoPass
  <2> QED BY <1>6, <2>1, <2>2 DEF LifeStep
<1>7. CASE UNCHANGED vars
  BY <1>1, <1>7 DEF vars
<1> QED BY <1>2, <1>3, <1>4, <1>5, <1>6, <1>7, StepCases

LEMMA PassInit == Init => PassInv
BY DEF Init, PassInv, NoPass

-----------------------------------------------------------------------------
(* Leases.  Only a claim makes one, of a claimable delivery; every other   *)
(* step keeps or ends the leases there are.                                *)
NoNewLease == \A s \in Sub, e \in Event : delivery'[s][e].lease > 0 => delivery[s][e].lease > 0
OneNewLease(s, e) ==
    /\ Claimable(s, e) /\ UnderCap(s)
    /\ \A r \in Sub, f \in Event : r # s \/ f # e => delivery'[r][f] = delivery[r][f]

LEMMA LeaseQueue == ASSUME TypeOK, QueueStep PROVE NoNewLease
<1>1. ASSUME NEW e \in Event, Publish(e) PROVE NoNewLease
  BY <1>1 DEF Publish, NoNewLease, FreshRow, NoRow
<1>2. ASSUME NEW s \in Sub, NEW b \in BOOLEAN, SetEnabled(s, b) PROVE NoNewLease
  BY <1>2 DEF SetEnabled, NoNewLease
<1>3. ASSUME NEW s \in Sub, NEW es \in SUBSET Event, Replay(s, es) PROVE NoNewLease
  <2>1. \A d \in Row : Requeued(d).lease = d.lease
    BY DEF Requeued, Row
  <2> QED BY <1>3, <2>1 DEF Replay, NoNewLease, TypeOK
<1>4. ASSUME NEW e \in Event, NEW to \in {"replay", "gone"}, Prune(e, to) PROVE NoNewLease
  BY <1>4 DEF Prune, NoNewLease, NoRow
<1>5. ASSUME Tick PROVE NoNewLease
  <2>1. \A d \in Row : Older(d).lease > 0 => d.lease > 0
    BY DEF Older, Less, Row
  <2> QED BY <1>5, <2>1 DEF Tick, NoNewLease, TypeOK
<1> QED BY <1>1, <1>2, <1>3, <1>4, <1>5 DEF QueueStep

LEMMA LeaseSend ==
    ASSUME TypeOK, NEW w \in Worker, NEW i \in Slot, SendStep(w, i)
    PROVE  NoNewLease
<1>1. CASE GiveUp(w, i)
  BY <1>1 DEF GiveUp, NoNewLease
<1>2. CASE \E answer \in {"ok", "error", "refused"} : Post(w, i, answer)
  BY <1>2 DEF Post, NoNewLease
<1>3. ASSUME NEW once \in BOOLEAN, Record(w, i, once) PROVE NoNewLease
  <2> DEFINE job == send[w][i]
             row == Recorded(delivery[job.sub][job.seq], job, once)
  <2>1. job \in Job /\ job.sub \in Sub /\ job.seq \in Event
    BY <1>3, JobFields DEF Record
  <2>2. row \in Row
    BY <2>1, RecordedRow DEF TypeOK
  <2>3. row.lease = 0
    BY <2>1 DEF Recorded, TypeOK, Row
  <2>4. \/ delivery' = delivery
        \/ delivery' = [delivery EXCEPT ![job.sub][job.seq] = row]
    BY <1>3 DEF Record
  <2> HIDE DEF job, row
  <2> QED BY <2>1, <2>2, <2>3, <2>4, OneRow DEF NoNewLease
<1>4. CASE Throw(w, i)
  BY <1>4, ThrowWrites DEF NoNewLease
<1> QED BY <1>1, <1>2, <1>3, <1>4 DEF SendStep

LEMMA LeaseNext ==
    ASSUME TypeOK, [Next]_vars
    PROVE  NoNewLease \/ \E s \in Sub, e \in Event : OneNewLease(s, e)
<1>1. CASE QueueStep
  BY <1>1, LeaseQueue
<1>2. ASSUME NEW w \in Worker, NEW i \in Slot, NEW s \in Sub, NEW e \in Event, Claims(w, i, s, e)
      PROVE  OneNewLease(s, e)
  <2>1. Take(w, i, s, e) /\ Claimable(s, e) /\ UnderCap(s)
    BY <1>2, ClaimsTake
  <2>2. LeasedTo(delivery[s][e], w, i) \in Row
    BY WrittenRows DEF TypeOK
  <2> QED BY <2>1, <2>2, OneRow DEF Take, OneNewLease
<1>3. ASSUME NEW w \in Worker, NEW i \in Slot, SendStep(w, i) PROVE NoNewLease
  BY <1>3, LeaseSend
<1>4. ASSUME NEW w \in Worker, LifeStep(w) \/ PassStep(w) PROVE NoNewLease
  BY <1>4, TypePass DEF LifeStep, Stop, Stopped, Crash, PassOnly, NoNewLease
<1>5. CASE UNCHANGED vars
  BY <1>5 DEF vars, NoNewLease
<1> QED BY <1>1, <1>2, <1>3, <1>4, <1>5, StepCases

(* Never two leases of one ordering key: a claim asks for a key without a  *)
(* lease, and no other step makes one.                                     *)
THEOREM KeyLeaseExclusion == Spec => []OneLeasePerKey
<1>1. Init => OneLeasePerKey
  BY DEF Init, OneLeasePerKey, NoRow
<1>2. TypeOK /\ OneLeasePerKey /\ [Next]_vars => OneLeasePerKey'
  <2> SUFFICES ASSUME TypeOK, OneLeasePerKey, [Next]_vars,
                      NEW s \in Sub, NEW e \in Event, NEW f \in Event, e # f, SameKey(e, f),
                      delivery'[s][e].lease > 0, delivery'[s][f].lease > 0
               PROVE  FALSE
    BY DEF OneLeasePerKey, SameKey
  <2>1. CASE NoNewLease
    BY <2>1 DEF NoNewLease, OneLeasePerKey
  <2>2. ASSUME NEW r \in Sub, NEW g \in Event, OneNewLease(r, g) PROVE FALSE
    <3>1. CASE r = s /\ g = e
      BY <2>2, <3>1 DEF OneNewLease, Claimable
    <3>2. CASE r = s /\ g = f
      BY <2>2, <3>2 DEF OneNewLease, Claimable, SameKey
    <3>3. CASE r # s \/ (g # e /\ g # f)
      BY <2>2, <3>3 DEF OneNewLease, OneLeasePerKey
    <3> QED BY <3>1, <3>2, <3>3
  <2> QED BY <2>1, <2>2, LeaseNext
<1> QED BY <1>1, <1>2, TypeCorrect, PTL DEF Spec

(* At most max_inflight leases of a subscription, whoever claims: the      *)
(* count is below the cap when a claim adds one lease to it.               *)
THEOREM InflightCapHolds == Spec => []InflightCap
<1>1. \A s \in Sub : IsFiniteSet(Leased(s)) /\ IsFiniteSet(Leased(s)')
  <2>1. IsFiniteSet(Event)
    BY FS_Interval, NaturalBounds DEF Event
  <2> QED BY <2>1, FS_Subset DEF Leased
<1>2. Init => InflightCap
  <2> SUFFICES ASSUME Init, NEW s \in Sub PROVE Cardinality(Leased(s)) <= SubInflight[s]
    BY DEF InflightCap
  <2>1. Leased(s) = {}
    BY DEF Init, Leased, NoRow
  <2> QED BY <2>1, FS_EmptySet, SubscriptionShape
<1>3. TypeOK /\ InflightCap /\ [Next]_vars => InflightCap'
  <2> SUFFICES ASSUME TypeOK, InflightCap, [Next]_vars, NEW s \in Sub
               PROVE  Cardinality(Leased(s)') <= SubInflight[s]
    BY DEF InflightCap
  <2>0. /\ Cardinality(Leased(s)) \in Nat /\ Cardinality(Leased(s)') \in Nat
        /\ SubInflight[s] \in Nat /\ Cardinality(Leased(s)) <= SubInflight[s]
    BY <1>1, FS_CardinalityType, SubscriptionShape DEF InflightCap
  <2>1. ASSUME Leased(s)' \subseteq Leased(s) PROVE Cardinality(Leased(s)') <= SubInflight[s]
    BY <1>1, <2>0, <2>1, FS_Subset
  <2>2. CASE NoNewLease
    BY <2>1, <2>2 DEF NoNewLease, Leased
  <2>3. ASSUME NEW r \in Sub, NEW e \in Event, OneNewLease(r, e)
        PROVE  Cardinality(Leased(s)') <= SubInflight[s]
    <3>1. CASE r # s
      BY <2>1, <2>3, <3>1 DEF OneNewLease, Leased
    <3>2. CASE r = s
      <4>1. Leased(s)' \subseteq Leased(s) \union {e}
        BY <2>3, <3>2 DEF OneNewLease, Leased
      <4>2. /\ IsFiniteSet(Leased(s) \union {e})
            /\ Cardinality(Leased(s) \union {e}) <= Cardinality(Leased(s)) + 1
        <5>1. /\ IsFiniteSet(Leased(s) \union {e})
              /\ Cardinality(Leased(s) \union {e}) =
                    IF e \in Leased(s) THEN Cardinality(Leased(s)) ELSE Cardinality(Leased(s)) + 1
          BY <1>1, FS_AddElement
        <5> QED BY <5>1, <2>0
      <4>3. Cardinality(Leased(s)') <= Cardinality(Leased(s) \union {e})
        BY <4>1, <4>2, FS_Subset
      <4>4. Cardinality(Leased(s)) < SubInflight[s]
        BY <2>3, <3>2 DEF OneNewLease, UnderCap
      <4>5. Cardinality(Leased(s) \union {e}) \in Nat
        BY <4>2, FS_CardinalityType
      <4> QED BY <2>0, <4>2, <4>3, <4>4, <4>5
    <3> QED BY <3>1, <3>2
  <2> QED BY <2>2, <2>3, LeaseNext
<1> QED BY <1>2, <1>3, TypeCorrect, PTL DEF Spec

-----------------------------------------------------------------------------
(* The order an endpoint sees.  FirstSeenInKeyOrder is about posts already *)
(* made; it is inductive together with the same fact about the sends still *)
(* to be made (stale ones included), and with what a settled row, an       *)
(* accepted post and a published event tell about the histories.          *)
Past(s, f) == reached[s][f] > 0 \/ f \in excused[s]
EarlierPast(s, e) == \A f \in Event :
    f < e /\ SameKey(e, f) /\ delivery[s][f].status # "none" => Past(s, f)
Busy(w, i) == send[w][i].phase # "idle"

ReachedInOrder == \A s \in Sub, e \in Event : reached[s][e] > 0 => EarlierPast(s, e)
SendsInOrder == \A w \in Worker, i \in Slot : Busy(w, i) =>
    /\ EarlierPast(send[w][i].sub, send[w][i].seq)
    /\ tier[send[w][i].seq] # "future"
    /\ send[w][i].phase = "ok" => reached[send[w][i].sub][send[w][i].seq] > 0
SettledIsPast == \A s \in Sub, e \in Event : Settled(s, e) => Past(s, e)
PublishedInOrder ==
    /\ \A s \in Sub, e \in Event : delivery[s][e].status # "none" \/ reached[s][e] > 0 => tier[e] # "future"
    /\ \A e, f \in Event : f < e /\ tier[e] # "future" => tier[f] # "future"

KeyOrderInv == ReachedInOrder /\ SendsInOrder /\ SettledIsPast /\ PublishedInOrder

(* What any step does to the histories: what is past stays past, published *)
(* events stay published, and a row that appears is of an event published  *)
(* by the step or is excused.                                              *)
HistoryGrows ==
    /\ \A s \in Sub, e \in Event : Past(s, e) => Past(s, e)'
    /\ \A s \in Sub, e \in Event : delivery'[s][e].status # "none" =>
           delivery[s][e].status # "none" \/ tier[e] = "future" \/ Past(s, e)'
    /\ \A e \in Event : tier[e] # "future" => tier'[e] # "future"

LEMMA HistoryQueue ==
    ASSUME TypeOK, QueueStep
    PROVE  HistoryGrows /\ reached' = reached /\ send' = send
<1>1. ASSUME NEW e \in Event, Publish(e) PROVE HistoryGrows /\ reached' = reached /\ send' = send
  BY <1>1 DEF Publish, HistoryGrows, histories, Past, TypeOK
<1>2. ASSUME NEW s \in Sub, NEW b \in BOOLEAN, SetEnabled(s, b)
      PROVE  HistoryGrows /\ reached' = reached /\ send' = send
  BY <1>2 DEF SetEnabled, HistoryGrows, histories, Past
<1>3. ASSUME NEW s \in Sub, NEW es \in SUBSET Event, Replay(s, es)
      PROVE  HistoryGrows /\ reached' = reached /\ send' = send
  <2>1. PICK born \in SUBSET Event :
            /\ excused' = [excused EXCEPT ![s] = @ \union born]
            /\ \A e \in es : delivery[s][e].status = "none" => e \in born
    <3> DEFINE new == {e \in es : delivery[s][e].status = "none"}
    <3>1. new \in SUBSET Event
      OBVIOUS
    <3>2. excused' = [excused EXCEPT ![s] = @ \union new]
      BY <1>3 DEF Replay
    <3>3. \A e \in es : delivery[s][e].status = "none" => e \in new
      OBVIOUS
    <3> HIDE DEF new
    <3> QED BY <3>1, <3>2, <3>3
  <2>3. \A r \in Sub : excused'[r] = IF r = s THEN excused[r] \union born ELSE excused[r]
    BY <2>1, ExcuseGains
  <2>2. \A r \in Sub, e \in Event : ~(r = s /\ e \in es) => delivery'[r][e] = delivery[r][e]
    BY <1>3 DEF Replay
  <2>4. reached' = reached /\ send' = send /\ tier' = tier
    BY <1>3 DEF Replay
  <2>5. \A r \in Sub, e \in Event : Past(r, e) => Past(r, e)'
    BY <2>3, <2>4 DEF Past
  <2>6. \A r \in Sub, e \in Event :
            delivery'[r][e].status # "none" => delivery[r][e].status # "none" \/ Past(r, e)'
    <3> SUFFICES ASSUME NEW r \in Sub, NEW e \in Event, delivery[r][e].status = "none",
                        delivery'[r][e].status # "none"
                 PROVE  Past(r, e)'
      OBVIOUS
    <3>1. r = s /\ e \in es
      BY <2>2
    <3>2. e \in excused'[s]
      BY <2>1, <2>3, <3>1, SMTT(30)
    <3> QED BY <3>1, <3>2 DEF Past
  <2> QED BY <2>4, <2>5, <2>6 DEF HistoryGrows
<1>4. ASSUME NEW e \in Event, NEW to \in {"replay", "gone"}, Prune(e, to)
      PROVE  HistoryGrows /\ reached' = reached /\ send' = send
  BY <1>4 DEF Prune, HistoryGrows, histories, Past, NoRow, TypeOK
<1>5. ASSUME Tick PROVE HistoryGrows /\ reached' = reached /\ send' = send
  <2>1. \A d \in Row : Older(d).status = d.status
    BY DEF Older, Row
  <2> QED BY <1>5, <2>1 DEF Tick, HistoryGrows, histories, Past, TypeOK
<1> QED BY <1>1, <1>2, <1>3, <1>4, <1>5 DEF QueueStep

(* A send that was in order stays in order, and so does a reached event.   *)
LEMMA OrderStays ==
    ASSUME PublishedInOrder, HistoryGrows, NEW s \in Sub, NEW e \in Event,
           EarlierPast(s, e), tier[e] # "future"
    PROVE  EarlierPast(s, e)'
BY DEF EarlierPast, PublishedInOrder, HistoryGrows, SameKey

LEMMA OrderQueue ==
    ASSUME TypeOK, KeyOrderInv, QueueStep
    PROVE  KeyOrderInv'
<1>0. HistoryGrows /\ reached' = reached /\ send' = send
  BY HistoryQueue
<1>1. ReachedInOrder'
  BY <1>0, OrderStays DEF KeyOrderInv, ReachedInOrder, PublishedInOrder
<1>2. SendsInOrder'
  <2> SUFFICES ASSUME NEW w \in Worker, NEW i \in Slot, Busy(w, i)
               PROVE  /\ EarlierPast(send[w][i].sub, send[w][i].seq)'
                      /\ tier'[send[w][i].seq] # "future"
                      /\ send[w][i].phase = "ok" => reached[send[w][i].sub][send[w][i].seq] > 0
    BY <1>0 DEF SendsInOrder, Busy
  <2>1. send[w][i].sub \in Sub /\ send[w][i].seq \in Event
    BY JobFields DEF Busy
  <2>2. /\ EarlierPast(send[w][i].sub, send[w][i].seq) /\ tier[send[w][i].seq] # "future"
        /\ send[w][i].phase = "ok" => reached[send[w][i].sub][send[w][i].seq] > 0
    BY DEF KeyOrderInv, SendsInOrder
  <2> QED BY <1>0, <2>1, <2>2, OrderStays DEF KeyOrderInv, HistoryGrows
<1>3. SettledIsPast'
  <2> SUFFICES ASSUME NEW s \in Sub, NEW e \in Event, Settled(s, e)'
               PROVE  Past(s, e)'
    BY DEF SettledIsPast
  <2>1. Settled(s, e)
    <3>1. ASSUME NEW g \in Event, Publish(g) PROVE Settled(s, e)
      BY <3>1 DEF Publish, Settled, FreshRow, NoRow
    <3>2. ASSUME NEW r \in Sub, NEW b \in BOOLEAN, SetEnabled(r, b) PROVE Settled(s, e)
      BY <3>2 DEF SetEnabled, Settled
    <3>3. ASSUME NEW r \in Sub, NEW es \in SUBSET Event, Replay(r, es) PROVE Settled(s, e)
      <4>1. \A d \in Row : Requeued(d).status = "pending"
        BY DEF Requeued, Row
      <4> QED BY <3>3, <4>1 DEF Replay, Settled, TypeOK
    <3>4. ASSUME NEW g \in Event, NEW to \in {"replay", "gone"}, Prune(g, to) PROVE Settled(s, e)
      BY <3>4 DEF Prune, Settled, NoRow
    <3>5. ASSUME Tick PROVE Settled(s, e)
      <4>1. \A d \in Row : Older(d).status = d.status
        BY DEF Older, Row
      <4> QED BY <3>5, <4>1 DEF Tick, Settled, TypeOK
    <3> QED BY <3>1, <3>2, <3>3, <3>4, <3>5 DEF QueueStep
  <2> QED BY <1>0, <2>1 DEF KeyOrderInv, SettledIsPast, HistoryGrows
<1>4. PublishedInOrder'
  <2>1. ASSUME NEW g \in Event, Publish(g) PROVE PublishedInOrder'
    BY <2>1, <1>0 DEF Publish, KeyOrderInv, PublishedInOrder, TypeOK
  <2>2. ASSUME NEW r \in Sub, NEW b \in BOOLEAN, SetEnabled(r, b) PROVE PublishedInOrder'
    BY <2>2 DEF SetEnabled, histories, KeyOrderInv, PublishedInOrder
  <2>3. ASSUME NEW r \in Sub, NEW es \in SUBSET Event, Replay(r, es) PROVE PublishedInOrder'
    <3>1. \A e \in es : tier[e] = "hot"
      BY <2>3 DEF Replay
    <3> QED BY <2>3, <3>1 DEF Replay, KeyOrderInv, PublishedInOrder
  <2>4. ASSUME NEW g \in Event, NEW to \in {"replay", "gone"}, Prune(g, to) PROVE PublishedInOrder'
    <3>1. \A e \in Event : tier'[e] # "future" <=> tier[e] # "future"
      BY <2>4 DEF Prune, TypeOK
    <3> QED BY <2>4, <3>1, <1>0 DEF Prune, KeyOrderInv, PublishedInOrder, NoRow
  <2>5. ASSUME Tick PROVE PublishedInOrder'
    <3>1. \A d \in Row : Older(d).status = d.status
      BY DEF Older, Row
    <3>2. \A s \in Sub, e \in Event : delivery'[s][e].status = delivery[s][e].status
      BY <2>5, <3>1 DEF Tick, TypeOK
    <3> QED BY <2>5, <3>2 DEF Tick, histories, KeyOrderInv, PublishedInOrder
  <2> QED BY <2>1, <2>2, <2>3, <2>4, <2>5 DEF QueueStep
<1> QED BY <1>1, <1>2, <1>3, <1>4 DEF KeyOrderInv

(* A claim: the delivery taken is the head of its key, so whatever is      *)
(* earlier of the key is settled, and by SettledIsPast it is past.         *)
LEMMA OrderClaim ==
    ASSUME TypeOK, KeyOrderInv, NEW w \in Worker, NEW i \in Slot, NEW s \in Sub, NEW e \in Event,
           Claims(w, i, s, e)
    PROVE  KeyOrderInv'
<1> DEFINE job == [phase |-> "claimed", sub |-> s, seq |-> e, attempt |-> delivery[s][e].attempt + 1]
<1> DEFINE row == LeasedTo(delivery[s][e], w, i)
<1>1. Take(w, i, s, e) /\ Claimable(s, e)
  BY ClaimsTake
<1>2. delivery[s][e] \in Row /\ row \in Row
  BY WrittenRows DEF TypeOK
<1>13. row.status = delivery[s][e].status
  BY <1>2 DEF LeasedTo, Row
<1>14. delivery' = [delivery EXCEPT ![s][e] = row]
  BY <1>1 DEF Take, TypeOK
<1> HIDE DEF row
<1>3. \A r \in Sub, f \in Event : delivery'[r][f].status = delivery[r][f].status
  BY <1>2, <1>13, <1>14, OneRow
<1>4. job \in Job
  BY <1>2 DEF Job, Row
<1>5. \A v \in Worker, j \in Slot : send'[v][j] = IF v = w /\ j = i THEN job ELSE send[v][j]
  BY <1>1, <1>4, OneSlot, ZenonT(60) DEF Take
<1>6. tier' = tier /\ reached' = reached /\ excused' = excused
  BY <1>1 DEF Take, histories
<1>7. EarlierPast(s, e) /\ tier[e] # "future"
  <2>1. \A f \in Event : f < e /\ SameKey(e, f) /\ delivery[s][f].status # "none" => Settled(s, f)
    BY <1>1 DEF Claimable, Queued, Settled, TypeOK, Row, Status
  <2> QED BY <1>1, <2>1 DEF EarlierPast, KeyOrderInv, SettledIsPast, PublishedInOrder, Claimable, Queued
<1>8. \A r \in Sub, f \in Event : EarlierPast(r, f) => EarlierPast(r, f)'
  BY <1>3, <1>6 DEF EarlierPast, Past, SameKey
<1>9. SendsInOrder'
  <2> SUFFICES ASSUME NEW v \in Worker, NEW j \in Slot, Busy(v, j)'
               PROVE  /\ EarlierPast(send[v][j].sub, send[v][j].seq)'
                      /\ tier'[send'[v][j].seq] # "future"
                      /\ send'[v][j].phase = "ok" => reached'[send'[v][j].sub][send'[v][j].seq] > 0
    BY DEF SendsInOrder
  <2>1. CASE v = w /\ j = i
    BY <2>1, <1>5, <1>6, <1>7, <1>8
  <2>2. CASE ~(v = w /\ j = i)
    <3>1. send'[v][j] = send[v][j] /\ Busy(v, j)
      BY <2>2, <1>5 DEF Busy
    <3>2. send[v][j].sub \in Sub /\ send[v][j].seq \in Event
      BY <3>1, JobFields DEF Busy
    <3> QED BY <3>1, <3>2, <1>6, <1>8 DEF KeyOrderInv, SendsInOrder
  <2> QED BY <2>1, <2>2
<1>10. ReachedInOrder' /\ SettledIsPast' /\ PublishedInOrder'
  BY <1>3, <1>6, <1>8 DEF KeyOrderInv, ReachedInOrder, SettledIsPast, PublishedInOrder, Settled, Past
<1> QED BY <1>9, <1>10 DEF KeyOrderInv

(* A row that is not there has no owner, so no result is recorded in it.   *)
NoRowUnowned == \A s \in Sub, e \in Event : delivery[s][e].status = "none" => delivery[s][e].owner = NoOwner

LEMMA UnownedNext ==
    ASSUME TypeOK, NoRowUnowned, [Next]_vars
    PROVE  NoRowUnowned'
<1>1. ASSUME NEW e \in Event, Publish(e) PROVE NoRowUnowned'
  BY <1>1 DEF Publish, NoRowUnowned, FreshRow, NoRow
<1>2. ASSUME NEW s \in Sub, NEW es \in SUBSET Event, Replay(s, es) PROVE NoRowUnowned'
  <2>1. \A d \in Row : Requeued(d).status = "pending"
    BY DEF Requeued, Row
  <2> QED BY <1>2, <2>1 DEF Replay, NoRowUnowned, TypeOK
<1>3. ASSUME NEW e \in Event, NEW to \in {"replay", "gone"}, Prune(e, to) PROVE NoRowUnowned'
  BY <1>3 DEF Prune, NoRowUnowned, NoRow
<1>4. ASSUME Tick PROVE NoRowUnowned'
  <2>1. \A d \in Row : Older(d).status = d.status /\ Older(d).owner = d.owner
    BY DEF Older, Row
  <2>2. \A s \in Sub, e \in Event : delivery[s][e] \in Row /\ delivery'[s][e] = Older(delivery[s][e])
    BY <1>4 DEF Tick, TypeOK
  <2> QED BY <2>1, <2>2 DEF NoRowUnowned
<1>5. ASSUME NEW w \in Worker, NEW i \in Slot, NEW s \in Sub, NEW e \in Event, Claims(w, i, s, e)
      PROVE  NoRowUnowned'
  <2> DEFINE row == LeasedTo(delivery[s][e], w, i)
  <2>1. Take(w, i, s, e) /\ Claimable(s, e)
    BY <1>5, ClaimsTake
  <2>2. delivery[s][e] \in Row /\ row \in Row
    BY WrittenRows DEF TypeOK
  <2>3. row.status # "none"
    BY <2>1, <2>2 DEF LeasedTo, Row, Claimable, Queued
  <2>4. delivery' = [delivery EXCEPT ![s][e] = row]
    BY <2>1 DEF Take, TypeOK
  <2> HIDE DEF row
  <2> QED BY <2>2, <2>3, <2>4, OneRow DEF NoRowUnowned
<1>6. ASSUME NEW w \in Worker, NEW i \in Slot, SendStep(w, i) PROVE NoRowUnowned'
  <2>1. delivery' = delivery => NoRowUnowned'
    BY DEF NoRowUnowned
  <2>2. delivery' = delivery \/ Throw(w, i) \/ \E once \in BOOLEAN : Record(w, i, once)
    BY <1>6 DEF SendStep, GiveUp, Post
  <2>3. CASE Throw(w, i)
    <3>1. \A s \in Sub, e \in Event :
              delivery'[s][e].status = delivery[s][e].status /\ delivery'[s][e].owner = delivery[s][e].owner
      BY <2>3, ThrowWrites
    <3> QED BY <3>1 DEF NoRowUnowned
  <2>4. ASSUME NEW once \in BOOLEAN, Record(w, i, once), delivery' # delivery PROVE NoRowUnowned'
    <3> DEFINE job == send[w][i]
    <3> DEFINE row == Recorded(delivery[job.sub][job.seq], job, once)
    <3>2. job \in Job /\ job.sub \in Sub /\ job.seq \in Event
      BY <2>4, JobFields DEF Record
    <3>3. row \in Row
      BY <3>2, RecordedRow DEF TypeOK
    <3>4. row.status # "none"
      BY <3>2 DEF Recorded, TypeOK, Row
    <3>5. delivery' = [delivery EXCEPT ![job.sub][job.seq] = row]
      BY <2>4 DEF Record
    <3> HIDE DEF row, job
    <3> QED BY <3>2, <3>3, <3>4, <3>5, OneRow DEF NoRowUnowned
  <2> QED BY <2>1, <2>2, <2>3, <2>4
<1>7. ASSUME UNCHANGED delivery PROVE NoRowUnowned'
  BY <1>7 DEF NoRowUnowned
<1>8. ASSUME NEW w \in Worker, LifeStep(w) \/ PassStep(w) PROVE UNCHANGED delivery
  BY <1>8, TypePass DEF LifeStep, Stop, Stopped, Crash, PassOnly
<1>9. ASSUME NEW s \in Sub, NEW b \in BOOLEAN, SetEnabled(s, b) PROVE UNCHANGED delivery
  BY <1>9 DEF SetEnabled
<1> QED BY <1>1, <1>2, <1>3, <1>4, <1>5, <1>6, <1>7, <1>8, <1>9, StepCases DEF vars, QueueStep

(* What a send step finds: a job whose send is in order.                   *)
LEMMA SendInOrder ==
    ASSUME TypeOK, KeyOrderInv, NEW w \in Worker, NEW i \in Slot, Busy(w, i)
    PROVE  /\ send[w][i] \in Job /\ send[w][i].sub \in Sub /\ send[w][i].seq \in Event
           /\ EarlierPast(send[w][i].sub, send[w][i].seq)
           /\ tier[send[w][i].seq] # "future"
           /\ send[w][i].phase = "ok" => reached[send[w][i].sub][send[w][i].seq] > 0
<1>1. send[w][i] \in Job /\ send[w][i].sub \in Sub /\ send[w][i].seq \in Event
  BY JobFields DEF Busy
<1> QED BY <1>1 DEF KeyOrderInv, SendsInOrder

(* What a send step does to the histories and the rows.                    *)
SendGains(w, i) ==
    /\ tier' = tier
    /\ \A s \in Sub, e \in Event :
           /\ Past(s, e) => Past(s, e)'
           /\ reached[s][e] > 0 => reached'[s][e] > 0
           /\ reached'[s][e] > 0 => reached[s][e] > 0 \/ (s = send[w][i].sub /\ e = send[w][i].seq)
           /\ delivery'[s][e].status = "none" <=> delivery[s][e].status = "none"
           /\ Settled(s, e)' => Settled(s, e) \/ Past(s, e)'
    /\ \A v \in Worker, j \in Slot : Busy(v, j)' =>
           /\ Busy(v, j)
           /\ send'[v][j].sub = send[v][j].sub /\ send'[v][j].seq = send[v][j].seq
           /\ send'[v][j].phase = "ok" =>
                  send[v][j].phase = "ok" \/ reached'[send[v][j].sub][send[v][j].seq] > 0

LEMMA PostGains ==
    ASSUME TypeOK, KeyOrderInv, NEW w \in Worker, NEW i \in Slot,
           NEW answer \in {"ok", "error", "refused"}, Post(w, i, answer)
    PROVE  SendGains(w, i)
<1> DEFINE job == send[w][i]
<1> DEFINE sent == [job EXCEPT !.phase = answer]
<1>1. Busy(w, i) /\ job \in Job /\ job.sub \in Sub /\ job.seq \in Event
  BY JobFields DEF Post, Busy
<1>2. sent \in Job /\ sent.sub = job.sub /\ sent.seq = job.seq /\ sent.phase = answer
  BY <1>1 DEF Job
<1>3. send' = [send EXCEPT ![w][i] = sent]
  BY DEF Post, TypeOK
<1>4. tier' = tier /\ delivery' = delivery /\ excused' = excused
  BY DEF Post
<1>5. \/ reached' = reached
      \/ Reach(job.sub, job.seq)
  BY DEF Post
<1>6. answer = "ok" => Reach(job.sub, job.seq)
  BY DEF Post
<1>7. /\ answer = "ok" => reached'[job.sub][job.seq] > 0
      /\ \A s \in Sub, e \in Event :
            /\ reached[s][e] > 0 => reached'[s][e] > 0
            /\ reached'[s][e] > 0 => reached[s][e] > 0 \/ (s = job.sub /\ e = job.seq)
  BY <1>1, <1>5, <1>6, ReachGains
<1> HIDE DEF sent
<1>8. \A v \in Worker, j \in Slot : send'[v][j] = IF v = w /\ j = i THEN sent ELSE send[v][j]
  BY <1>2, <1>3, OneSlot
<1> QED BY <1>1, <1>2, <1>4, <1>7, <1>8 DEF SendGains, Past, Settled, Busy

LEMMA RecordGains ==
    ASSUME TypeOK, KeyOrderInv, NoRowUnowned, NEW w \in Worker, NEW i \in Slot,
           NEW once \in BOOLEAN, Record(w, i, once)
    PROVE  SendGains(w, i)
<1> DEFINE job == send[w][i]
<1> DEFINE row == Recorded(delivery[job.sub][job.seq], job, once)
<1> DEFINE last == IF job.phase # "ok" /\ Final(job, once) THEN {job.seq} ELSE {}
<1>1. Busy(w, i) /\ job \in Job /\ job.sub \in Sub /\ job.seq \in Event
  BY JobFields DEF Record, Busy
<1>2. tier' = tier /\ reached' = reached /\ send' = [send EXCEPT ![w][i] = Idle]
  BY DEF Record, Finish
<1>3. \A v \in Worker, j \in Slot : send'[v][j] = IF v = w /\ j = i THEN Idle ELSE send[v][j]
  BY <1>2, OneSlot
<1>4. \A s \in Sub : excused[s] \subseteq excused'[s]
  BY RecordWrites
<1>5. \A s \in Sub, e \in Event :
        /\ delivery'[s][e].status = "none" <=> delivery[s][e].status = "none"
        /\ Settled(s, e)' => Settled(s, e) \/ Past(s, e)'
  <2> SUFFICES ASSUME NEW s \in Sub, NEW e \in Event
               PROVE  /\ delivery'[s][e].status = "none" <=> delivery[s][e].status = "none"
                      /\ Settled(s, e)' => Settled(s, e) \/ Past(s, e)'
    OBVIOUS
  <2>1. CASE delivery'[s][e] = delivery[s][e]
    BY <2>1 DEF Settled
  <2>2. CASE delivery'[s][e] # delivery[s][e]
    <3>1. /\ Holds(w, job.sub, job.seq)
          /\ delivery' = [delivery EXCEPT ![job.sub][job.seq] = row]
          /\ excused' = [excused EXCEPT ![job.sub] = @ \union last]
      BY <2>2 DEF Record, Excuses
    <3>2. row \in Row
      BY <1>1, RecordedRow DEF TypeOK
    <3>3. s = job.sub /\ e = job.seq /\ delivery'[s][e] = row
      BY <1>1, <2>2, <3>1, <3>2, OneRow
    <3>4. delivery[s][e].status # "none"
      BY <3>1, <3>3, WorkerShape DEF Holds, NoRowUnowned
    <3>5. row.status = IF job.phase = "ok" THEN "delivered" ELSE IF Final(job, once) THEN "dead" ELSE "failed"
      BY <1>1 DEF Recorded, TypeOK, Row
    <3>6. CASE job.phase = "ok"
      BY <1>1, <1>2, <3>3, <3>4, <3>5, <3>6, SendInOrder DEF Past
    <3>7. CASE job.phase # "ok" /\ Final(job, once)
      <4>1. job.seq \in excused'[job.sub]
        BY <1>1, <3>1, <3>7 DEF TypeOK
      <4> QED BY <3>3, <3>4, <3>5, <3>7, <4>1 DEF Past
    <3>8. CASE job.phase # "ok" /\ ~Final(job, once)
      BY <3>3, <3>4, <3>5, <3>8 DEF Settled
    <3> QED BY <3>6, <3>7, <3>8
  <2> QED BY <2>1, <2>2
<1> QED BY <1>1, <1>2, <1>3, <1>4, <1>5 DEF SendGains, Past, Busy, Idle

LEMMA OrderSend ==
    ASSUME TypeOK, KeyOrderInv, NoRowUnowned, NEW w \in Worker, NEW i \in Slot, SendStep(w, i)
    PROVE  KeyOrderInv'
<1>1. SendGains(w, i)
  <2>1. CASE GiveUp(w, i)
    <3>1. /\ tier' = tier /\ delivery' = delivery /\ reached' = reached /\ excused' = excused
          /\ send' = [send EXCEPT ![w][i] = Idle]
      BY <2>1 DEF GiveUp, Finish, histories
    <3>2. \A v \in Worker, j \in Slot : send'[v][j] = IF v = w /\ j = i THEN Idle ELSE send[v][j]
      BY <3>1, OneSlot
    <3> QED BY <3>1, <3>2 DEF SendGains, Past, Settled, Busy, Idle
  <2>2. CASE Throw(w, i)
    <3>1. tier' = tier /\ reached' = reached /\ excused' = excused
      BY <2>2 DEF Throw
    <3>2. \A v \in Worker, j \in Slot : send'[v][j] = IF v = w /\ j = i THEN Idle ELSE send[v][j]
      <4>1. send' = [send EXCEPT ![w][i] = Idle]
        BY <2>2, ThrowWrites
      <4> QED BY <4>1, OneSlot
    <3>3. \A s \in Sub, e \in Event : delivery'[s][e].status = delivery[s][e].status
      BY <2>2, ThrowWrites
    <3> QED BY <3>1, <3>2, <3>3 DEF SendGains, Past, Settled, Busy, Idle
  <2> QED BY <2>1, <2>2, PostGains, RecordGains DEF SendStep
<1>2. /\ Busy(w, i) /\ send[w][i].sub \in Sub /\ send[w][i].seq \in Event
      /\ EarlierPast(send[w][i].sub, send[w][i].seq)
  <2>1. Busy(w, i)
    BY ThrowWrites DEF SendStep, GiveUp, Post, Record, Busy, Job
  <2> QED BY <2>1, SendInOrder
<1>3. \A s \in Sub, e \in Event : EarlierPast(s, e) => EarlierPast(s, e)'
  BY <1>1 DEF SendGains, EarlierPast, SameKey
<1>4. ReachedInOrder'
  BY <1>1, <1>2, <1>3 DEF SendGains, KeyOrderInv, ReachedInOrder
<1>5. SendsInOrder'
  <2> SUFFICES ASSUME NEW v \in Worker, NEW j \in Slot, Busy(v, j)'
               PROVE  /\ EarlierPast(send[v][j].sub, send[v][j].seq)'
                      /\ tier'[send'[v][j].seq] # "future"
                      /\ send'[v][j].phase = "ok" => reached'[send'[v][j].sub][send'[v][j].seq] > 0
    BY DEF SendsInOrder
  <2>1. /\ Busy(v, j) /\ tier' = tier
        /\ send'[v][j].sub = send[v][j].sub /\ send'[v][j].seq = send[v][j].seq
        /\ send'[v][j].phase = "ok" =>
               send[v][j].phase = "ok" \/ reached'[send[v][j].sub][send[v][j].seq] > 0
    BY <1>1 DEF SendGains
  <2>2. /\ send[v][j].sub \in Sub /\ send[v][j].seq \in Event
        /\ EarlierPast(send[v][j].sub, send[v][j].seq)
        /\ tier[send[v][j].seq] # "future"
        /\ send[v][j].phase = "ok" => reached[send[v][j].sub][send[v][j].seq] > 0
    BY <2>1, SendInOrder
  <2>3. reached[send[v][j].sub][send[v][j].seq] > 0 => reached'[send[v][j].sub][send[v][j].seq] > 0
    BY <1>1, <2>2 DEF SendGains
  <2>4. EarlierPast(send[v][j].sub, send[v][j].seq)'
    <3>1. PICK s \in Sub, e \in Event : s = send[v][j].sub /\ e = send[v][j].seq
      BY <2>2
    <3>2. EarlierPast(s, e)'
      BY <1>3, <2>2, <3>1
    <3> QED BY <2>1, <3>1, <3>2 DEF EarlierPast
  <2> QED BY <2>1, <2>2, <2>3, <2>4
<1>6. SettledIsPast' /\ PublishedInOrder'
  BY <1>1, <1>2, SendInOrder DEF SendGains, KeyOrderInv, SettledIsPast, PublishedInOrder
<1> QED BY <1>4, <1>5, <1>6 DEF KeyOrderInv

LEMMA OrderLife ==
    ASSUME TypeOK, KeyOrderInv, NEW w \in Worker, LifeStep(w) \/ PassStep(w)
    PROVE  KeyOrderInv'
<1>1. tier' = tier /\ delivery' = delivery /\ reached' = reached /\ excused' = excused
  BY TypePass DEF LifeStep, Stop, Stopped, Crash, PassOnly, histories
<1>2. \A v \in Worker, j \in Slot : send'[v][j] = send[v][j] \/ send'[v][j] = Idle
  BY TypePass DEF LifeStep, Stop, Stopped, Crash, Drop, PassOnly, TypeOK
<1>3. ReachedInOrder' /\ SettledIsPast' /\ PublishedInOrder'
  BY <1>1 DEF KeyOrderInv, ReachedInOrder, SettledIsPast, PublishedInOrder, EarlierPast, Past, Settled, SameKey
<1>4. SendsInOrder'
  BY <1>1, <1>2 DEF KeyOrderInv, SendsInOrder, EarlierPast, Past, SameKey, Busy, Idle
<1> QED BY <1>3, <1>4 DEF KeyOrderInv

LEMMA KeyOrderNext ==
    ASSUME TypeOK, KeyOrderInv, NoRowUnowned, [Next]_vars
    PROVE  KeyOrderInv'
<1>1. CASE UNCHANGED vars
  BY <1>1 DEF vars, histories, KeyOrderInv, ReachedInOrder, SendsInOrder, SettledIsPast, PublishedInOrder,
     EarlierPast, Past, Settled, SameKey, Busy
<1>2. CASE Next
  BY <1>2, StepCases, OrderQueue, OrderClaim, OrderSend, OrderLife
<1> QED BY <1>1, <1>2

(* The order an endpoint can rely on, for any number of workers, carriers, *)
(* retries, crashes, replays and expired leases: when a delivery of a key  *)
(* first reaches it, the earlier deliveries of the key are past.           *)
THEOREM EndpointOrder == Spec => []FirstSeenInKeyOrder
<1>1. Init => KeyOrderInv /\ NoRowUnowned
  BY DEF Init, NoRow, Idle, KeyOrderInv, NoRowUnowned, ReachedInOrder, SendsInOrder, SettledIsPast,
     PublishedInOrder, Settled, Busy
<1>2. TypeOK /\ KeyOrderInv /\ NoRowUnowned /\ [Next]_vars => KeyOrderInv' /\ NoRowUnowned'
  BY KeyOrderNext, UnownedNext
<1>3. KeyOrderInv => FirstSeenInKeyOrder
  BY DEF KeyOrderInv, ReachedInOrder, EarlierPast, Past, FirstSeenInKeyOrder
<1> QED BY <1>1, <1>2, <1>3, TypeCorrect, PTL DEF Spec

-----------------------------------------------------------------------------
(* Rows and the sends that hold them.  What each kind of step does to a    *)
(* row, to the sends and to the rest of the state; the invariants below    *)
(* are about these effects only.                                           *)
Sending(w, i, s, e) == Busy(w, i) /\ send[w][i].sub = s /\ send[w][i].seq = e

Published(s, e) == tier[e] = "future" /\ tier'[e] = "hot" /\ delivery'[s][e] = FreshRow
Cleared(s, e) == tier'[e] \notin {"future", "hot"} /\ delivery'[s][e] = NoRow
Requeues(s, e) ==
    /\ replays' > replays /\ tier[e] = "hot"
    /\ delivery'[s][e].status = "pending" /\ delivery'[s][e].slot = 0
    /\ delivery'[s][e].owner = delivery[s][e].owner /\ delivery'[s][e].lease = delivery[s][e].lease
    /\ e \in AtMostOnce => e \in again'[s]
Fades(s, e) ==
    /\ Tick
    /\ delivery'[s][e].status = delivery[s][e].status /\ delivery'[s][e].owner = delivery[s][e].owner
    /\ delivery'[s][e].slot = delivery[s][e].slot /\ delivery'[s][e].lease = Less(delivery[s][e].lease)
QueueFate(s, e) ==
    \/ /\ delivery'[s][e] = delivery[s][e]
       /\ tier'[e] = tier[e] \/ (tier[e] = "future" /\ tier'[e] = "hot")
    \/ Published(s, e)
    \/ Cleared(s, e)
    \/ Requeues(s, e) /\ tier'[e] = tier[e]
    \/ Fades(s, e) /\ tier'[e] = tier[e]
QueueEffect ==
    /\ \A s \in Sub, e \in Event : QueueFate(s, e)
    /\ \A e \in Event : tier'[e] = "hot" => tier[e] \in {"future", "hot"}
    /\ \A e \in Event : tier[e] # "future" => tier'[e] # "future"
    /\ send' = send /\ life' = life /\ reached' = reached
    /\ \A s \in Sub : again[s] \subseteq again'[s]
    /\ replays \in Nat /\ replays' \in Nat /\ replays' >= replays

LEMMA QueueMeans == ASSUME TypeOK, QueueStep PROVE QueueEffect
<1>0. replays \in Nat /\ MaxReplays \in Nat
  BY NaturalBounds DEF TypeOK
<1>1. ASSUME NEW g \in Event, Publish(g) PROVE QueueEffect
  <2>1. /\ UNCHANGED <<enabled, send, life, replays, reached, again>> /\ tier[g] = "future" /\ tier'[g] = "hot"
        /\ \A e \in Event : e # g => tier'[e] = tier[e]
    BY <1>1 DEF Publish, counts, histories, TypeOK
  <2>2. \A s \in Sub, e \in Event :
           delivery'[s][e] = delivery[s][e] \/ (e = g /\ delivery'[s][e] = FreshRow)
    BY <1>1 DEF Publish
  <2>3. \A s \in Sub, e \in Event : QueueFate(s, e)
    BY <2>1, <2>2 DEF QueueFate, Published
  <2> QED BY <1>0, <2>1, <2>3 DEF QueueEffect
<1>2. ASSUME NEW s \in Sub, NEW b \in BOOLEAN, SetEnabled(s, b) PROVE QueueEffect
  BY <1>0, <1>2 DEF SetEnabled, counts, histories, QueueEffect, QueueFate
<1>3. ASSUME NEW r \in Sub, NEW es \in SUBSET Event, Replay(r, es) PROVE QueueEffect
  <2>1. /\ UNCHANGED <<tier, enabled, send, life, reached>> /\ replays' = replays + 1
        /\ \A e \in es : tier[e] = "hot"
        /\ \A s \in Sub : again[s] \subseteq again'[s]
        /\ es \cap AtMostOnce \subseteq again'[r]
    <3>1. es \cap AtMostOnce \in SUBSET AtMostOnce /\ again' = [again EXCEPT ![r] = @ \union (es \cap AtMostOnce)]
      BY <1>3 DEF Replay
    <3>2. \A s \in Sub : again'[s] = IF s = r THEN again[s] \union (es \cap AtMostOnce) ELSE again[s]
      BY <3>1, AgainGains
    <3>3. /\ UNCHANGED <<tier, enabled, send, life, reached>> /\ replays' = replays + 1
          /\ \A e \in es : tier[e] = "hot"
      BY <1>3 DEF Replay
    <3> QED BY <3>2, <3>3
  <2>2. \A d \in Row : /\ Requeued(d).status = "pending" /\ Requeued(d).slot = 0
                       /\ Requeued(d).owner = d.owner /\ Requeued(d).lease = d.lease
    BY DEF Requeued, Row
  <2>3. \A s \in Sub, e \in Event :
           delivery'[s][e] = IF s = r /\ e \in es THEN Requeued(delivery[s][e]) ELSE delivery[s][e]
    BY <1>3 DEF Replay
  <2>4. \A s \in Sub, e \in Event : delivery[s][e] \in Row
    BY DEF TypeOK
  <2>5. \A s \in Sub, e \in Event : QueueFate(s, e)
    <3> SUFFICES ASSUME NEW s \in Sub, NEW e \in Event PROVE QueueFate(s, e)
      OBVIOUS
    <3>1. CASE s = r /\ e \in es
      <4>1. delivery'[s][e] = Requeued(delivery[s][e]) /\ delivery[s][e] \in Row
        BY <2>3, <2>4, <3>1
      <4>2. Requeues(s, e)
        BY <1>0, <2>1, <2>2, <3>1, <4>1 DEF Requeues
      <4> QED BY <2>1, <4>2 DEF QueueFate
    <3>2. CASE ~(s = r /\ e \in es)
      BY <2>1, <2>3, <3>2 DEF QueueFate
    <3> QED BY <3>1, <3>2
  <2> QED BY <1>0, <2>1, <2>5 DEF QueueEffect
<1>4. ASSUME NEW g \in Event, NEW to \in {"replay", "gone"}, Prune(g, to) PROVE QueueEffect
  <2>1. /\ UNCHANGED <<enabled, send, life, replays, reached, again>> /\ tier'[g] = to /\ tier[g] # "future"
        /\ \A e \in Event : e # g => tier'[e] = tier[e]
    BY <1>4 DEF Prune, counts, histories, TypeOK
  <2>2. \A s \in Sub, e \in Event : delivery'[s][e] = IF e = g THEN NoRow ELSE delivery[s][e]
    BY <1>4 DEF Prune
  <2>3. \A s \in Sub, e \in Event : QueueFate(s, e)
    BY <2>1, <2>2 DEF QueueFate, Cleared
  <2> QED BY <1>0, <2>1, <2>3 DEF QueueEffect
<1>5. ASSUME Tick PROVE QueueEffect
  <2>1. \A d \in Row : /\ Older(d).status = d.status /\ Older(d).owner = d.owner
                       /\ Older(d).slot = d.slot /\ Older(d).lease = Less(d.lease)
    BY DEF Older, Row
  <2>2. \A s \in Sub, e \in Event : delivery'[s][e] = Older(delivery[s][e]) /\ delivery[s][e] \in Row
    BY <1>5 DEF Tick, TypeOK
  <2>3. \A s \in Sub, e \in Event : Fades(s, e)
    BY <1>5, <2>1, <2>2 DEF Fades
  <2>4. UNCHANGED <<tier, enabled, send, life, replays, reached, again>>
    BY <1>5 DEF Tick, counts, histories
  <2> QED BY <1>0, <2>3, <2>4 DEF QueueEffect, QueueFate
<1> QED BY <1>1, <1>2, <1>3, <1>4, <1>5 DEF QueueStep

(* A claim: the row of a free, queued delivery becomes this worker's, and  *)
(* an idle slot its send.                                                  *)
ClaimEffect(w, i, s, e) ==
    /\ Live(w) /\ ~Busy(w, i) /\ Queued(s, e) /\ delivery[s][e].lease = 0
    /\ send'[w][i].phase = "claimed" /\ send'[w][i].sub = s /\ send'[w][i].seq = e
    /\ \A v \in Worker, j \in Slot : v # w \/ j # i => send'[v][j] = send[v][j]
    /\ delivery'[s][e].status = delivery[s][e].status /\ delivery'[s][e].owner = w
    /\ delivery'[s][e].lease > 0 /\ delivery'[s][e].slot = i
    /\ \A r \in Sub, f \in Event : r # s \/ f # e => delivery'[r][f] = delivery[r][f]
    /\ UNCHANGED <<tier, life, replays, reached, again>>

LEMMA ClaimMeans ==
    ASSUME TypeOK, PassInv, NEW w \in Worker, NEW i \in Slot, NEW s \in Sub, NEW e \in Event, Claims(w, i, s, e)
    PROVE  ClaimEffect(w, i, s, e)
<1> DEFINE job == [phase |-> "claimed", sub |-> s, seq |-> e, attempt |-> delivery[s][e].attempt + 1]
<1> DEFINE row == LeasedTo(delivery[s][e], w, i)
<1>1. Take(w, i, s, e) /\ Claimable(s, e) /\ Live(w) /\ send[w][i] = Idle
  BY ClaimsTake DEF PassInv, Live
<1>2. delivery[s][e] \in Row /\ row \in Row
  BY WrittenRows DEF TypeOK
<1>3. /\ row.status = delivery[s][e].status /\ row.owner = w /\ row.lease = LeaseTicks /\ row.slot = i
  BY <1>2 DEF LeasedTo, Row
<1>4. LeaseTicks > 0
  BY NaturalBounds
<1>5. job \in Job /\ job.phase = "claimed" /\ job.sub = s /\ job.seq = e
  BY <1>2 DEF Job, Row
<1>6. delivery' = [delivery EXCEPT ![s][e] = row] /\ send' = [send EXCEPT ![w][i] = job]
  BY <1>1 DEF Take, TypeOK
<1>7. UNCHANGED <<tier, life, replays, reached, again>> /\ Queued(s, e) /\ delivery[s][e].lease = 0 /\ ~Busy(w, i)
  BY <1>1 DEF Take, counts, histories, Claimable, Busy, Idle
<1> HIDE DEF job, row
<1>8. \A v \in Worker, j \in Slot : send'[v][j] = IF v = w /\ j = i THEN job ELSE send[v][j]
  BY <1>5, <1>6, OneSlot
<1>9. \A r \in Sub, f \in Event : delivery'[r][f] = IF r = s /\ f = e THEN row ELSE delivery[r][f]
  BY <1>2, <1>6, OneRow
<1> QED BY <1>1, <1>3, <1>4, <1>5, <1>7, <1>8, <1>9 DEF ClaimEffect

(* A send step: the event is found gone, the POST ends, its result is      *)
(* recorded, in the row only while the row is this worker's, or it throws. *)
GivesUp(w, i, s, e) ==
    /\ tier[e] \notin {"future", "hot", "replay"} /\ send'[w][i] = Idle
    /\ delivery' = delivery /\ reached' = reached
Posts(w, i, s, e) ==
    /\ send[w][i].phase = "claimed"
    /\ send'[w][i].phase \in {"ok", "error", "refused"} /\ send'[w][i].sub = s /\ send'[w][i].seq = e
    /\ delivery' = delivery /\ (reached' = reached \/ Reach(s, e))
    /\ send'[w][i].phase = "refused" => reached' = reached
Records(w, i, s, e) ==
    /\ send[w][i].phase # "claimed" /\ send'[w][i] = Idle /\ reached' = reached
    /\ \A r \in Sub, f \in Event : r # s \/ f # e => delivery'[r][f] = delivery[r][f]
    /\ delivery[s][e].owner # w => delivery'[s][e] = delivery[s][e]
    /\ delivery[s][e].owner = w =>
           /\ delivery'[s][e].owner = NoOwner /\ delivery'[s][e].lease = 0
           /\ delivery'[s][e].status \in {"delivered", "dead", "failed"}
           /\ e \in AtMostOnce => delivery'[s][e].status \in {"delivered", "dead"} \/ e \in again'[s]
Throws(w, i, s, e) ==
    /\ send'[w][i] = Idle /\ reached' = reached
    /\ \A r \in Sub, f \in Event :
           /\ delivery'[r][f].status = delivery[r][f].status /\ delivery'[r][f].owner = delivery[r][f].owner
           /\ delivery'[r][f].lease = delivery[r][f].lease
           /\ delivery'[r][f].slot = delivery[r][f].slot \/ delivery'[r][f].slot = 0
    /\ delivery[s][e].owner = w /\ delivery[s][e].slot = i => delivery'[s][e].slot = 0
    /\ e \in AtMostOnce /\ send[w][i].phase \in {"ok", "error"} => e \in again'[s]
SendEffect(w, i, s, e) ==
    /\ Sending(w, i, s, e)
    /\ \A v \in Worker, j \in Slot : v # w \/ j # i => send'[v][j] = send[v][j]
    /\ UNCHANGED <<tier, life, replays>>
    /\ \A r \in Sub : again[r] \subseteq again'[r]
    /\ GivesUp(w, i, s, e) \/ Posts(w, i, s, e) \/ Records(w, i, s, e) \/ Throws(w, i, s, e)

LEMMA SendMeans ==
    ASSUME TypeOK, NEW w \in Worker, NEW i \in Slot, SendStep(w, i)
    PROVE  \E s \in Sub, e \in Event : SendEffect(w, i, s, e)
<1>1. Busy(w, i)
  BY ThrowWrites DEF SendStep, GiveUp, Post, Record, Busy, Job
<1>2. send[w][i] \in Job /\ send[w][i].sub \in Sub /\ send[w][i].seq \in Event
  BY <1>1, JobFields DEF Busy
<1>3. PICK s \in Sub, e \in Event : s = send[w][i].sub /\ e = send[w][i].seq
  BY <1>2
<1>4. Sending(w, i, s, e) /\ delivery[s][e] \in Row
  BY <1>1, <1>3 DEF Sending, TypeOK
<1>5. CASE GiveUp(w, i)
  <2>1. /\ tier[e] = "gone" /\ send' = [send EXCEPT ![w][i] = Idle]
        /\ delivery' = delivery /\ reached' = reached /\ UNCHANGED <<tier, life, replays, again>>
    BY <1>3, <1>5 DEF GiveUp, Finish, counts, histories
  <2>2. \A v \in Worker, j \in Slot : send'[v][j] = IF v = w /\ j = i THEN Idle ELSE send[v][j]
    <3>1. send' = [send EXCEPT ![w][i] = Idle]
      BY <2>1
    <3> QED BY <3>1, OneSlot
  <2>3. GivesUp(w, i, s, e)
    BY <2>1, <2>2 DEF GivesUp
  <2> QED BY <1>4, <2>1, <2>2, <2>3 DEF SendEffect
<1>6. ASSUME NEW answer \in {"ok", "error", "refused"}, Post(w, i, answer) PROVE SendEffect(w, i, s, e)
  <2> DEFINE sent == [send[w][i] EXCEPT !.phase = answer]
  <2>1. sent \in Job /\ sent.sub = s /\ sent.seq = e /\ sent.phase = answer
    BY <1>2, <1>3 DEF Job
  <2>2. send' = [send EXCEPT ![w][i] = sent]
    BY <1>6 DEF Post, TypeOK
  <2>3. /\ send[w][i].phase = "claimed" /\ delivery' = delivery /\ (reached' = reached \/ Reach(s, e))
        /\ answer = "refused" => reached' = reached
        /\ UNCHANGED <<tier, life, replays, again>>
    BY <1>3, <1>6 DEF Post, counts
  <2> HIDE DEF sent
  <2>4. \A v \in Worker, j \in Slot : send'[v][j] = IF v = w /\ j = i THEN sent ELSE send[v][j]
    BY <2>1, <2>2, OneSlot, ZenonT(60)
  <2>5. Posts(w, i, s, e)
    BY <2>1, <2>3, <2>4 DEF Posts
  <2> QED BY <1>4, <2>3, <2>4, <2>5 DEF SendEffect
<1>7. ASSUME NEW once \in BOOLEAN, Record(w, i, once) PROVE SendEffect(w, i, s, e)
  <2> DEFINE row == Recorded(delivery[s][e], send[w][i], once)
             missed == IF send[w][i].phase = "error" /\ ~once THEN {e} \cap AtMostOnce ELSE {}
  <2>1. /\ send' = [send EXCEPT ![w][i] = Idle] /\ reached' = reached /\ UNCHANGED <<tier, life, replays>>
        /\ send[w][i].phase # "claimed"
        /\ delivery[s][e].owner # w => delivery' = delivery
        /\ delivery[s][e].owner = w => delivery' = [delivery EXCEPT ![s][e] = row]
    BY <1>3, <1>7 DEF Record, Finish, Holds, counts
  <2>2. \A v \in Worker, j \in Slot : send'[v][j] = IF v = w /\ j = i THEN Idle ELSE send[v][j]
    BY <2>1, OneSlot
  <2>3. row \in Row
    BY <1>2, <1>4, RecordedRow
  <2>4. /\ row.owner = NoOwner /\ row.lease = 0
        /\ row.status = IF send[w][i].phase = "ok" THEN "delivered" ELSE IF Final(send[w][i], once) THEN "dead" ELSE "failed"
    BY <1>4 DEF Recorded, Row
  <2>8. \A r \in Sub : again[r] \subseteq again'[r]
    BY <1>7, RecordWrites
  <2>5. delivery[s][e].owner = w /\ e \in AtMostOnce =>
            send[w][i].phase = "ok" \/ Final(send[w][i], once) \/ e \in again'[s]
    <3> SUFFICES ASSUME delivery[s][e].owner = w, e \in AtMostOnce, send[w][i].phase # "ok",
                        ~Final(send[w][i], once)
                 PROVE  e \in again'[s]
      OBVIOUS
    <3>1. send[w][i].phase = "error" /\ ~once
      BY <1>7 DEF Final, Record
    <3>2. again' = [again EXCEPT ![s] = @ \union missed]
      BY <1>3, <1>7 DEF Record, Holds, Excuses
    <3>3. missed = {e}
      BY <3>1
    <3> HIDE DEF missed
    <3> QED BY <3>2, <3>3 DEF TypeOK
  <2> HIDE DEF row
  <2>6. CASE delivery[s][e].owner = w
    <3>1. \A r \in Sub, f \in Event : delivery'[r][f] = IF r = s /\ f = e THEN row ELSE delivery[r][f]
      BY <2>1, <2>3, <2>6, OneRow
    <3>2. Records(w, i, s, e)
      BY <2>1, <2>2, <2>4, <2>5, <2>6, <3>1 DEF Records
    <3> QED BY <1>4, <2>1, <2>2, <2>8, <3>2 DEF SendEffect
  <2>7. CASE delivery[s][e].owner # w
    <3>1. Records(w, i, s, e)
      BY <2>1, <2>2, <2>7 DEF Records
    <3> QED BY <1>4, <2>1, <2>2, <2>8, <3>1 DEF SendEffect
  <2> QED BY <2>6, <2>7
<1>8. CASE Throw(w, i)
  <2>1. /\ reached' = reached /\ UNCHANGED <<tier, life, replays>> /\ Unrecorded(w, {i})
        /\ {i} \in SUBSET Slot
    BY <1>8 DEF Throw
  <2>2. \A v \in Worker, j \in Slot : send'[v][j] = IF v = w /\ j = i THEN Idle ELSE send[v][j]
    <3>1. send' = [send EXCEPT ![w][i] = Idle]
      BY <1>8, ThrowWrites
    <3> QED BY <3>1, OneSlot
  <2>3. /\ \A r \in Sub : again[r] \subseteq again'[r]
        /\ e \in AtMostOnce /\ send[w][i].phase \in {"ok", "error"} => e \in again'[s]
    BY <1>3, <2>1, UnrecordedGains DEF Posted
  <2>5. /\ \A r \in Sub, f \in Event :
              /\ delivery'[r][f].status = delivery[r][f].status
              /\ delivery'[r][f].owner = delivery[r][f].owner
              /\ delivery'[r][f].lease = delivery[r][f].lease
              /\ delivery'[r][f].slot = delivery[r][f].slot \/ delivery'[r][f].slot = 0
        /\ delivery[s][e].owner = w /\ delivery[s][e].slot = i => delivery'[s][e].slot = 0
    <3>1. \A r \in Sub, f \in Event :
              /\ delivery'[r][f].status = delivery[r][f].status
              /\ delivery'[r][f].owner = delivery[r][f].owner
              /\ delivery'[r][f].lease = delivery[r][f].lease
              /\ delivery'[r][f].slot = delivery[r][f].slot \/ delivery'[r][f].slot = 0
      BY <1>8, ThrowWrites
    <3>2. LET r == send[w][i].sub
              f == send[w][i].seq
          IN  delivery[r][f].owner = w /\ delivery[r][f].slot = i => delivery'[r][f].slot = 0
      BY <1>8, ThrowWrites
    <3>3. delivery[s][e].owner = w /\ delivery[s][e].slot = i => delivery'[s][e].slot = 0
      BY <1>3, <3>2
    <3> QED BY <3>1, <3>3
  <2>6. send'[w][i] = Idle
    BY <2>2
  <2>4. Throws(w, i, s, e)
    BY <2>1, <2>3, <2>5, <2>6 DEF Throws
  <2> QED BY <1>4, <2>1, <2>2, <2>3, <2>4 DEF SendEffect
<1> QED BY <1>5, <1>6, <1>7, <1>8 DEF SendStep

(* A process that stops, stopped or crashed: the table stays as it is.     *)
Stops(w) == life[w] = "up" /\ life'[w] = "stopping" /\ send' = send
Ends(w) ==
    /\ \A s \in Sub, e \in AtMostOnce, i \in Slot :
           Sending(w, i, s, e) /\ send[w][i].phase \in {"ok", "error"} => e \in again'[s]
    /\ \A i \in Slot : send'[w][i] = Idle
    /\ \A v \in Worker \ {w}, i \in Slot : send'[v][i] = send[v][i]
    /\ \/ life[w] \in {"up", "stopping"} /\ life'[w] = "crashed"
       \/ life[w] = "stopping" /\ life'[w] = "stopped" /\ \A i \in PassSlot : ~Busy(w, i)
LifeEffect(w) ==
    /\ UNCHANGED <<tier, delivery, replays, reached>>
    /\ \A s \in Sub : again[s] \subseteq again'[s]
    /\ \A v \in Worker \ {w} : life'[v] = life[v]
    /\ Stops(w) \/ Ends(w)

LEMMA LifeMeans ==
    ASSUME TypeOK, PassInv, NEW w \in Worker, LifeStep(w)
    PROVE  LifeEffect(w)
<1>1. ASSUME Drop(w)
      PROVE  /\ \A i \in Slot : send'[w][i] = Idle
             /\ \A v \in Worker \ {w}, i \in Slot : send'[v][i] = send[v][i]
             /\ \A s \in Sub : again[s] \subseteq again'[s]
             /\ \A s \in Sub, e \in AtMostOnce, i \in Slot :
                   Sending(w, i, s, e) /\ send[w][i].phase \in {"ok", "error"} => e \in again'[s]
  BY <1>1, DropWrites DEF Sending, Posted
<1>2. CASE Stop(w)
  BY <1>2 DEF Stop, counts, histories, TypeOK, LifeEffect, Stops
<1>3. CASE Stopped(w)
  <2>1. /\ UNCHANGED <<tier, delivery, replays, reached>> /\ Drop(w)
        /\ life[w] = "stopping" /\ life'[w] = "stopped" /\ \A v \in Worker \ {w} : life'[v] = life[v]
    BY <1>3 DEF Stopped, counts, TypeOK
  <2>2. \A i \in PassSlot : ~Busy(w, i)
    <3>1. pass[w].taken = {}
      BY <1>3 DEF Stopped, PassInv
    <3>2. \A i \in PassSlot : send[w][i] = Idle
      BY <1>3, <3>1 DEF Stopped, SendsEnded, Started
    <3> QED BY <3>2 DEF Busy, Idle
  <2> QED BY <1>1, <2>1, <2>2 DEF LifeEffect, Ends
<1>4. CASE Crash(w)
  <2>1. /\ UNCHANGED <<tier, delivery, replays, reached>> /\ Drop(w)
        /\ life[w] \in {"up", "stopping"} /\ life'[w] = "crashed" /\ \A v \in Worker \ {w} : life'[v] = life[v]
    BY <1>4 DEF Crash, counts, Live, TypeOK
  <2> QED BY <1>1, <2>1 DEF LifeEffect, Ends
<1> QED BY <1>2, <1>3, <1>4 DEF LifeStep

(* A row that has an owner is still to be settled; only events of the hot  *)
(* store have rows; a process that is gone sends nothing; and a lease that *)
(* a pass took is of a send under way, unless its process crashed.         *)
OwnedIsQueued == \A s \in Sub, e \in Event : delivery[s][e].owner # NoOwner => Queued(s, e)
RowsAreHot == \A s \in Sub, e \in Event : delivery[s][e].status # "none" => tier[e] = "hot"
GoneSendNothing == \A w \in Worker, i \in Slot : life[w] \in {"stopped", "crashed"} => ~Busy(w, i)
PassLeaseIsSent == \A s \in Sub, e \in Event, w \in Worker, i \in PassSlot :
    delivery[s][e].owner = w /\ delivery[s][e].lease > 0 /\ delivery[s][e].slot = i
        => life[w] = "crashed" \/ Sending(w, i, s, e)

HeldInv == OwnedIsQueued /\ RowsAreHot /\ GoneSendNothing /\ PassLeaseIsSent

LEMMA RowFacts ==
    ASSUME TypeOK, NEW s \in Sub, NEW e \in Event
    PROVE  /\ delivery[s][e].status \in Status /\ delivery[s][e].lease \in Nat
           /\ delivery[s][e].owner \in Worker \union {NoOwner}
<1>1. delivery[s][e] \in Row
  BY DEF TypeOK
<1> QED BY <1>1 DEF Row

LEMMA HeldInit == Init => HeldInv
BY WorkerShape DEF Init, NoRow, HeldInv, OwnedIsQueued, RowsAreHot, GoneSendNothing, PassLeaseIsSent, Busy, Idle

LEMMA HeldQueue == ASSUME TypeOK, HeldInv, QueueStep PROVE HeldInv'
<1>1. QueueEffect
  BY QueueMeans
<1>2. /\ FreshRow.status = "pending" /\ FreshRow.owner = NoOwner /\ FreshRow.lease = 0
      /\ NoRow.status = "none" /\ NoRow.owner = NoOwner /\ NoRow.lease = 0
  BY DEF FreshRow, NoRow
<1>3. ASSUME NEW s \in Sub, NEW e \in Event
      PROVE  /\ delivery'[s][e].owner # NoOwner => delivery'[s][e].status \in {"pending", "failed"}
             /\ delivery'[s][e].status # "none" => tier'[e] = "hot"
             /\ \A w \in Worker, i \in PassSlot :
                   delivery'[s][e].owner = w /\ delivery'[s][e].lease > 0 /\ delivery'[s][e].slot = i
                      => delivery[s][e].owner = w /\ delivery[s][e].lease > 0 /\ delivery[s][e].slot = i
  <2>0. /\ delivery[s][e].owner # NoOwner => delivery[s][e].status \in {"pending", "failed"}
        /\ delivery[s][e].status # "none" => tier[e] = "hot"
        /\ delivery[s][e].lease \in Nat
    BY RowFacts DEF HeldInv, OwnedIsQueued, RowsAreHot, Queued
  <2>1. CASE delivery'[s][e] = delivery[s][e] /\ (tier'[e] = tier[e] \/ (tier[e] = "future" /\ tier'[e] = "hot"))
    BY <2>0, <2>1
  <2>2. CASE Published(s, e)
    BY <1>2, <2>2, WorkerShape DEF Published
  <2>3. CASE Cleared(s, e)
    BY <1>2, <2>3, WorkerShape DEF Cleared
  <2>4. CASE Requeues(s, e) /\ tier'[e] = tier[e]
    BY <2>4, PassSlots DEF Requeues
  <2>5. CASE Fades(s, e) /\ tier'[e] = tier[e]
    <3>1. delivery'[s][e].lease > 0 => delivery[s][e].lease > 0
      BY <2>0, <2>5 DEF Fades, Less
    <3> QED BY <2>0, <2>5, <3>1 DEF Fades
  <2>6. QueueFate(s, e)
    BY <1>1 DEF QueueEffect
  <2> QED BY <2>1, <2>2, <2>3, <2>4, <2>5, <2>6 DEF QueueFate
<1>4. OwnedIsQueued' /\ RowsAreHot'
  BY <1>3 DEF OwnedIsQueued, RowsAreHot, Queued
<1>5. GoneSendNothing'
  BY <1>1 DEF QueueEffect, HeldInv, GoneSendNothing, Busy
<1>6. PassLeaseIsSent'
  <2> SUFFICES ASSUME NEW s \in Sub, NEW e \in Event, NEW w \in Worker, NEW i \in PassSlot,
                      delivery'[s][e].owner = w, delivery'[s][e].lease > 0, delivery'[s][e].slot = i
               PROVE  life'[w] = "crashed" \/ Sending(w, i, s, e)'
    BY DEF PassLeaseIsSent
  <2>1. life[w] = "crashed" \/ Sending(w, i, s, e)
    BY <1>3 DEF HeldInv, PassLeaseIsSent
  <2> QED BY <1>1, <2>1 DEF QueueEffect, Sending, Busy
<1> QED BY <1>4, <1>5, <1>6 DEF HeldInv

LEMMA HeldClaim ==
    ASSUME TypeOK, HeldInv, NEW w \in Worker, NEW i \in Slot, NEW s \in Sub, NEW e \in Event, ClaimEffect(w, i, s, e)
    PROVE  HeldInv'
<1>1. OwnedIsQueued' /\ RowsAreHot'
  BY DEF ClaimEffect, HeldInv, OwnedIsQueued, RowsAreHot, Queued
<1>2. GoneSendNothing'
  <2> SUFFICES ASSUME NEW v \in Worker, NEW j \in Slot, life'[v] \in {"stopped", "crashed"} PROVE ~Busy(v, j)'
    BY DEF GoneSendNothing
  <2>1. v # w /\ send'[v][j] = send[v][j] /\ life[v] \in {"stopped", "crashed"}
    BY DEF ClaimEffect, Live
  <2> QED BY <2>1 DEF HeldInv, GoneSendNothing, Busy
<1>3. PassLeaseIsSent'
  <2> SUFFICES ASSUME NEW r \in Sub, NEW f \in Event, NEW v \in Worker, NEW j \in PassSlot,
                      delivery'[r][f].owner = v, delivery'[r][f].lease > 0, delivery'[r][f].slot = j
               PROVE  life'[v] = "crashed" \/ Sending(v, j, r, f)'
    BY DEF PassLeaseIsSent
  <2>1. CASE r = s /\ f = e
    BY <2>1 DEF ClaimEffect, Sending, Busy
  <2>2. CASE ~(r = s /\ f = e)
    <3>1. life[v] = "crashed" \/ Sending(v, j, r, f)
      BY <2>2 DEF ClaimEffect, HeldInv, PassLeaseIsSent
    <3>2. CASE v = w /\ j = i
      BY <3>1, <3>2 DEF ClaimEffect, Sending
    <3>3. CASE ~(v = w /\ j = i)
      BY <3>1, <3>3, PassSlots DEF ClaimEffect, Sending, Busy
    <3> QED BY <3>2, <3>3
  <2> QED BY <2>1, <2>2
<1> QED BY <1>1, <1>2, <1>3 DEF HeldInv

LEMMA HeldSend ==
    ASSUME TypeOK, HeldInv, NEW w \in Worker, NEW i \in Slot, NEW s \in Sub, NEW e \in Event, SendEffect(w, i, s, e)
    PROVE  HeldInv'
<1>1. ASSUME NEW r \in Sub, NEW f \in Event
      PROVE  \/ /\ delivery'[r][f].status = delivery[r][f].status /\ delivery'[r][f].owner = delivery[r][f].owner
                /\ delivery'[r][f].lease = delivery[r][f].lease
                /\ delivery'[r][f].slot = delivery[r][f].slot \/ delivery'[r][f].slot = 0
             \/ /\ r = s /\ f = e /\ delivery[s][e].owner = w /\ Records(w, i, s, e)
                /\ delivery'[s][e].owner = NoOwner /\ delivery'[s][e].lease = 0
  BY DEF SendEffect, GivesUp, Posts, Records, Throws
<1>2. OwnedIsQueued'
  BY <1>1 DEF HeldInv, OwnedIsQueued, Queued
<1>3. RowsAreHot'
  <2> SUFFICES ASSUME NEW r \in Sub, NEW f \in Event, delivery'[r][f].status # "none" PROVE tier'[f] = "hot"
    BY DEF RowsAreHot
  <2>1. delivery[r][f].status # "none"
    BY <1>1, WorkerShape DEF HeldInv, OwnedIsQueued, Queued
  <2> QED BY <2>1 DEF HeldInv, RowsAreHot, SendEffect
<1>4. GoneSendNothing'
  <2> SUFFICES ASSUME NEW v \in Worker, NEW j \in Slot, life'[v] \in {"stopped", "crashed"} PROVE ~Busy(v, j)'
    BY DEF GoneSendNothing
  <2>1. life[v] \in {"stopped", "crashed"} /\ ~Busy(v, j)
    BY DEF SendEffect, HeldInv, GoneSendNothing
  <2>2. send'[v][j] = send[v][j]
    BY <2>1 DEF SendEffect, Sending
  <2> QED BY <2>1, <2>2 DEF Busy
<1>5. PassLeaseIsSent'
  <2> SUFFICES ASSUME NEW r \in Sub, NEW f \in Event, NEW v \in Worker, NEW j \in PassSlot,
                      delivery'[r][f].owner = v, delivery'[r][f].lease > 0, delivery'[r][f].slot = j
               PROVE  life'[v] = "crashed" \/ Sending(v, j, r, f)'
    BY DEF PassLeaseIsSent
  <2>1. /\ delivery[r][f].owner = v /\ delivery[r][f].lease > 0 /\ delivery[r][f].slot = j
        /\ delivery'[r][f].owner = v /\ life' = life /\ tier' = tier
    BY <1>1, PassSlots, WorkerShape DEF SendEffect
  <2>2. life[v] = "crashed" \/ Sending(v, j, r, f)
    BY <2>1 DEF HeldInv, PassLeaseIsSent
  <2>3. CASE ~(v = w /\ j = i)
    BY <2>1, <2>2, <2>3, PassSlots DEF SendEffect, Sending, Busy
  <2>4. CASE v = w /\ j = i /\ Sending(v, j, r, f)
    <3>1. r = s /\ f = e
      BY <2>4 DEF SendEffect, Sending
    <3>2. delivery[s][e].owner = w /\ delivery[s][e].lease > 0 /\ delivery[s][e].status # "none" /\ tier[e] = "hot"
      BY <2>1, <2>4, <3>1, WorkerShape DEF HeldInv, OwnedIsQueued, RowsAreHot, Queued
    <3>3. Posts(w, i, s, e)
      BY <2>1, <2>4, <3>1, <3>2, PassSlots, WorkerShape DEF SendEffect, GivesUp, Records, Throws
    <3> QED BY <2>4, <3>1, <3>3 DEF Posts, Sending, Busy
  <2> QED BY <2>1, <2>2, <2>3, <2>4
<1> QED BY <1>2, <1>3, <1>4, <1>5 DEF HeldInv

LEMMA HeldLife == ASSUME TypeOK, HeldInv, NEW w \in Worker, LifeEffect(w) PROVE HeldInv'
<1>1. OwnedIsQueued' /\ RowsAreHot'
  BY DEF LifeEffect, HeldInv, OwnedIsQueued, RowsAreHot, Queued
<1>2. GoneSendNothing'
  BY DEF LifeEffect, Stops, Ends, HeldInv, GoneSendNothing, Busy, Idle
<1>3. PassLeaseIsSent'
  <2> SUFFICES ASSUME NEW r \in Sub, NEW f \in Event, NEW v \in Worker, NEW j \in PassSlot,
                      delivery'[r][f].owner = v, delivery'[r][f].lease > 0, delivery'[r][f].slot = j
               PROVE  life'[v] = "crashed" \/ Sending(v, j, r, f)'
    BY DEF PassLeaseIsSent
  <2>1. life[v] = "crashed" \/ Sending(v, j, r, f)
    BY DEF LifeEffect, HeldInv, PassLeaseIsSent
  <2>2. CASE v # w
    BY <2>1, <2>2, PassSlots DEF LifeEffect, Stops, Ends, Sending, Busy
  <2>3. CASE v = w
    BY <2>1, <2>3 DEF LifeEffect, Stops, Ends, Sending, Busy
  <2> QED BY <2>2, <2>3
<1> QED BY <1>1, <1>2, <1>3 DEF HeldInv

LEMMA HeldNext == TypeOK /\ PassInv /\ HeldInv /\ [Next]_vars => HeldInv'
<1> SUFFICES ASSUME TypeOK, PassInv, HeldInv, [Next]_vars PROVE HeldInv'
  OBVIOUS
<1>1. CASE QueueStep
  BY <1>1, HeldQueue
<1>2. ASSUME NEW w \in Worker, NEW i \in Slot, NEW s \in Sub, NEW e \in Event, Claims(w, i, s, e)
      PROVE  HeldInv'
  BY <1>2, ClaimMeans, HeldClaim
<1>3. ASSUME NEW w \in Worker, NEW i \in Slot, SendStep(w, i) PROVE HeldInv'
  BY <1>3, SendMeans, HeldSend
<1>4. ASSUME NEW w \in Worker, LifeStep(w) PROVE HeldInv'
  BY <1>4, LifeMeans, HeldLife
<1>6. ASSUME NEW w \in Worker, PassStep(w) PROVE HeldInv'
  <2>1. UNCHANGED <<tier, delivery, send, life>>
    BY <1>6, TypePass DEF PassOnly
  <2> QED BY <2>1 DEF HeldInv, OwnedIsQueued, RowsAreHot, GoneSendNothing, PassLeaseIsSent, Queued, Sending, Busy
<1>5. CASE UNCHANGED vars
  BY <1>5 DEF vars, HeldInv, OwnedIsQueued, RowsAreHot, GoneSendNothing, PassLeaseIsSent, Queued, Sending, Busy
<1> QED BY <1>1, <1>2, <1>3, <1>4, <1>5, <1>6, StepCases

THEOREM HeldAlways == Spec => [](TypeOK /\ PassInv /\ HeldInv)
BY TypeInit, TypeNext, PassInit, PassNext, HeldInit, HeldNext, PTL DEF Spec

(* A settled delivery stays as it is until it is replayed or its event     *)
(* leaves the hot store: a settled row has no owner, so whatever answer of *)
(* an expired claim comes late, recordAttempt finds no row to write.       *)
THEOREM SettledForGood == Spec => SettledStays
<1>1. TypeOK /\ PassInv /\ HeldInv /\ [Next]_vars =>
        [\A s \in Sub, e \in Event :
            Settled(s, e) /\ delivery'[s][e].status # delivery[s][e].status
                => replays' > replays \/ tier'[e] # "hot"]_vars
  <2> SUFFICES ASSUME TypeOK, PassInv, HeldInv, [Next]_vars, NEW s \in Sub, NEW e \in Event,
                      Settled(s, e), delivery'[s][e].status # delivery[s][e].status
               PROVE  replays' > replays \/ tier'[e] # "hot"
    OBVIOUS
  <2>1. delivery[s][e].owner = NoOwner /\ tier[e] = "hot"
    BY DEF HeldInv, OwnedIsQueued, RowsAreHot, Queued, Settled
  <2>2. CASE QueueStep
    BY <2>1, <2>2, QueueMeans DEF QueueEffect, QueueFate, Published, Cleared, Requeues, Fades
  <2>3. ASSUME NEW w \in Worker, NEW i \in Slot, NEW r \in Sub, NEW f \in Event, Claims(w, i, r, f) PROVE FALSE
    BY <2>3, ClaimMeans DEF ClaimEffect
  <2>4. ASSUME NEW w \in Worker, NEW i \in Slot, SendStep(w, i) PROVE FALSE
    <3>1. PICK r \in Sub, f \in Event : SendEffect(w, i, r, f)
      BY <2>4, SendMeans
    <3> QED BY <2>1, <3>1, WorkerShape DEF SendEffect, GivesUp, Posts, Records, Throws
  <2>5. ASSUME NEW w \in Worker, LifeStep(w) \/ PassStep(w) PROVE FALSE
    BY <2>5, LifeMeans, TypePass DEF LifeEffect, PassOnly
  <2>6. CASE UNCHANGED vars
    BY <2>6 DEF vars
  <2> QED BY <2>2, <2>3, <2>4, <2>5, <2>6, StepCases
<1> QED BY <1>1, HeldAlways, PTL DEF Spec, SettledStays

(* A worker that was stopped leaves no lease of its passes behind, except  *)
(* of a send that threw: every other one is of a send under way, started   *)
(* or of the pass under way, and it waited for the pass and for the sends. *)
THEOREM StoppedHoldsNothing == Spec => []CleanStop
<1>1. TypeOK /\ HeldInv => CleanStop
  <2> SUFFICES ASSUME TypeOK, HeldInv, NEW s \in Sub, NEW e \in Event, NEW w \in Worker, life[w] = "stopped",
                      delivery[s][e].owner = w, delivery[s][e].lease > 0, delivery[s][e].slot \in PassSlot
               PROVE  FALSE
    BY DEF CleanStop
  <2>1. PICK i \in PassSlot : i = delivery[s][e].slot
    OBVIOUS
  <2>2. Sending(w, i, s, e)
    BY <2>1 DEF HeldInv, PassLeaseIsSent
  <2> QED BY <2>1, <2>2, PassSlots DEF HeldInv, GoneSendNothing, Sending
<1> QED BY <1>1, HeldAlways, PTL

NoNewAppSend(w) == \A i \in PassSlot : Busy(w, i)' => Busy(w, i) /\ send'[w][i].sub = send[w][i].sub

LEMMA IdleIsNotBusy ==
    ASSUME TypeOK, NEW w \in Worker, NEW i \in Slot
    PROVE  Busy(w, i) <=> send[w][i] # Idle
<1>1. send[w][i] \in Job \union {Idle} /\ Idle.phase = "idle"
  BY DEF TypeOK, Idle
<1>2. \A job \in Job : job.phase # "idle"
  BY DEF Job
<1> QED BY <1>1, <1>2 DEF Busy

(* A pass under way has no more of the apps' share left to give than the   *)
(* sends to apps leave.                                                    *)
ShareLeft(w) == pass[w].open => Cardinality(AppSends(w)) + pass[w].app <= MaxAppInflight
ShareInv == \A w \in Worker : Cardinality(AppSends(w)) <= MaxAppInflight /\ ShareLeft(w)

LEMMA AppSendsFinite ==
    ASSUME NEW w \in Worker
    PROVE  /\ IsFiniteSet(AppSends(w)) /\ Cardinality(AppSends(w)) \in Nat
           /\ IsFiniteSet(AppSends(w)') /\ Cardinality(AppSends(w)') \in Nat
<1>1. IsFiniteSet(PassSlot)
  BY FS_Interval, NaturalBounds DEF PassSlot
<1>2. AppSends(w) \subseteq PassSlot /\ AppSends(w)' \subseteq PassSlot
  BY DEF AppSends
<1> QED BY <1>1, <1>2, FS_Subset, FS_CardinalityType

LEMMA AppSendsBusy ==
    ASSUME TypeOK', NEW w \in Worker
    PROVE  AppSends(w)' = {i \in PassSlot : Busy(w, i)' /\ send'[w][i].sub \in AppSub}
<1>1. \A i \in PassSlot : send'[w][i] \in Job \union {Idle}
  BY PassSlots DEF TypeOK
<1>2. Idle.phase = "idle" /\ \A job \in Job : job.phase # "idle"
  BY DEF Idle, Job
<1>3. \A i \in PassSlot : Busy(w, i)' <=> send'[w][i] # Idle
  BY <1>1, <1>2 DEF Busy
<1> QED BY <1>3 DEF AppSends

LEMMA FewerAppSends ==
    ASSUME TypeOK, TypeOK', ShareInv, NEW w \in Worker, NoNewAppSend(w), pass'[w] = pass[w] \/ ~pass'[w].open
    PROVE  Cardinality(AppSends(w)') <= MaxAppInflight /\ ShareLeft(w)'
<1>1. AppSends(w) = {i \in PassSlot : Busy(w, i) /\ send[w][i].sub \in AppSub}
  BY PassSlots, IdleIsNotBusy DEF AppSends
<1>2. AppSends(w)' = {i \in PassSlot : Busy(w, i)' /\ send'[w][i].sub \in AppSub}
  BY AppSendsBusy
<1>3. AppSends(w)' \subseteq AppSends(w)
  BY <1>1, <1>2 DEF NoNewAppSend
<1>4. Cardinality(AppSends(w)') <= Cardinality(AppSends(w))
  BY <1>3, AppSendsFinite, FS_Subset
<1>5. MaxAppInflight \in Nat /\ pass[w].app \in Nat /\ Cardinality(AppSends(w)) <= MaxAppInflight
  BY NaturalBounds DEF ShareInv, TypeOK, Pass
<1> QED BY <1>4, <1>5, AppSendsFinite DEF ShareInv, ShareLeft

LEMMA ShareClaim ==
    ASSUME TypeOK, TypeOK', PassInv, ShareInv, NEW v \in Worker, NEW i \in Slot, NEW s \in Sub, NEW e \in Event,
           Claims(v, i, s, e), NEW w \in Worker
    PROVE  Cardinality(AppSends(w)') <= MaxAppInflight /\ ShareLeft(w)'
<1>1. ClaimEffect(v, i, s, e)
  BY ClaimMeans
<1>2. AppSends(w) = {j \in PassSlot : Busy(w, j) /\ send[w][j].sub \in AppSub}
  BY PassSlots, IdleIsNotBusy DEF AppSends
<1>3. AppSends(w)' = {j \in PassSlot : Busy(w, j)' /\ send'[w][j].sub \in AppSub}
  BY AppSendsBusy
<1>4. MaxAppInflight \in Nat /\ pass[w].app \in Nat /\ pass'[w].app \in Nat
  <2>1. MaxAppInflight \in Nat
    BY NaturalBounds
  <2>2. pass[w] \in Pass
    BY DEF TypeOK
  <2>3. pass'[w] \in Pass
    BY DEF TypeOK
  <2>4. pass[w].app \in Nat
    BY <2>2 DEF Pass
  <2>5. pass'[w].app \in Nat
    BY <2>3 DEF Pass
  <2> QED
    BY <2>1, <2>4, <2>5
<1>5. CASE v # w \/ i \notin PassSlot \/ s \notin AppSub
  <2>1. AppSends(w)' \subseteq AppSends(w)
    BY <1>1, <1>2, <1>3, <1>5, PassSlots DEF ClaimEffect, Busy
  <2>2. Cardinality(AppSends(w)') <= Cardinality(AppSends(w))
    BY <2>1, AppSendsFinite, FS_Subset
  <2>3. pass'[w].open = pass[w].open /\ pass'[w].app = pass[w].app
    <3>1. CASE ClaimHinted(v, i, s, e)
      BY <3>1 DEF ClaimHinted
    <3>2. CASE ClaimDue(v, i, s, e)
      <4>1. v # w \/ s \notin AppSub
        BY <1>5, <3>2 DEF ClaimDue, FirstIdle
      <4>2. pass' = [pass EXCEPT ![v] = PassAfter(pass[v], i, s)]
        BY <3>2 DEF ClaimDue
      <4>3. s \notin AppSub => PassAfter(pass[v], i, s).app = pass[v].app /\ PassAfter(pass[v], i, s).open = pass[v].open
        BY DEF PassAfter, TypeOK, Pass
      <4> QED BY <4>1, <4>2, <4>3 DEF TypeOK
    <3> QED BY <3>1, <3>2 DEF Claims
  <2> QED BY <1>4, <2>2, <2>3, AppSendsFinite DEF ShareInv, ShareLeft
<1>6. CASE v = w /\ i \in PassSlot /\ s \in AppSub
  <2>1. ClaimDue(w, i, s, e)
    BY <1>6, NaturalBounds DEF Claims, ClaimHinted, FirstIdle, PassSlot, CarrierSlot
  <2>2. pass[w].open /\ pass[w].app > 0 /\ pass'[w].app = pass[w].app - 1
    <3>1. pass' = [pass EXCEPT ![w] = PassAfter(pass[w], i, s)] /\ pass[w].open /\ pass[w].app > 0
      BY <1>6, <2>1 DEF ClaimDue
    <3>2. PassAfter(pass[w], i, s).app = pass[w].app - 1
      BY <1>6 DEF PassAfter, TypeOK, Pass
    <3> QED BY <3>1, <3>2 DEF TypeOK
  <2>3. Cardinality(AppSends(w)) + pass[w].app <= MaxAppInflight
    BY <2>2 DEF ShareInv, ShareLeft
  <2>4. AppSends(w)' \subseteq AppSends(w) \union {i}
    BY <1>1, <1>2, <1>3, <1>6, PassSlots DEF ClaimEffect, Busy
  <2>5. /\ IsFiniteSet(AppSends(w) \union {i}) /\ Cardinality(AppSends(w) \union {i}) \in Nat
        /\ Cardinality(AppSends(w) \union {i}) <= Cardinality(AppSends(w)) + 1
    <3>1. /\ IsFiniteSet(AppSends(w) \union {i})
          /\ Cardinality(AppSends(w) \union {i}) =
                IF i \in AppSends(w) THEN Cardinality(AppSends(w)) ELSE Cardinality(AppSends(w)) + 1
      BY AppSendsFinite, FS_AddElement
    <3> QED BY <3>1, AppSendsFinite, FS_CardinalityType
  <2>6. Cardinality(AppSends(w)') <= Cardinality(AppSends(w)) + 1
    <3>1. Cardinality(AppSends(w)') <= Cardinality(AppSends(w) \union {i})
      BY <2>4, <2>5, FS_Subset
    <3> QED BY <2>5, <3>1, AppSendsFinite
  <2> QED BY <1>4, <2>2, <2>3, <2>6, AppSendsFinite DEF ShareLeft
<1> QED BY <1>5, <1>6

LEMMA ShareBegin ==
    ASSUME TypeOK, ShareInv, NEW v \in Worker, PassStep(v), NEW w \in Worker
    PROVE  Cardinality(AppSends(w)') <= MaxAppInflight /\ ShareLeft(w)'
<1>1. AppSends(w)' = AppSends(w)
  BY TypePass DEF PassOnly, AppSends
<1>2. CASE StartPass(v) \/ v # w
  <2>1. pass'[w] = pass[w] \/ ~pass'[w].open
    BY <1>2 DEF PassStep, BeginPass, StartPass, NoPass, TypeOK
  <2> QED BY <1>1, <2>1 DEF ShareInv, ShareLeft
<1>3. CASE BeginPass(v) /\ v = w
  <2>1. pass'[w].app = AppRoom(w)
    BY <1>3 DEF BeginPass, TypeOK
  <2>2. Cardinality(AppSends(w)) + AppRoom(w) <= MaxAppInflight
    BY AppSendsFinite, NaturalBounds DEF AppRoom, ShareInv
  <2> QED BY <1>1, <2>1, <2>2 DEF ShareInv, ShareLeft
<1> QED BY <1>2, <1>3 DEF PassStep

(* The apps' share of a worker's slots: a pass adds a send to an app only  *)
(* while it has of the share left that it read when it began, what it      *)
(* takes counts against it, a carrier's send is in another slot, and no    *)
(* other step adds one.                                                    *)
THEOREM AppShareHolds == Spec => []AppShare
<1>1. Init => ShareInv
  <2> SUFFICES ASSUME Init, NEW w \in Worker
               PROVE  Cardinality(AppSends(w)) <= MaxAppInflight /\ ShareLeft(w)
    BY DEF ShareInv
  <2>1. AppSends(w) = {} /\ ~pass[w].open
    BY PassSlots DEF Init, AppSends, NoPass
  <2> QED BY <2>1, FS_EmptySet, NaturalBounds DEF ShareLeft
<1>2. TypeOK /\ TypeOK' /\ PassInv /\ ShareInv /\ [Next]_vars => ShareInv'
  <2> SUFFICES ASSUME TypeOK, TypeOK', PassInv, ShareInv, [Next]_vars, NEW w \in Worker
               PROVE  Cardinality(AppSends(w)') <= MaxAppInflight /\ ShareLeft(w)'
    BY DEF ShareInv
  <2>1. CASE QueueStep
    <3>1. pass' = pass
      BY <2>1 DEF QueueStep, Publish, SetEnabled, Replay, Prune, Tick
    <3>2. NoNewAppSend(w)
      BY <2>1, QueueMeans DEF QueueEffect, NoNewAppSend, Busy
    <3> QED BY <3>1, <3>2, FewerAppSends
  <2>2. ASSUME NEW v \in Worker, NEW i \in Slot, NEW s \in Sub, NEW e \in Event, Claims(v, i, s, e)
        PROVE  Cardinality(AppSends(w)') <= MaxAppInflight /\ ShareLeft(w)'
    BY <2>2, ShareClaim
  <2>3. ASSUME NEW v \in Worker, NEW i \in Slot, SendStep(v, i)
        PROVE  Cardinality(AppSends(w)') <= MaxAppInflight /\ ShareLeft(w)'
    <3>1. PICK s \in Sub, e \in Event : SendEffect(v, i, s, e)
      BY <2>3, SendMeans
    <3>2. NoNewAppSend(w)
      BY <3>1, PassSlots DEF SendEffect, GivesUp, Posts, Records, Throws, Sending, NoNewAppSend, Busy, Idle
    <3>3. pass' = pass
      BY <2>3 DEF SendStep, GiveUp, Post, Record, Throw
    <3> QED BY <3>2, <3>3, FewerAppSends
  <2>4. ASSUME NEW v \in Worker, LifeStep(v)
        PROVE  Cardinality(AppSends(w)') <= MaxAppInflight /\ ShareLeft(w)'
    <3>1. LifeEffect(v)
      BY <2>4, LifeMeans
    <3>2. NoNewAppSend(w)
      BY <3>1, PassSlots DEF LifeEffect, Stops, Ends, NoNewAppSend, Busy, Idle
    <3>3. pass'[w] = pass[w] \/ ~pass'[w].open
      BY <2>4, DropWrites DEF LifeStep, Stop, Stopped, Crash, NoPass
    <3> QED BY <3>2, <3>3, FewerAppSends
  <2>5. ASSUME NEW v \in Worker, PassStep(v)
        PROVE  Cardinality(AppSends(w)') <= MaxAppInflight /\ ShareLeft(w)'
    BY <2>5, ShareBegin
  <2>6. CASE UNCHANGED vars
    BY <2>6, FewerAppSends DEF vars, NoNewAppSend, Busy
  <2> QED BY <2>1, <2>2, <2>3, <2>4, <2>5, <2>6, StepCases
<1>3. ShareInv => AppShare
  BY DEF ShareInv, AppShare
<1> QED BY <1>1, <1>2, <1>3, HeldAlways, PTL DEF Spec

-----------------------------------------------------------------------------
(* When a lease outlives the send it covers (PromptSpec): every send of a  *)
(* retained event holds the lease of its row, and no delivery is in two    *)
(* sends, whether its event is retained or not.                            *)
Covered == \A w \in Worker, i \in Slot, s \in Sub, e \in Event :
    Sending(w, i, s, e) /\ tier[e] = "hot" => delivery[s][e].owner = w /\ delivery[s][e].lease > 0
OneSend == \A v, w \in Worker, i, j \in Slot, s \in Sub, e \in Event :
    Sending(v, i, s, e) /\ Sending(w, j, s, e) => v = w /\ i = j
SentIsPublished == \A w \in Worker, i \in Slot, s \in Sub, e \in Event :
    Sending(w, i, s, e) => tier[e] # "future"

PromptInv == Covered /\ OneSend /\ SentIsPublished

(* A free, queued delivery is in no send.                                  *)
LEMMA FreeIsIdle ==
    ASSUME HeldInv, PromptInv, NEW s \in Sub, NEW e \in Event, Queued(s, e), delivery[s][e].lease = 0,
           NEW w \in Worker, NEW i \in Slot
    PROVE  ~Sending(w, i, s, e)
BY DEF HeldInv, RowsAreHot, Queued, PromptInv, Covered

(* A send after the step that is not new was there before.                 *)
LEMMA PromptClaim ==
    ASSUME TypeOK, HeldInv, PromptInv, NEW w \in Worker, NEW i \in Slot, NEW s \in Sub, NEW e \in Event,
           ClaimEffect(w, i, s, e)
    PROVE  PromptInv'
<1>1. /\ Queued(s, e) /\ delivery[s][e].lease = 0 /\ tier' = tier /\ tier[e] = "hot"
      /\ delivery'[s][e].owner = w /\ delivery'[s][e].lease > 0
      /\ \A r \in Sub, f \in Event : r # s \/ f # e => delivery'[r][f] = delivery[r][f]
  BY DEF ClaimEffect, HeldInv, RowsAreHot, Queued
<1>2. ASSUME NEW v \in Worker, NEW j \in Slot, NEW r \in Sub, NEW f \in Event, Sending(v, j, r, f)'
      PROVE  \/ v = w /\ j = i /\ r = s /\ f = e
             \/ Sending(v, j, r, f) /\ (r # s \/ f # e)
  <2>1. CASE v = w /\ j = i
    BY <1>2, <2>1 DEF ClaimEffect, Sending
  <2>2. CASE ~(v = w /\ j = i)
    <3>1. Sending(v, j, r, f)
      BY <1>2, <2>2 DEF ClaimEffect, Sending, Busy
    <3> QED BY <1>1, <3>1, FreeIsIdle
  <2> QED BY <2>1, <2>2
<1>3. Covered'
  BY <1>1, <1>2 DEF PromptInv, Covered
<1>4. OneSend'
  <2> SUFFICES ASSUME NEW u \in Worker, NEW v \in Worker, NEW j \in Slot, NEW k \in Slot, NEW r \in Sub, NEW f \in Event,
                      Sending(u, j, r, f)', Sending(v, k, r, f)'
               PROVE  u = v /\ j = k
    BY DEF OneSend
  <2> QED BY <1>2 DEF PromptInv, OneSend
<1>5. SentIsPublished'
  BY <1>1, <1>2 DEF PromptInv, SentIsPublished
<1> QED BY <1>3, <1>4, <1>5 DEF PromptInv

LEMMA PromptSend ==
    ASSUME TypeOK, HeldInv, PromptInv, NEW w \in Worker, NEW i \in Slot, NEW s \in Sub, NEW e \in Event,
           SendEffect(w, i, s, e)
    PROVE  PromptInv'
<1>1. ASSUME NEW v \in Worker, NEW j \in Slot, NEW r \in Sub, NEW f \in Event, Sending(v, j, r, f)'
      PROVE  Sending(v, j, r, f) /\ (v = w /\ j = i => Posts(w, i, s, e))
  <2>1. CASE v = w /\ j = i
    BY <1>1, <2>1 DEF SendEffect, GivesUp, Posts, Records, Throws, Sending, Busy, Idle
  <2>2. CASE ~(v = w /\ j = i)
    BY <1>1, <2>2 DEF SendEffect, Sending, Busy
  <2> QED BY <2>1, <2>2
<1>2. tier' = tier
  BY DEF SendEffect
<1>3. Covered'
  <2> SUFFICES ASSUME NEW v \in Worker, NEW j \in Slot, NEW r \in Sub, NEW f \in Event, Sending(v, j, r, f)',
                      tier'[f] = "hot"
               PROVE  delivery'[r][f].owner = v /\ delivery'[r][f].lease > 0
    BY DEF Covered
  <2>1. Sending(v, j, r, f) /\ delivery[r][f].owner = v /\ delivery[r][f].lease > 0
    BY <1>1, <1>2 DEF PromptInv, Covered
  <2>2. CASE v = w /\ j = i
    BY <1>1, <2>1, <2>2 DEF Posts
  <2>3. CASE ~(v = w /\ j = i)
    <3>1. r # s \/ f # e
      BY <2>1, <2>3 DEF SendEffect, PromptInv, OneSend
    <3> QED BY <2>1, <3>1 DEF SendEffect, GivesUp, Posts, Records, Throws
  <2> QED BY <2>2, <2>3
<1>4. OneSend' /\ SentIsPublished'
  BY <1>1, <1>2 DEF PromptInv, OneSend, SentIsPublished
<1> QED BY <1>3, <1>4 DEF PromptInv

LEMMA PromptLife == ASSUME TypeOK, PromptInv, NEW w \in Worker, LifeEffect(w) PROVE PromptInv'
<1>1. \A v \in Worker, j \in Slot, r \in Sub, f \in Event : Sending(v, j, r, f)' => Sending(v, j, r, f)
  BY DEF LifeEffect, Stops, Ends, Sending, Busy, Idle
<1>2. tier' = tier /\ delivery' = delivery
  BY DEF LifeEffect
<1> QED BY <1>1, <1>2 DEF PromptInv, Covered, OneSend, SentIsPublished

LEMMA PromptQueue ==
    ASSUME TypeOK, PromptInv, QueueStep, Tick => LeaseOutlivesSend
    PROVE  PromptInv'
<1>1. QueueEffect
  BY QueueMeans
<1>2. send' = send /\ \A v \in Worker, j \in Slot, r \in Sub, f \in Event : Sending(v, j, r, f)' <=> Sending(v, j, r, f)
  BY <1>1 DEF QueueEffect, Sending, Busy
<1>3. OneSend' /\ SentIsPublished'
  BY <1>1, <1>2 DEF QueueEffect, PromptInv, OneSend, SentIsPublished
<1>4. Covered'
  <2> SUFFICES ASSUME NEW w \in Worker, NEW i \in Slot, NEW s \in Sub, NEW e \in Event, Sending(w, i, s, e)',
                      tier'[e] = "hot"
               PROVE  delivery'[s][e].owner = w /\ delivery'[s][e].lease > 0
    BY DEF Covered
  <2>1. Sending(w, i, s, e) /\ tier[e] = "hot" /\ delivery[s][e].owner = w /\ delivery[s][e].lease > 0
    BY <1>1, <1>2 DEF QueueEffect, PromptInv, Covered, SentIsPublished
  <2>2. QueueFate(s, e)
    BY <1>1 DEF QueueEffect
  <2>3. CASE Fades(s, e)
    <3>1. send[w][i] # Idle /\ send[w][i].sub = s /\ send[w][i].seq = e
      BY <2>1, IdleIsNotBusy DEF Sending
    <3>2. delivery[s][e].lease # 1
      BY <2>1, <2>3, <3>1 DEF Fades, LeaseOutlivesSend
    <3>3. Less(delivery[s][e].lease) > 0
      BY <2>1, <3>2, RowFacts DEF Less
    <3> QED BY <2>1, <2>3, <3>3 DEF Fades
  <2>4. CASE ~Fades(s, e)
    BY <2>1, <2>2, <2>4 DEF QueueFate, Published, Cleared, Requeues
  <2> QED BY <2>3, <2>4
<1> QED BY <1>3, <1>4 DEF PromptInv

LEMMA PromptIsNext == PromptNext => Next
BY DEF PromptNext, PromptTick, Next

LEMMA PromptCases ==
    ASSUME TypeOK, PromptNext
    PROVE  \/ QueueStep /\ (Tick => LeaseOutlivesSend)
           \/ \E w \in Worker, i \in Slot, s \in Sub, e \in Event : Claims(w, i, s, e)
           \/ \E w \in Worker, i \in Slot : SendStep(w, i)
           \/ \E w \in Worker : LifeStep(w) \/ PassStep(w)
<1>1. CASE PromptTick
  BY <1>1 DEF PromptTick, QueueStep
<1>2. ASSUME NEW g \in Event, Publish(g) PROVE ~Tick
  <2>1. tier[g] = "future" /\ tier'[g] = "hot"
    BY <1>2 DEF Publish, TypeOK
  <2> QED BY <2>1 DEF Tick
<1>3. ASSUME NEW s \in Sub, NEW b \in BOOLEAN, SetEnabled(s, b) PROVE ~Tick
  <2>1. enabled[s] # b /\ enabled'[s] = b
    BY <1>3 DEF SetEnabled, TypeOK
  <2> QED BY <2>1 DEF Tick
<1>4. ASSUME NEW s \in Sub, NEW es \in SUBSET Event, Replay(s, es) PROVE ~Tick
  <2>1. replays \in Nat /\ replays' = replays + 1
    BY <1>4, NaturalBounds DEF Replay, TypeOK
  <2> QED BY <2>1 DEF Tick, counts
<1>5. ASSUME NEW g \in Event, NEW to \in {"replay", "gone"}, Prune(g, to) PROVE ~Tick
  <2>1. tier'[g] = to /\ tier[g] # to
    BY <1>5 DEF Prune, TypeOK
  <2> QED BY <2>1 DEF Tick
<1>6. CASE Step
  <2>1. ASSUME NEW w \in Worker, Claim(w)
        PROVE  \E v \in Worker, i \in Slot, s \in Sub, e \in Event : Claims(v, i, s, e)
    BY <2>1 DEF Claim, Claims
  <2> QED BY <1>2, <1>3, <1>4, <1>5, <1>6, <2>1 DEF Step, QueueStep, Claims, LifeStep, PassStep
<1> QED BY <1>1, <1>6 DEF PromptNext

LEMMA PromptInit == Init => PromptInv
BY DEF Init, PromptInv, Covered, OneSend, SentIsPublished, Sending, Busy, Idle

LEMMA PromptStep == TypeOK /\ PassInv /\ HeldInv /\ PromptInv /\ [PromptNext]_vars => PromptInv'
<1> SUFFICES ASSUME TypeOK, PassInv, HeldInv, PromptInv, [PromptNext]_vars PROVE PromptInv'
  OBVIOUS
<1>1. CASE QueueStep /\ (Tick => LeaseOutlivesSend)
  BY <1>1, PromptQueue
<1>2. ASSUME NEW w \in Worker, NEW i \in Slot, NEW s \in Sub, NEW e \in Event, Claims(w, i, s, e)
      PROVE  PromptInv'
  BY <1>2, ClaimMeans, PromptClaim
<1>3. ASSUME NEW w \in Worker, NEW i \in Slot, SendStep(w, i) PROVE PromptInv'
  BY <1>3, SendMeans, PromptSend
<1>4. ASSUME NEW w \in Worker, LifeStep(w) PROVE PromptInv'
  BY <1>4, LifeMeans, PromptLife
<1>6. ASSUME NEW w \in Worker, PassStep(w) PROVE PromptInv'
  <2>1. UNCHANGED <<tier, delivery, send>>
    BY <1>6, TypePass DEF PassOnly
  <2> QED BY <2>1 DEF PromptInv, Covered, OneSend, SentIsPublished, Sending, Busy
<1>5. CASE UNCHANGED vars
  BY <1>5 DEF vars, PromptInv, Covered, OneSend, SentIsPublished, Sending, Busy
<1> QED BY <1>1, <1>2, <1>3, <1>4, <1>5, <1>6, PromptCases

(* What holds for every timing holds when leases outlive sends.            *)
LEMMA PromptRefines == PromptSpec => Spec
<1>1. [PromptNext]_vars => [Next]_vars
  BY PromptIsNext
<1> QED BY <1>1, PTL DEF PromptSpec, Spec

THEOREM PromptAlways == PromptSpec => [](TypeOK /\ PassInv /\ HeldInv /\ PromptInv)
<1>1. PromptSpec => [](TypeOK /\ PassInv /\ HeldInv)
  BY PromptRefines, HeldAlways, PTL
<1> QED BY <1>1, PromptInit, PromptStep, PTL DEF PromptSpec

(* Two sends never meet at an endpoint: not of one delivery, in one        *)
(* process or many, and not of two retained events of a key, since each    *)
(* holds its lease and a key has one.                                      *)
THEOREM SendsStayApart == PromptSpec => []SendsApart
<1>1. TypeOK /\ PromptInv /\ OneLeasePerKey => SendsApart
  <2> SUFFICES ASSUME TypeOK, PromptInv, OneLeasePerKey PROVE SendsApart
    OBVIOUS
  <2>1. ASSUME NEW s \in Sub, NEW e \in Event
        PROVE  Sends(s, e) = {p \in Worker \X Slot : Sending(p[1], p[2], s, e)}
    BY IdleIsNotBusy DEF Sends, Sending
  <2>2. NoTwinSends
    <3> SUFFICES ASSUME NEW s \in Sub, NEW e \in Event PROVE Cardinality(Sends(s, e)) <= 1
      BY DEF NoTwinSends
    <3>1. CASE Sends(s, e) = {}
      BY <3>1, FS_EmptySet
    <3>2. CASE Sends(s, e) # {}
      <4>1. PICK p \in Worker \X Slot : Sending(p[1], p[2], s, e)
        BY <2>1, <3>2
      <4>2. ASSUME NEW q \in Worker \X Slot, Sending(q[1], q[2], s, e) PROVE q = p
        <5>1. q[1] = p[1] /\ q[2] = p[2]
          BY <4>1, <4>2 DEF PromptInv, OneSend
        <5> QED BY <5>1
      <4>3. Sends(s, e) = {p}
        BY <2>1, <4>1, <4>2
      <4>4. Cardinality({p}) = 1
        BY FS_Singleton
      <4> QED BY <4>3, <4>4
    <3> QED BY <3>1, <3>2
  <2>3. OneSendPerKey
    <3> SUFFICES ASSUME NEW s \in Sub, NEW e \in Event, NEW f \in Event, e # f, SameKey(e, f),
                        tier[e] = "hot", tier[f] = "hot", Sends(s, e) # {}, Sends(s, f) # {}
                 PROVE  FALSE
      BY DEF OneSendPerKey
    <3>1. PICK v \in Worker, i \in Slot : Sending(v, i, s, e)
      BY <2>1
    <3>2. PICK w \in Worker, j \in Slot : Sending(w, j, s, f)
      BY <2>1
    <3> QED BY <3>1, <3>2 DEF PromptInv, Covered, OneLeasePerKey
  <2> QED BY <2>2, <2>3 DEF SendsApart
<1>2. PromptSpec => []OneLeasePerKey
  BY PromptRefines, KeyLeaseExclusion, PTL
<1> QED BY <1>1, <1>2, PromptAlways, PTL

-----------------------------------------------------------------------------
(* at_most_once.  Unless something let it be posted again (`again`), the   *)
(* one POST of a delivery that may have reached the endpoint is of a send  *)
(* still under way or of a row that is settled or gone.                    *)
OnceInv(s, e) ==
    /\ reached[s][e] <= 1
    /\ reached[s][e] > 0 => tier[e] # "future"
    /\ \A w \in Worker, i \in Slot : 
           Sending(w, i, s, e) /\ send[w][i].phase \notin {"ok", "error"} => reached[s][e] = 0
    /\ reached[s][e] > 0 /\ Queued(s, e) => \E w \in Worker, i \in Slot : Sending(w, i, s, e)
NotAgainInv == \A s \in Sub, e \in AtMostOnce : e \notin again[s] => OnceInv(s, e)

LEMMA OnceEvents == AtMostOnce \subseteq Event
BY EventShape

LEMMA OnceQueue ==
    ASSUME TypeOK, PromptInv, QueueStep, NEW s \in Sub, NEW e \in AtMostOnce, OnceInv(s, e), e \notin again'[s]
    PROVE  OnceInv(s, e)'
<1>1. QueueEffect /\ e \in Event
  BY QueueMeans, OnceEvents
<1>2. QueueFate(s, e) /\ ~Requeues(s, e)
  BY <1>1 DEF QueueEffect, Requeues
<1>3. reached' = reached /\ send' = send /\ (tier[e] # "future" => tier'[e] # "future")
  BY <1>1 DEF QueueEffect
<1>4. reached[s][e] > 0 /\ Queued(s, e)' => Queued(s, e)
  <2>1. CASE Published(s, e)
    BY <2>1 DEF Published, OnceInv
  <2>2. CASE Cleared(s, e)
    BY <2>2 DEF Cleared, Queued, NoRow
  <2>3. CASE delivery'[s][e] = delivery[s][e] \/ Fades(s, e)
    BY <2>3 DEF Fades, Queued
  <2> QED BY <1>2, <2>1, <2>2, <2>3 DEF QueueFate
<1>5. \A w \in Worker, i \in Slot : Sending(w, i, s, e)' <=> Sending(w, i, s, e)
  BY <1>3 DEF Sending, Busy
<1> QED BY <1>3, <1>4, <1>5 DEF OnceInv

LEMMA OnceClaim ==
    ASSUME TypeOK, HeldInv, PromptInv, NEW w \in Worker, NEW i \in Slot, NEW r \in Sub, NEW f \in Event,
           ClaimEffect(w, i, r, f), NEW s \in Sub, NEW e \in AtMostOnce, OnceInv(s, e)
    PROVE  OnceInv(s, e)'
<1>1. e \in Event /\ reached' = reached /\ tier' = tier
  BY OnceEvents DEF ClaimEffect
<1>2. delivery'[s][e].status = delivery[s][e].status
  BY <1>1 DEF ClaimEffect
<1>3. CASE s = r /\ e = f
  <2>1. Queued(s, e) /\ \A v \in Worker, j \in Slot : ~Sending(v, j, s, e)
    BY <1>1, <1>3, FreeIsIdle DEF ClaimEffect
  <2>2. ~(reached[s][e] > 0)
    BY <2>1 DEF OnceInv
  <2>3. reached[s][e] = 0
    <3>1. reached[s][e] \in 0..2
      BY <1>1 DEF TypeOK
    <3> QED BY <2>2, <3>1
  <2> QED BY <1>1, <2>3 DEF OnceInv
<1>4. CASE ~(s = r /\ e = f)
  <2>1. \A v \in Worker, j \in Slot : Sending(v, j, s, e)' => Sending(v, j, s, e) /\ send'[v][j] = send[v][j]
    BY <1>4 DEF ClaimEffect, Sending, Busy
  <2>2. \A v \in Worker, j \in Slot : Sending(v, j, s, e) => Sending(v, j, s, e)'
    BY DEF ClaimEffect, Sending, Busy
  <2> QED BY <1>1, <1>2, <2>1, <2>2 DEF OnceInv, Queued
<1> QED BY <1>3, <1>4

LEMMA OnceSend ==
    ASSUME TypeOK, HeldInv, PromptInv, NEW w \in Worker, NEW i \in Slot, NEW r \in Sub, NEW f \in Event,
           SendEffect(w, i, r, f), NEW s \in Sub, NEW e \in AtMostOnce, OnceInv(s, e),
           e \notin again'[s]
    PROVE  OnceInv(s, e)'
<1>1. e \in Event /\ tier' = tier /\ Sending(w, i, r, f)
  BY OnceEvents DEF SendEffect
<1>2. CASE ~(s = r /\ e = f)
  <2>1. \A v \in Worker, j \in Slot : Sending(v, j, s, e)' => Sending(v, j, s, e) /\ send'[v][j] = send[v][j]
    BY <1>2 DEF SendEffect, GivesUp, Posts, Records, Throws, Sending, Busy, Idle
  <2>2. \A v \in Worker, j \in Slot : Sending(v, j, s, e) => Sending(v, j, s, e)'
    BY <1>2 DEF SendEffect, Sending, Busy
  <2>3. delivery'[s][e].status = delivery[s][e].status
    BY <1>1, <1>2 DEF SendEffect, GivesUp, Posts, Records, Throws
  <2>4. reached'[s][e] = reached[s][e]
    BY <1>1, <1>2, ReachGains DEF SendEffect, GivesUp, Posts, Records, Throws
  <2> QED BY <1>1, <2>1, <2>2, <2>3, <2>4 DEF OnceInv, Queued
<1>3. CASE s = r /\ e = f
  <2>1. Sending(w, i, s, e) /\ \A v \in Worker, j \in Slot : Sending(v, j, s, e) => v = w /\ j = i
    BY <1>1, <1>3 DEF PromptInv, OneSend
  <2>2. \A v \in Worker, j \in Slot : Sending(v, j, s, e)' => v = w /\ j = i
    BY <2>1 DEF SendEffect, Sending, Busy
  <2>3. tier[e] # "future"
    BY <1>1, <2>1 DEF PromptInv, SentIsPublished
  <2>4. CASE Posts(w, i, r, f)
    <3>1. reached[s][e] = 0 /\ Sending(w, i, s, e)'
      BY <1>3, <2>1, <2>4 DEF Posts, OnceInv, Sending, Busy
    <3>3. send'[w][i].phase \notin {"ok", "error"} => reached'[s][e] = 0
      BY <1>3, <2>4, <3>1 DEF Posts
    <3>2. reached'[s][e] <= 1
      <4>1. CASE Reach(s, e)
        <5>1. reached' = [reached EXCEPT ![s][e] = 1]
          BY <3>1, <4>1 DEF Reach, TypeOK
        <5> QED BY <1>1, <5>1 DEF TypeOK
      <4>2. CASE reached' = reached
        BY <3>1, <4>2
      <4> QED BY <1>3, <2>4, <4>1, <4>2 DEF Posts
    <3> QED BY <1>1, <2>2, <2>3, <3>1, <3>2, <3>3 DEF OnceInv
  <2>5. ASSUME reached' = reached, send'[w][i] = Idle, reached[s][e] > 0 => ~Queued(s, e)'
        PROVE  OnceInv(s, e)'
    <3>1. \A v \in Worker, j \in Slot : ~Sending(v, j, s, e)'
      BY <2>2, <2>5 DEF Sending, Busy, Idle
    <3> QED BY <1>1, <2>3, <2>5, <3>1 DEF OnceInv
  <2>6. CASE GivesUp(w, i, r, f)
    <3>1. delivery[s][e].status = "none"
      BY <1>1, <1>3, <2>6 DEF GivesUp, HeldInv, RowsAreHot
    <3> QED BY <2>5, <2>6, <3>1 DEF GivesUp, Queued
  <2>7. CASE Records(w, i, r, f)
    <3>1. ~Queued(s, e)'
      <4>1. CASE tier[e] = "hot"
        <5>1. delivery[s][e].owner = w
          BY <1>1, <2>1, <4>1 DEF PromptInv, Covered
        <5> QED BY <1>3, <2>7, <5>1 DEF Records, Queued
      <4>2. CASE tier[e] # "hot"
        <5>1. delivery[s][e].status = "none" /\ delivery[s][e].owner = NoOwner
          BY <1>1, <4>2 DEF HeldInv, RowsAreHot, OwnedIsQueued, Queued
        <5>2. delivery'[s][e] = delivery[s][e]
          BY <1>1, <1>3, <2>7, <5>1, WorkerShape DEF Records
        <5> QED BY <5>1, <5>2 DEF Queued
      <4> QED BY <4>1, <4>2
    <3> QED BY <2>5, <2>7, <3>1 DEF Records
  <2>8. CASE Throws(w, i, r, f)
    <3>1. reached[s][e] = 0
      BY <1>3, <2>1, <2>8 DEF Throws, OnceInv
    <3> QED BY <2>5, <2>8, <3>1 DEF Throws
  <2> QED BY <2>4, <2>6, <2>7, <2>8 DEF SendEffect
<1> QED BY <1>2, <1>3

LEMMA OnceLife ==
    ASSUME TypeOK, NEW w \in Worker, LifeEffect(w), NEW s \in Sub, NEW e \in AtMostOnce, OnceInv(s, e),
           e \notin again'[s]
    PROVE  OnceInv(s, e)'
<1>1. e \in Event /\ UNCHANGED <<tier, delivery, reached>>
  BY OnceEvents DEF LifeEffect
<1>2. \A v \in Worker, j \in Slot : send'[v][j] = send[v][j] \/ (v = w /\ Ends(w) /\ ~Busy(v, j)')
  BY DEF LifeEffect, Stops, Ends, Busy, Idle
<1>3. \A v \in Worker, j \in Slot : Sending(v, j, s, e)' => Sending(v, j, s, e) /\ send'[v][j] = send[v][j]
  BY <1>2 DEF Sending, Busy
<1>4. reached[s][e] > 0 => \A v \in Worker, j \in Slot : Sending(v, j, s, e) => Sending(v, j, s, e)'
  <2> SUFFICES ASSUME reached[s][e] > 0, NEW v \in Worker, NEW j \in Slot, Sending(v, j, s, e)
               PROVE  Sending(v, j, s, e)'
    OBVIOUS
  <2>1. send[v][j].phase \in {"ok", "error"}
    BY DEF OnceInv
  <2>2. ~(v = w /\ Ends(w))
    BY <2>1 DEF Ends
  <2> QED BY <1>2, <2>2 DEF Sending, Busy
<1> QED BY <1>1, <1>3, <1>4 DEF OnceInv, Queued

LEMMA OnceStep == TypeOK /\ PassInv /\ HeldInv /\ PromptInv /\ NotAgainInv /\ [PromptNext]_vars => NotAgainInv'
<1> SUFFICES ASSUME TypeOK, PassInv, HeldInv, PromptInv, NotAgainInv, [PromptNext]_vars,
                    NEW s \in Sub, NEW e \in AtMostOnce, e \notin again'[s]
             PROVE  OnceInv(s, e)'
  BY DEF NotAgainInv
<1>1. ASSUME again[s] \subseteq again'[s] PROVE OnceInv(s, e)
  BY <1>1 DEF NotAgainInv
<1>2. CASE QueueStep
  BY <1>1, <1>2, QueueMeans, OnceQueue DEF QueueEffect
<1>3. ASSUME NEW w \in Worker, NEW i \in Slot, NEW r \in Sub, NEW f \in Event, Claims(w, i, r, f)
      PROVE  OnceInv(s, e)'
  <2>1. ClaimEffect(w, i, r, f)
    BY <1>3, ClaimMeans
  <2>2. OnceInv(s, e)
    BY <1>1, <2>1 DEF ClaimEffect
  <2> QED BY <2>1, <2>2, OnceClaim
<1>4. ASSUME NEW w \in Worker, NEW i \in Slot, SendStep(w, i) PROVE OnceInv(s, e)'
  <2>1. PICK r \in Sub, f \in Event : SendEffect(w, i, r, f)
    BY <1>4, SendMeans
  <2>2. OnceInv(s, e)
    BY <1>1, <2>1 DEF SendEffect
  <2> QED BY <2>1, <2>2, OnceSend
<1>5. ASSUME NEW w \in Worker, LifeStep(w) PROVE OnceInv(s, e)'
  <2>1. LifeEffect(w)
    BY <1>5, LifeMeans
  <2>2. OnceInv(s, e)
    BY <1>1, <2>1 DEF LifeEffect
  <2> QED BY <2>1, <2>2, OnceLife
<1>6. ASSUME UNCHANGED <<tier, delivery, send, reached, again>> PROVE OnceInv(s, e)'
  BY <1>1, <1>6 DEF OnceInv, Queued, Sending, Busy
<1>7. ASSUME NEW w \in Worker, PassStep(w) PROVE OnceInv(s, e)'
  <2>1. UNCHANGED <<tier, delivery, send, reached, again>>
    BY <1>7, TypePass DEF PassOnly, histories
  <2> QED BY <1>6, <2>1
<1>8. CASE UNCHANGED vars
  BY <1>6, <1>8 DEF vars, histories
<1> QED BY <1>2, <1>3, <1>4, <1>5, <1>7, <1>8, PromptCases

(* An at-most-once delivery reaches its endpoint at most once, as long as  *)
(* leases outlive sends, unless something let it be posted again: a replay *)
(* of it, a send of it that ended with its POST made and no result         *)
(* recorded (it threw, or its process went), or a look-up of its policy    *)
(* that missed when the attempt failed.                                    *)
THEOREM OnceAtMost == PromptSpec => []AtMostOnceReached
<1>1. Init => NotAgainInv
  BY OnceEvents DEF Init, NotAgainInv, OnceInv, Sending, Busy, Idle, Queued, NoRow
<1>2. NotAgainInv => AtMostOnceReached
  BY DEF NotAgainInv, OnceInv, AtMostOnceReached
<1> QED BY <1>1, <1>2, OnceStep, PromptAlways, PTL DEF PromptSpec
=============================================================================
