------------------------ MODULE BillingReadingsProofs ------------------------
(***************************************************************************)
(* What BillingReadings keeps, for any number of processes, hours, crashes *)
(* and lengths of leases and posts: each closed hour is billed for what    *)
(* was done in it, less what was replayed before it was aggregated, none   *)
(* is left out, and while leases last no reading is posted twice at once.  *)
(*                                                                         *)
(* That no hour is left out is not inductive.  A tick decides which hours  *)
(* it aggregates from one read of billing_periods and aggregates them one  *)
(* by one, beside the ticks of other processes: what it skipped must be    *)
(* beyond the catch-up for as long as it runs (SkippedByTicks), and it may *)
(* not start a period before the first one there is (TicksFollow).  Two    *)
(* posts of a reading are kept apart by who holds it in his batch          *)
(* (HeldOnce), from its claim to its record or release.                    *)
(***************************************************************************)
EXTENDS BillingReadings, FiniteSetTheorems, SequenceTheorems, WellFoundedInduction, TLAPS

Sending == {"post", "record", "release"}
TickRec == [phase : {"idle", "aggregate", "claim"} \union Sending, from : 0..(MaxHour + 1), to : Hour,
            batch : Seq(Hour), spent : 0..PostTicks, answer : {"none", "ok", "final", "retry"}]
ReadingRec == [state : {"none", "pending", "sent", "refused"}, quantity : 0..MaxUse, wait : Nat, lease : 0..LeaseTicks]

(* A tick aggregates hours that have closed, and sends while it has rows.  *)
TickOK(l) ==
    /\ l.phase = "aggregate" => l.from <= l.to + 1 /\ l.to < now
    /\ l.phase \in Sending => l.batch # <<>>
    /\ \A i, j \in DOMAIN l.batch : i # j => l.batch[i] # l.batch[j]
TicksOK == \A p \in Process : TickOK(loop[p])

(* The hours that are marked have closed with readings between what their  *)
(* rows still have and what was done in them, and only they have one.      *)
MarkedAsUsed ==
    /\ now >= 1
    /\ \A h \in Hour : used[h] <= done[h]
    /\ \A h \in marked : h < now
    /\ \A h \in marked \ Invalid : used[h] <= reading[h].quantity /\ reading[h].quantity <= done[h]
    /\ \A h \in Hour : reading[h].state = "none" => reading[h].quantity = 0 /\ reading[h].lease = 0
    /\ \A h \in Hour : reading[h].state # "none" => h \in marked

Aggregating(p) == loop[p].phase = "aggregate"
Old(h) == NewestClosed - h >= Catchup
SkippedByTicks == \A p \in Process : Aggregating(p) =>
    \A h \in Hour \ marked : h < loop[p].from /\ (\E f \in marked : f < h) => Old(h)
TicksFollow == \A p \in Process : Aggregating(p) =>
    IF marked = {} THEN loop[p].from = NewestClosed ELSE \E f \in marked : f <= loop[p].from

(* A row of a batch is leased, and is in no other batch, as long as leases *)
(* did not end before the batches they are for.                            *)
Has(p, h) == \E i \in DOMAIN loop[p].batch : loop[p].batch[i] = h
HeldOnce == \A h \in Hour \ overrun :
    /\ \A p \in Process : Has(p, h) => reading[h].lease > 0
    /\ \A p, q \in Process : Has(p, h) /\ Has(q, h) => p = q

IInv == TypeOK /\ TicksOK /\ MarkedAsUsed /\ NoHourSkipped /\ SkippedByTicks /\ TicksFollow /\ HeldOnce

-----------------------------------------------------------------------------
(* The type invariant in parts, and the records of the model.              *)
TypeRest ==
    /\ now \in Hour /\ marked \subseteq Hour
    /\ used \in [Hour -> 0..MaxUse] /\ done \in [Hour -> 0..MaxUse]
    /\ reading \in [Hour -> ReadingRec] /\ loop \in [Process -> TickRec]
    /\ billed \subseteq Hour /\ crashes \in 0..MaxCrashes /\ overrun \subseteq Hour
OrderOK ==
    /\ order \subseteq Pending \X Pending
    /\ \A g, h \in Pending : /\ Before(g, h) <=> g # h /\ ~Before(h, g)
                             /\ Before(g, h) => reading[g].wait <= reading[h].wait

LEMMA TypeParts == TypeOK <=> TypeRest /\ OrderOK
  <1>1. {"idle", "aggregate", "claim"} \union Sending = {"idle", "aggregate", "claim", "post", "record", "release"}
    BY DEF Sending
  <1> QED
    BY <1>1 DEF TypeOK, TypeRest, OrderOK, TickRec, ReadingRec

LEMMA Hours == Hour \subseteq Nat /\ IsFiniteSet(Hour) /\ MaxHour \in Nat /\ \A h \in Hour : h <= MaxHour
  BY BillingBounds, FS_Interval DEF Hour

LEMMA TickFacts ==
  ASSUME TypeOK, TicksOK, NEW p \in Process
  PROVE  /\ loop[p] \in TickRec /\ TickOK(loop[p])
         /\ loop[p].from \in Nat /\ loop[p].to \in Hour /\ loop[p].batch \in Seq(Hour)
         /\ loop[p].from \in 0..(MaxHour + 1) /\ loop[p].spent \in 0..PostTicks
  <1>1. loop[p] \in TickRec
    BY TypeParts DEF TypeRest
  <1> QED
    BY <1>1, Hours DEF TickRec, TicksOK

LEMMA ReadingFacts ==
  ASSUME TypeOK, NEW h \in Hour
  PROVE  /\ reading[h] \in ReadingRec /\ reading[h].wait \in Nat /\ reading[h].lease \in 0..LeaseTicks
         /\ reading[h].quantity \in 0..MaxUse /\ reading[h].lease \in Nat
         /\ reading[h].state \in {"none", "pending", "sent", "refused"}
  <1>1. reading[h] \in ReadingRec
    BY TypeParts DEF TypeRest
  <1> QED
    BY <1>1, BillingBounds DEF ReadingRec

LEMMA NoTickOK == NoTick \in TickRec /\ NoTick.phase = "idle" /\ NoTick.batch = <<>> /\ TickOK(NoTick)
  <1>1. NoTick.phase = "idle" /\ NoTick.batch = <<>> /\ DOMAIN NoTick.batch = {}
    BY DEF NoTick
  <1>2. NoTick \in TickRec
    BY BillingBounds DEF NoTick, TickRec, Hour
  <1> QED
    BY <1>1, <1>2 DEF TickOK, Sending

(* One process's tick changes.                                             *)
LEMMA OneTick ==
  ASSUME TypeOK, NEW p \in Process, NEW l \in TickRec, loop' = [loop EXCEPT ![p] = l]
  PROVE  /\ loop' \in [Process -> TickRec] /\ loop'[p] = l
         /\ \A q \in Process \ {p} : loop'[q] = loop[q]
  BY TypeParts DEF TypeRest

(* One reading changes.                                                    *)
LEMMA OneReading ==
  ASSUME TypeOK, NEW h \in Hour, NEW r \in ReadingRec, reading' = [reading EXCEPT ![h] = r]
  PROVE  /\ reading' \in [Hour -> ReadingRec] /\ reading'[h] = r
         /\ \A g \in Hour \ {h} : reading'[g] = reading[g]
  BY TypeParts DEF TypeRest

(* What a batch is without its first row.                                  *)
LEMMA RestOf ==
  ASSUME NEW b \in Seq(Hour), b # <<>>, \A i, j \in DOMAIN b : i # j => b[i] # b[j]
  PROVE  /\ Head(b) \in Hour /\ Tail(b) \in Seq(Hour) /\ (\E i \in DOMAIN b : b[i] = Head(b))
         /\ \A i \in DOMAIN Tail(b) : Tail(b)[i] # Head(b) /\ \E j \in DOMAIN b : b[j] = Tail(b)[i]
         /\ \A i, j \in DOMAIN Tail(b) : i # j => Tail(b)[i] # Tail(b)[j]
  <1>1. /\ Len(b) \in Nat /\ Len(b) > 0 /\ DOMAIN b = 1..Len(b) /\ Head(b) = b[1]
    BY EmptySeq, LenProperties
  <1>2. /\ Head(b) \in Hour /\ Tail(b) \in Seq(Hour) /\ Len(Tail(b)) = Len(b) - 1
        /\ \A i \in 1..Len(Tail(b)) : Tail(b)[i] = b[i + 1]
    BY HeadTailProperties
  <1>3. DOMAIN Tail(b) = 1..(Len(b) - 1)
    BY <1>2, LenProperties
  <1>4. 1 \in DOMAIN b /\ \A i \in DOMAIN Tail(b) : i + 1 \in DOMAIN b /\ i + 1 # 1 /\ Tail(b)[i] = b[i + 1] /\ i \in Nat
    BY <1>1, <1>2, <1>3
  <1>5. \A i \in DOMAIN Tail(b) : Tail(b)[i] # Head(b) /\ \E j \in DOMAIN b : b[j] = Tail(b)[i]
    BY <1>1, <1>4
  <1>6. \A i, j \in DOMAIN Tail(b) : i # j => Tail(b)[i] # Tail(b)[j]
    <2> SUFFICES ASSUME NEW i \in DOMAIN Tail(b), NEW j \in DOMAIN Tail(b), i # j PROVE Tail(b)[i] # Tail(b)[j]
      OBVIOUS
    <2>1. i + 1 \in DOMAIN b /\ j + 1 \in DOMAIN b /\ i + 1 # j + 1
      BY <1>4
    <2> QED
      BY <1>4, <2>1
  <1> QED
    BY <1>1, <1>2, <1>4, <1>5, <1>6

(* The latest of a set of hours, and the later of two.                     *)
LEMMA SmallestOf ==
  ASSUME NEW S \in SUBSET Nat, S # {}
  PROVE  \E m \in S : \A n \in S : m <= n
  <1>1. PICK m \in S : \A n \in S : ~(<<n, m>> \in OpToRel(<, Nat))
    BY NatLessThanWellFounded, WFMin, Zenon
  <1>2. \A n \in S : m <= n
    <2> SUFFICES ASSUME NEW n \in S, ~(m <= n) PROVE FALSE
      OBVIOUS
    <2>1. n < m /\ n \in Nat /\ m \in Nat
      OBVIOUS
    <2> QED
      BY <1>1, <2>1 DEF OpToRel
  <1> QED
    BY <1>2

LEMMA LatestHour ==
  ASSUME NEW S \in SUBSET Hour, S # {}
  PROVE  Max(S) \in S /\ \A f \in S : f <= Max(S)
  <1> DEFINE T == {MaxHour - f : f \in S}
  <1>1. \A f \in S : f \in Nat /\ f <= MaxHour /\ MaxHour - f \in Nat
    BY Hours
  <1>2. T \in SUBSET Nat /\ T # {}
    BY <1>1
  <1>3. PICK k \in T : \A n \in T : k <= n
    <2> HIDE DEF T
    <2> QED
      BY <1>2, SmallestOf
  <1>4. PICK m \in S : k = MaxHour - m
    OBVIOUS
  <1>5. \A f \in S : m >= f
    <2> SUFFICES ASSUME NEW f \in S PROVE m >= f
      OBVIOUS
    <2>1. MaxHour - f \in T
      OBVIOUS
    <2>2. MaxHour - m <= MaxHour - f
      BY <1>3, <1>4, <2>1
    <2> HIDE DEF T
    <2> QED
      BY <1>1, <2>2, Hours
  <1>6. Max(S) \in S /\ \A f \in S : Max(S) >= f
    BY <1>5 DEF Max
  <1> QED
    BY <1>1, <1>6

LEMMA LaterOf ==
  ASSUME NEW a \in Int, NEW b \in Int
  PROVE  Max({a, b}) = IF a >= b THEN a ELSE b
  <1>1. \E x \in {a, b} : \A y \in {a, b} : x >= y
    OBVIOUS
  <1>2. Max({a, b}) \in {a, b} /\ \A y \in {a, b} : Max({a, b}) >= y
    BY <1>1 DEF Max
  <1> QED
    BY <1>2

-----------------------------------------------------------------------------
(* What the changes of a row do to the order.                              *)
LEMMA PairRange ==
  ASSUME NEW g, NEW k, NEW h
  PROVE  h \in Range(<<g, k>>) <=> h = g \/ h = k
  <1> DEFINE pair == <<g, k>>
  <1>1. DOMAIN pair = {1, 2} /\ pair[1] = g /\ pair[2] = k
    OBVIOUS
  <1> HIDE DEF pair
  <1>2. h \in Range(pair) <=> h = g \/ h = k
    BY <1>1 DEF Range
  <1> QED
    BY <1>2 DEF pair

LEMMA OrderDrops ==
  ASSUME OrderOK, NEW h \in Hour, Pending' = Pending \ {h}, order' = {pair \in order : h \notin Range(pair)},
         \A g \in Pending \ {h} : reading'[g].wait = reading[g].wait
  PROVE  OrderOK'
  <1>1. \A g, k : <<g, k>> \in order' <=> <<g, k>> \in order /\ g # h /\ k # h
    BY PairRange
  <1>2. order' \subseteq Pending' \X Pending'
    <2> SUFFICES ASSUME NEW pair \in order' PROVE pair \in Pending' \X Pending'
      OBVIOUS
    <2>1. PICK g \in Pending, k \in Pending : pair = <<g, k>>
      BY DEF OrderOK
    <2> QED
      BY <1>1, <2>1
  <1>3. \A g, k \in Pending' : Before(g, k)' <=> Before(g, k)
    BY <1>1 DEF Before
  <1> QED
    BY <1>2, <1>3 DEF OrderOK

LEMMA OrderPlaces ==
  ASSUME OrderOK, NEW h \in Hour, NEW wait \in Nat, Pending' = Pending \union {h}, order' = Placed(h, wait),
         \A g \in Pending : reading[g].wait \in Nat,
         reading'[h].wait = wait, \A g \in Pending \ {h} : reading'[g].wait = reading[g].wait
  PROVE  OrderOK'
  <1>1. \A g, k \in Pending \ {h} : <<g, k>> \in order' <=> <<g, k>> \in order
    BY PairRange DEF Placed
  <1>2. \A g \in Pending \ {h} : /\ <<g, h>> \in order' <=> reading[g].wait <= wait
                                 /\ <<h, g>> \in order' <=> reading[g].wait > wait
    <2> TAKE g \in Pending \ {h}
    <2>1. <<g, h>> \notin {pair \in order : h \notin Range(pair)} /\ <<h, g>> \notin {pair \in order : h \notin Range(pair)}
      BY PairRange
    <2> QED
      BY <2>1 DEF Placed
  <1>3. <<h, h>> \notin order'
    <2>1. <<h, h>> \notin {pair \in order : h \notin Range(pair)}
      BY PairRange
    <2> QED
      BY <2>1 DEF Placed
  <1>4. order' \subseteq Pending' \X Pending'
    <2>1. {pair \in order : h \notin Range(pair)} \subseteq Pending \X Pending
      BY DEF OrderOK
    <2> QED
      BY <2>1 DEF Placed
  <1>5. ASSUME NEW g \in Pending', NEW k \in Pending'
        PROVE  /\ Before(g, k)' <=> g # k /\ ~Before(k, g)'
               /\ Before(g, k)' => reading'[g].wait <= reading'[k].wait
    <2>1. CASE g # h /\ k # h
      BY <1>1, <2>1 DEF OrderOK, Before
    <2>2. CASE g = h /\ k # h
      BY <1>2, <2>2 DEF Before
    <2>3. CASE g # h /\ k = h
      BY <1>2, <2>3 DEF Before
    <2>4. CASE g = h /\ k = h
      BY <1>3, <2>4 DEF Before
    <2> QED
      BY <2>1, <2>2, <2>3, <2>4
  <1> QED
    BY <1>4, <1>5 DEF OrderOK

LEMMA OrderKeeps ==
  ASSUME OrderOK, Pending' = Pending, order' = order,
         \A g, h \in Pending : reading[g].wait <= reading[h].wait => reading'[g].wait <= reading'[h].wait
  PROVE  OrderOK'
  BY DEF OrderOK, Before

(* What a step that does not touch the hours, the readings' quantities or  *)
(* the batches keeps.                                                      *)
LEMMA SkipsKeep ==
  ASSUME NoHourSkipped, SkippedByTicks, TicksFollow, now' = now, marked' = marked,
         \A p \in Process : Aggregating(p)' => Aggregating(p) /\ loop'[p].from = loop[p].from
  PROVE  NoHourSkipped' /\ SkippedByTicks' /\ TicksFollow'
  <1>1. \A h : Old(h)' <=> Old(h)
    BY DEF Old, NewestClosed
  <1>2. NoHourSkipped'
    BY DEF NoHourSkipped, NewestClosed
  <1>3. SkippedByTicks'
    BY <1>1 DEF SkippedByTicks
  <1>4. TicksFollow'
    BY DEF TicksFollow, NewestClosed
  <1> QED
    BY <1>2, <1>3, <1>4

LEMMA UseKeeps ==
  ASSUME MarkedAsUsed, now' = now, used' = used, done' = done, marked' = marked,
         \A h \in Hour : /\ reading'[h].quantity = reading[h].quantity
                         /\ reading'[h].state = "none" <=> reading[h].state = "none"
                         /\ reading[h].state = "none" => reading'[h].lease = 0,
         marked \subseteq Hour
  PROVE  MarkedAsUsed'
  BY DEF MarkedAsUsed

LEMMA HeldKeeps ==
  ASSUME HeldOnce, overrun' = overrun,
         \A p \in Process : \A h \in Hour : Has(p, h)' => Has(p, h),
         \A h \in Hour \ overrun : \A p \in Process : Has(p, h)' /\ reading[h].lease > 0 => reading'[h].lease > 0
  PROVE  HeldOnce'
  BY DEF HeldOnce

(* A tick that becomes another is well formed, as all the others are.      *)
LEMMA OneTickOK ==
  ASSUME TypeOK, TicksOK, now' = now, NEW p \in Process, NEW l \in TickRec, TickOK(l), loop' = [loop EXCEPT ![p] = l]
  PROVE  TicksOK'
  <1>1. \A q \in Process : TickOK(loop'[q])
    BY OneTick DEF TicksOK
  <1> QED
    BY <1>1 DEF TicksOK, TickOK

-----------------------------------------------------------------------------
(* One lemma per action: the invariant is kept.                            *)
(* What an hour's operations are in the rows, and were done, changes.      *)
LEMMA UsesStep ==
  ASSUME IInv, used' \in [Hour -> 0..MaxUse], done' \in [Hour -> 0..MaxUse],
         \A h \in Hour : used'[h] <= done'[h],
         \A h \in Hour : h < now => used'[h] <= used[h] /\ done'[h] = done[h],
         UNCHANGED <<now, marked, reading, order, loop, billed, crashes, overrun>>
  PROVE  IInv'
  <1>1. TypeRest /\ OrderOK /\ marked \subseteq Hour /\ used \in [Hour -> 0..MaxUse] /\ done \in [Hour -> 0..MaxUse]
    BY TypeParts DEF IInv, TypeRest
  <1>2. TypeOK'
    <2>1. TypeRest'
      BY <1>1 DEF TypeRest
    <2>2. OrderOK'
      BY <1>1 DEF OrderOK, Before, Pending
    <2> QED
      BY <2>1, <2>2, TypeParts, PTL
  <1>3. MarkedAsUsed'
    <2>1. ASSUME NEW h \in marked \ Invalid
          PROVE  used'[h] <= reading[h].quantity /\ reading[h].quantity <= done'[h]
      <3>1. h \in Hour /\ h < now /\ used[h] <= reading[h].quantity /\ reading[h].quantity <= done[h]
        BY <1>1 DEF IInv, MarkedAsUsed
      <3>2. reading[h].quantity \in 0..MaxUse
        BY <3>1, ReadingFacts DEF IInv
      <3>3. used'[h] \in Int /\ used[h] \in Int /\ used'[h] <= used[h] /\ done'[h] = done[h]
        BY <1>1, <3>1
      <3> QED
        BY <3>1, <3>2, <3>3
    <2> QED
      BY <2>1 DEF IInv, MarkedAsUsed
  <1>4. TicksOK' /\ NoHourSkipped' /\ SkippedByTicks' /\ TicksFollow' /\ HeldOnce'
    BY DEF IInv, TicksOK, TickOK, NoHourSkipped, SkippedByTicks, TicksFollow, HeldOnce, Has, Aggregating, Old, NewestClosed
  <1> QED
    BY <1>2, <1>3, <1>4 DEF IInv

LEMMA UseStep ==
  ASSUME IInv, Use
  PROVE  IInv'
  <1>1. /\ now \in Hour /\ done[now] < MaxUse /\ MaxUse \in Nat /\ now \in Nat
        /\ used \in [Hour -> 0..MaxUse] /\ done \in [Hour -> 0..MaxUse]
    BY TypeParts, BillingBounds, Hours DEF IInv, TypeRest, Use
  <1>2. /\ used' = [used EXCEPT ![now] = used[now] + 1] /\ done' = [done EXCEPT ![now] = done[now] + 1]
        /\ UNCHANGED <<now, marked, reading, order, loop, billed, crashes, overrun>>
    BY DEF Use
  <1>3. used[now] \in 0..MaxUse /\ done[now] \in 0..MaxUse /\ used[now] <= done[now]
    BY <1>1 DEF IInv, MarkedAsUsed
  <1>4. used[now] + 1 \in 0..MaxUse /\ done[now] + 1 \in 0..MaxUse /\ used[now] + 1 <= done[now] + 1
    BY <1>1, <1>3
  <1>5. /\ used' \in [Hour -> 0..MaxUse] /\ done' \in [Hour -> 0..MaxUse]
        /\ used'[now] <= done'[now]
        /\ \A h \in Hour \ {now} : used'[h] = used[h] /\ done'[h] = done[h]
    BY <1>1, <1>2, <1>4
  <1>6. \A h \in Hour : used'[h] <= done'[h]
    BY <1>5 DEF IInv, MarkedAsUsed
  <1>7. \A h \in Hour : h < now => used'[h] <= used[h] /\ done'[h] = done[h]
    <2> TAKE h \in Hour
    <2> HAVE h < now
    <2>1. h # now /\ used[h] \in Int
      BY <1>1
    <2> QED
      BY <1>5, <2>1
  <1> QED
    BY <1>2, <1>5, <1>6, <1>7, UsesStep

LEMMA RequeueStep ==
  ASSUME IInv, NEW h \in Hour, Requeue(h)
  PROVE  IInv'
  <1>1. MaxUse \in Nat /\ used \in [Hour -> 0..MaxUse] /\ done \in [Hour -> 0..MaxUse]
    BY TypeParts, BillingBounds DEF IInv, TypeRest
  <1>2. /\ used' = [used EXCEPT ![h] = used[h] - 1] /\ used[h] > 0
        /\ UNCHANGED <<now, done, marked, reading, order, loop, billed, crashes, overrun>>
    BY DEF Requeue
  <1>3. used[h] - 1 \in 0..MaxUse /\ used[h] \in 0..MaxUse /\ done[h] \in 0..MaxUse /\ used[h] <= done[h]
    BY <1>1, <1>2 DEF IInv, MarkedAsUsed
  <1>4. used' \in [Hour -> 0..MaxUse] /\ used'[h] = used[h] - 1 /\ \A g \in Hour \ {h} : used'[g] = used[g]
    BY <1>1, <1>2, <1>3
  <1>5. \A g \in Hour : used'[g] <= used[g] /\ used'[g] <= done[g]
    <2> SUFFICES ASSUME NEW g \in Hour PROVE used'[g] <= used[g] /\ used'[g] <= done[g]
      OBVIOUS
    <2>1. CASE g = h
      BY <1>3, <1>4, <2>1
    <2>2. CASE g # h
      <3>1. used'[g] = used[g] /\ used[g] \in Int /\ used[g] <= done[g]
        BY <1>1, <1>4, <2>2 DEF IInv, MarkedAsUsed
      <3> QED
        BY <3>1
    <2> QED
      BY <2>1, <2>2
  <1> QED
    BY <1>1, <1>2, <1>4, <1>5, UsesStep

LEMMA HourStep ==
  ASSUME IInv, HourPasses
  PROVE  IInv'
  <1>1. TypeRest /\ OrderOK /\ now \in Hour /\ now < MaxHour /\ marked \subseteq Hour /\ Catchup \in Nat
    BY TypeParts, BillingBounds DEF IInv, TypeRest, HourPasses
  <1>2. now' = now + 1 /\ UNCHANGED <<used, done, marked, reading, order, loop, billed, crashes, overrun>> /\ ~FirstRun
    BY DEF HourPasses, uses
  <1>3. now \in Nat /\ MaxHour \in Nat /\ now' \in Hour /\ \A h \in Hour : h \in Nat
    BY <1>1, <1>2, Hours DEF Hour
  <1>4. TypeOK'
    <2>1. TypeRest'
      BY <1>1, <1>2, <1>3 DEF TypeRest
    <2>2. OrderOK'
      BY <1>1, <1>2 DEF OrderOK, Before, Pending
    <2> QED
      BY <2>1, <2>2, TypeParts, PTL
  <1>5. TicksOK'
    <2>1. \A p \in Process : loop[p].to \in Nat /\ TickOK(loop[p])
      BY <1>3, TickFacts DEF IInv
    <2>2. \A p \in Process : TickOK(loop[p])'
      BY <1>2, <1>3, <2>1 DEF TickOK
    <2> QED
      BY <2>2 DEF TicksOK
  <1>6. MarkedAsUsed'
    BY <1>1, <1>2, <1>3 DEF IInv, MarkedAsUsed
  <1>7. \A h \in Hour : Old(h) => Old(h)'
    BY <1>1, <1>2, <1>3 DEF Old, NewestClosed
  <1>8. NoHourSkipped'
    BY <1>2, <1>7 DEF IInv, NoHourSkipped, Old
  <1>9. SkippedByTicks'
    BY <1>2, <1>7 DEF IInv, SkippedByTicks, Aggregating
  <1>10. TicksFollow'
    BY <1>2 DEF IInv, TicksFollow, Aggregating, FirstRun
  <1>11. HeldOnce'
    BY <1>2 DEF IInv, HeldOnce, Has
  <1> QED
    BY <1>4, <1>5, <1>6, <1>8, <1>9, <1>10, <1>11 DEF IInv

LEMMA ClockStep ==
  ASSUME IInv, Clock
  PROVE  IInv'
  <1>1. TypeRest /\ OrderOK /\ LeaseTicks \in Nat /\ PostTicks \in Nat
    BY TypeParts, BillingBounds DEF IInv
  <1>2. UNCHANGED <<now, used, done, marked, order, billed, crashes>> /\ overrun' = overrun \union Outrun
    BY DEF Clock, uses
  <1> DEFINE row(h) == [reading[h] EXCEPT !.wait = Less(@), !.lease = Less(@)]
             tick(p) == IF loop[p].phase = "post" THEN [loop[p] EXCEPT !.spent = @ + 1] ELSE loop[p]
  <1>3. reading' = [h \in Hour |-> row(h)] /\ loop' = [p \in Process |-> tick(p)]
    BY DEF Clock, uses
  <1>4. ASSUME NEW h \in Hour
        PROVE  /\ row(h) \in ReadingRec /\ row(h).state = reading[h].state /\ row(h).quantity = reading[h].quantity
               /\ row(h).wait = Less(reading[h].wait) /\ row(h).lease = Less(reading[h].lease)
    <2> DEFINE w == Less(reading[h].wait)
               e == Less(reading[h].lease)
    <2>1. reading[h] \in ReadingRec /\ reading[h].wait \in Nat /\ reading[h].lease \in 0..LeaseTicks
      BY ReadingFacts DEF IInv
    <2>2. w \in Nat /\ e \in 0..LeaseTicks
      BY <1>1, <2>1 DEF Less
    <2>3. row(h) = [reading[h] EXCEPT !.wait = w, !.lease = e]
      BY <2>1 DEF ReadingRec
    <2> HIDE DEF w, e, row
    <2>4. /\ row(h) \in ReadingRec /\ row(h).state = reading[h].state /\ row(h).quantity = reading[h].quantity
          /\ row(h).wait = w /\ row(h).lease = e
      BY <2>1, <2>2, <2>3 DEF ReadingRec
    <2> QED
      BY <2>4 DEF w, e
  <1>5. ASSUME NEW p \in Process
        PROVE  /\ tick(p) \in TickRec /\ tick(p).phase = loop[p].phase /\ tick(p).from = loop[p].from
               /\ tick(p).to = loop[p].to /\ tick(p).batch = loop[p].batch
    <2> DEFINE n == loop[p].spent + 1
    <2>1. loop[p] \in TickRec /\ loop[p].spent \in 0..PostTicks /\ loop[p].spent < PostTicks
      BY TickFacts DEF IInv, Clock
    <2>2. n \in 0..PostTicks
      BY <1>1, <2>1
    <2>3. CASE loop[p].phase = "post"
      <3>1. tick(p) = [loop[p] EXCEPT !.spent = n]
        BY <2>3
      <3> HIDE DEF n, tick
      <3> QED
        BY <2>1, <2>2, <3>1 DEF TickRec
    <2>4. CASE loop[p].phase # "post"
      <3>1. tick(p) = loop[p]
        BY <2>4
      <3> HIDE DEF tick
      <3> QED
        BY <2>1, <3>1
    <2> QED
      BY <2>3, <2>4
  <1>6. \A h \in Hour : reading'[h] = row(h)
    BY <1>3
  <1>7. \A p \in Process : loop'[p] = tick(p)
    BY <1>3
  <1>8. reading' \in [Hour -> ReadingRec] /\ loop' \in [Process -> TickRec]
    <2> HIDE DEF row, tick
    <2> QED
      BY <1>3, <1>4, <1>5
  <1> HIDE DEF row, tick
  <1>9. TypeOK'
    <2>1. Outrun \subseteq Hour
      BY DEF Outrun
    <2>2. TypeRest'
      BY <1>1, <1>2, <1>8, <2>1 DEF TypeRest
    <2>3. Pending' = Pending
      BY <1>4, <1>6 DEF Pending
    <2>4. ASSUME NEW g \in Pending, NEW h \in Pending, reading[g].wait <= reading[h].wait
          PROVE  reading'[g].wait <= reading'[h].wait
      <3>1. g \in Hour /\ h \in Hour /\ reading[g].wait \in Nat /\ reading[h].wait \in Nat
        BY ReadingFacts DEF Pending, IInv
      <3>2. reading'[g].wait = Less(reading[g].wait) /\ reading'[h].wait = Less(reading[h].wait)
        BY <1>4, <1>6, <3>1
      <3> QED
        BY <2>4, <3>1, <3>2 DEF Less
    <2>5. OrderOK'
      BY <1>1, <1>2, <2>3, <2>4, OrderKeeps
    <2> QED
      BY <2>2, <2>5, TypeParts, PTL
  <1>10. TicksOK'
    BY <1>2, <1>5, <1>7 DEF IInv, TicksOK, TickOK
  <1>11. MarkedAsUsed'
    <2>1. \A h \in Hour : /\ reading'[h].quantity = reading[h].quantity
                          /\ reading'[h].state = "none" <=> reading[h].state = "none"
                          /\ reading[h].state = "none" => reading'[h].lease = 0
      BY <1>4, <1>6 DEF IInv, MarkedAsUsed, Less
    <2> QED
      BY <1>1, <1>2, <2>1, UseKeeps DEF IInv, TypeRest
  <1>12. NoHourSkipped' /\ SkippedByTicks' /\ TicksFollow'
    <2>1. \A p \in Process : Aggregating(p)' => Aggregating(p) /\ loop'[p].from = loop[p].from
      BY <1>5, <1>7 DEF Aggregating
    <2> QED
      BY <1>2, <2>1, SkipsKeep DEF IInv
  <1>13. HeldOnce'
    <2>1. \A p \in Process : \A h : Has(p, h)' <=> Has(p, h)
      BY <1>5, <1>7 DEF Has
    <2>2. ASSUME NEW h \in Hour \ overrun', NEW p \in Process, Has(p, h)'
          PROVE  reading'[h].lease > 0
      <3>1. Has(p, h) /\ h \in Hour \ overrun /\ h \notin Outrun
        BY <1>2, <2>1, <2>2
      <3>2. h \in Range(loop[p].batch)
        BY <3>1 DEF Has, Range
      <3>3. reading[h].lease > 0 /\ reading[h].lease # 1 /\ reading[h].lease \in Nat
        BY <3>1, <3>2, ReadingFacts DEF Outrun, IInv, HeldOnce
      <3> QED
        BY <1>4, <1>6, <3>3 DEF Less
    <2> QED
      BY <1>2, <2>1, <2>2 DEF IInv, HeldOnce
  <1> QED
    BY <1>9, <1>10, <1>11, <1>12, <1>13 DEF IInv

LEMMA StartStep ==
  ASSUME IInv, NEW p \in Process, Start(p)
  PROVE  IInv'
  <1>1. /\ TypeRest /\ OrderOK /\ TypeOK /\ TicksOK /\ now \in Hour /\ now >= 1 /\ marked \subseteq Hour
        /\ Catchup \in Nat \ {0} /\ \A f \in marked : f < now
    BY TypeParts, BillingBounds DEF IInv, TypeRest, MarkedAsUsed
  <1>2. now \in Nat /\ now <= MaxHour /\ MaxHour \in Nat /\ \A h \in Hour : h \in Nat
    BY <1>1, Hours
  <1> DEFINE from == From
             to == NewestClosed
             l == [NoTick EXCEPT !.phase = "aggregate", !.from = from, !.to = to]
             last == Max(marked)
             back == NewestClosed - (Catchup - 1)
  <1>3. to = now - 1 /\ to \in Hour /\ back \in Int
    BY <1>1, <1>2 DEF NewestClosed, Hour
  <1>4. marked # {} => /\ last \in marked /\ \A f \in marked : f <= last
                       /\ last \in Nat /\ last < now
                       /\ from = IF last + 1 >= back THEN last + 1 ELSE back
    <2> HAVE marked # {}
    <2>1. last \in marked /\ \A f \in marked : f <= last
      BY <1>1, LatestHour
    <2>2. last \in Nat /\ last < now
      BY <1>1, <1>2, <2>1
    <2>3. from = Max({last + 1, back})
      BY DEF From
    <2> HIDE DEF from, last, back
    <2>4. last + 1 \in Int
      BY <2>2
    <2> QED
      BY <1>3, <2>1, <2>2, <2>3, <2>4, LaterOf
  <1>5. marked = {} => from = to
    BY DEF From
  <1>6. from \in 0..(MaxHour + 1) /\ from <= to + 1
    <2>1. CASE marked = {}
      <3> HIDE DEF from, to
      <3> QED
        BY <1>2, <1>3, <1>5, <2>1
    <2>2. CASE marked # {}
      <3>1. back = to - (Catchup - 1)
        OBVIOUS
      <3> HIDE DEF from, to, last, back
      <3> QED
        BY <1>1, <1>2, <1>3, <1>4, <2>2, <3>1
    <2> QED
      BY <2>1, <2>2
  <1>7. loop' = [loop EXCEPT ![p] = l] /\ UNCHANGED <<now, used, done, marked, reading, order, billed, crashes, overrun>>
    BY DEF Start, uses
  <1>8. l \in TickRec /\ l.phase = "aggregate" /\ l.from = from /\ l.to = to /\ l.batch = <<>>
    <2> HIDE DEF from, to
    <2>1. l \in TickRec /\ l.phase = "aggregate" /\ l.from = from /\ l.to = to /\ l.batch = NoTick.batch
      BY <1>3, <1>6, NoTickOK DEF TickRec
    <2> QED
      BY <2>1, NoTickOK
  <1>9. TickOK(l)
    <2>1. DOMAIN l.batch = {} /\ "aggregate" \notin Sending /\ to < now
      BY <1>2, <1>3, <1>8 DEF Sending
    <2> HIDE DEF l, from, to
    <2> QED
      BY <1>6, <1>8, <2>1 DEF TickOK
  <1>10. loop' \in [Process -> TickRec] /\ loop'[p] = l /\ \A q \in Process \ {p} : loop'[q] = loop[q]
    <2> HIDE DEF l
    <2> QED
      BY <1>1, <1>7, <1>8, OneTick
  <1>11. TypeOK'
    <2>1. TypeRest'
      BY <1>1, <1>7, <1>10 DEF TypeRest
    <2>2. OrderOK'
      BY <1>1, <1>7 DEF OrderOK, Before, Pending
    <2> QED
      BY <2>1, <2>2, TypeParts, PTL
  <1>12. TicksOK'
    <2> HIDE DEF l
    <2> QED
      BY <1>1, <1>7, <1>8, <1>9, OneTickOK
  <1>13. MarkedAsUsed' /\ NoHourSkipped'
    BY <1>7 DEF IInv, MarkedAsUsed, NoHourSkipped, NewestClosed
  <1>14. HeldOnce'
    <2>1. \A q \in Process : \A h \in Hour : Has(q, h)' => Has(q, h)
      <3>1. \A h : ~\E i \in DOMAIN l.batch : l.batch[i] = h
        BY <1>8
      <3> HIDE DEF l
      <3> QED
        BY <1>10, <3>1 DEF Has
    <2> QED
      BY <1>7, <2>1, HeldKeeps DEF IInv
  <1> HIDE DEF l
  <1>15. SkippedByTicks'
    <2> SUFFICES ASSUME NEW q \in Process, Aggregating(q)', NEW h \in Hour \ marked, h < loop'[q].from,
                        NEW f \in marked, f < h
                 PROVE  Old(h)'
      BY <1>7 DEF SkippedByTicks
    <2>1. CASE q # p
      BY <1>7, <1>10, <2>1 DEF IInv, SkippedByTicks, Aggregating, Old, NewestClosed
    <2>2. CASE q = p
      <3>1. h < from /\ h \in Nat /\ f \in Nat
        BY <1>1, <1>2, <1>8, <1>10, <2>2
      <3>2. CASE h < last
        BY <1>4, <1>7, <3>2 DEF IInv, NoHourSkipped, Old, NewestClosed
      <3>3. CASE ~(h < last)
        <4>1. back = to - (Catchup - 1) /\ to = NewestClosed /\ h # last
          BY <1>4
        <4> HIDE DEF from, to, last, back
        <4>2. h > last
          BY <1>4, <3>1, <3>3, <4>1
        <4>3. h < back
          BY <1>1, <1>3, <1>4, <3>1, <4>2
        <4>4. to - h >= Catchup
          BY <1>1, <1>2, <1>3, <3>1, <4>1, <4>3
        <4> QED
          BY <1>7, <4>1, <4>4 DEF Old, NewestClosed
      <3> QED
        BY <3>2, <3>3
    <2> QED
      BY <2>1, <2>2
  <1>16. TicksFollow'
    <2> SUFFICES ASSUME NEW q \in Process, Aggregating(q)'
                 PROVE  IF marked = {} THEN loop'[q].from = NewestClosed ELSE \E f \in marked : f <= loop'[q].from
      BY <1>7 DEF TicksFollow, NewestClosed
    <2>1. CASE q # p
      BY <1>10, <2>1 DEF IInv, TicksFollow, Aggregating
    <2>2. CASE q = p
      <3>1. loop'[q].from = from
        BY <1>8, <1>10, <2>2
      <3>2. CASE marked = {}
        BY <1>5, <3>1, <3>2
      <3>3. CASE marked # {}
        <4> HIDE DEF from, last, back
        <4>1. last \in marked /\ last <= from
          BY <1>3, <1>4, <3>3
        <4> QED
          BY <3>1, <3>3, <4>1
      <3> QED
        BY <3>2, <3>3
    <2> QED
      BY <2>1, <2>2
  <1> QED
    BY <1>11, <1>12, <1>13, <1>14, <1>15, <1>16 DEF IInv

(* An hour is aggregated: what lies between it and another is already      *)
(* there, or too old.                                                      *)
LEMMA AggregateStep ==
  ASSUME IInv, NEW p \in Process, Aggregate(p)
  PROVE  IInv'
  <1> DEFINE h == loop[p].from
             l == [loop[p] EXCEPT !.from = h + 1]
             q0 == used[h]
             r == [NoReading EXCEPT !.state = "pending", !.quantity = q0]
             new == used[h] > 0 /\ h \notin Invalid /\ reading[h].state = "none"
  <1>1. /\ TypeRest /\ OrderOK /\ TypeOK /\ TicksOK /\ now \in Hour /\ marked \subseteq Hour
        /\ used \in [Hour -> 0..MaxUse] /\ done \in [Hour -> 0..MaxUse] /\ MaxUse \in Nat /\ LeaseTicks \in Nat
    BY TypeParts, BillingBounds DEF IInv, TypeRest
  <1>2. loop[p] \in TickRec /\ TickOK(loop[p]) /\ loop[p].to \in Hour /\ h \in Nat /\ Aggregating(p) /\ h <= loop[p].to
    BY <1>1, TickFacts DEF Aggregate, Aggregating
  <1>3. now \in Nat /\ MaxHour \in Nat /\ now <= MaxHour /\ (\A k \in Hour : k \in Nat)
    BY <1>1, Hours
  <1>4. loop[p].to < now
    BY <1>2 DEF TickOK, Aggregating
  <1>5. h < now /\ h \in Hour /\ h + 1 \in 0..(MaxHour + 1)
    <2>1. loop[p].to \in Nat
      BY <1>2, <1>3
    <2> HIDE DEF h
    <2> QED
      BY <1>2, <1>3, <1>4, <2>1 DEF Hour
  <1>6. /\ loop' = [loop EXCEPT ![p] = l] /\ marked' = marked \union {h}
        /\ reading' = IF new THEN [reading EXCEPT ![h] = r] ELSE reading
        /\ order' = IF new THEN Placed(h, 0) ELSE order
        /\ UNCHANGED <<now, used, done, billed, crashes, overrun>>
    BY DEF Aggregate, New, uses
  <1>7. /\ l \in TickRec /\ l.phase = "aggregate" /\ l.from = h + 1 /\ l.to = loop[p].to
        /\ l.batch = loop[p].batch
    <2> DEFINE n == h + 1
    <2>1. n \in 0..(MaxHour + 1) /\ l = [loop[p] EXCEPT !.from = n]
      BY <1>5
    <2>2. loop[p].phase = "aggregate"
      BY <1>2 DEF Aggregating
    <2> HIDE DEF n, l, h
    <2>3. /\ l \in TickRec /\ l.phase = "aggregate" /\ l.from = n /\ l.to = loop[p].to
          /\ l.batch = loop[p].batch
      BY <1>2, <2>1, <2>2 DEF TickRec
    <2> QED
      BY <2>3 DEF n
  <1>8. TickOK(l)
    <2>1. loop[p].to \in Nat /\ "aggregate" \notin Sending
      BY <1>2, <1>3 DEF Sending
    <2>2. h + 1 <= loop[p].to + 1
      BY <1>2, <2>1
    <2> HIDE DEF l, h
    <2> QED
      BY <1>2, <1>4, <1>7, <2>1, <2>2 DEF TickOK
  <1>9. loop' \in [Process -> TickRec] /\ loop'[p] = l /\ \A q \in Process \ {p} : loop'[q] = loop[q]
    <2> HIDE DEF l
    <2> QED
      BY <1>1, <1>6, <1>7, OneTick
  <1>10. TicksOK'
    <2> HIDE DEF l
    <2> QED
      BY <1>1, <1>6, <1>7, <1>8, OneTickOK
  <1>11. /\ r \in ReadingRec /\ r.state = "pending" /\ r.quantity = used[h] /\ r.wait = 0
    <2>1. q0 \in 0..MaxUse
      BY <1>1, <1>5
    <2>2. NoReading \in ReadingRec /\ NoReading.wait = 0
      BY <1>1 DEF NoReading, ReadingRec
    <2> HIDE DEF q0
    <2>3. r \in ReadingRec /\ r.state = "pending" /\ r.quantity = q0 /\ r.wait = 0
      BY <2>1, <2>2 DEF ReadingRec
    <2> QED
      BY <2>3 DEF q0
  <1> HIDE DEF r
  <1>12. /\ reading' \in [Hour -> ReadingRec] /\ \A k \in Hour \ {h} : reading'[k] = reading[k]
         /\ new => reading'[h] = r
         /\ ~new => reading' = reading
    <2>1. CASE new
      <3>1. reading' = [reading EXCEPT ![h] = r]
        BY <1>6, <2>1
      <3> HIDE DEF h, new
      <3> QED
        BY <1>1, <1>5, <1>11, <2>1, <3>1, OneReading
    <2>2. CASE ~new
      BY <1>1, <1>6, <2>2 DEF TypeRest
    <2> QED
      BY <2>1, <2>2
  <1>13. OrderOK'
    <2>1. CASE new
      <3>1. order' = Placed(h, 0) /\ reading'[h].state = "pending" /\ reading'[h].wait = 0 /\ 0 \in Nat
        BY <1>6, <1>11, <1>12, <2>1
      <3>2. \A g \in Pending : reading[g].wait \in Nat
        BY <1>1, ReadingFacts DEF Pending
      <3> HIDE DEF h, new
      <3>3. Pending' = Pending \union {h} /\ \A g \in Pending \ {h} : reading'[g].wait = reading[g].wait
        BY <1>5, <1>12, <3>1 DEF Pending
      <3> QED
        BY <1>1, <1>5, <3>1, <3>2, <3>3, OrderPlaces
    <2>2. CASE ~new
      BY <1>1, <1>6, <2>2 DEF OrderOK, Before, Pending
    <2> QED
      BY <2>1, <2>2
  <1>14. TypeOK'
    <2>1. marked' \subseteq Hour
      BY <1>1, <1>5, <1>6
    <2>2. TypeRest'
      BY <1>1, <1>6, <1>9, <1>12, <2>1 DEF TypeRest
    <2> QED
      BY <1>13, <2>2, TypeParts, PTL
  <1>15. MarkedAsUsed'
    <2> DEFINE billedWell == h \notin Invalid => used[h] <= reading'[h].quantity /\ reading'[h].quantity <= done[h]
    <2>5. used[h] \in 0..MaxUse /\ done[h] \in 0..MaxUse /\ used[h] <= done[h]
      BY <1>1, <1>5 DEF IInv, MarkedAsUsed
    <2>1. billedWell /\ (reading'[h].state = "none" => reading'[h].quantity = 0 /\ reading'[h].lease = 0)
      <3>1. CASE new
        BY <1>11, <1>12, <2>5, <3>1
      <3>2. CASE ~new /\ reading[h].state = "none"
        <4>1. h \notin Invalid => used[h] = 0
          BY <2>5, <3>2
        <4>2. reading'[h].quantity = 0 /\ reading'[h].lease = 0
          BY <1>5, <1>12, <3>2 DEF IInv, MarkedAsUsed
        <4> QED
          BY <2>5, <4>1, <4>2
      <3>3. CASE reading[h].state # "none"
        BY <1>5, <1>12, <3>3 DEF IInv, MarkedAsUsed
      <3> QED
        BY <3>1, <3>2, <3>3
    <2> HIDE DEF h, new, l
    <2>2. \A k \in marked' : k < now
      BY <1>5, <1>6 DEF IInv, MarkedAsUsed
    <2>6. \A k \in marked' \ Invalid : used[k] <= reading'[k].quantity /\ reading'[k].quantity <= done[k]
      BY <1>1, <1>5, <1>6, <1>12, <2>1 DEF IInv, MarkedAsUsed
    <2>3. \A k \in Hour : reading'[k].state = "none" => reading'[k].quantity = 0 /\ reading'[k].lease = 0
      BY <1>12, <2>1 DEF IInv, MarkedAsUsed
    <2>4. \A k \in Hour : reading'[k].state # "none" => k \in marked'
      BY <1>6, <1>12 DEF IInv, MarkedAsUsed
    <2> QED
      BY <1>6, <2>2, <2>3, <2>4, <2>6 DEF IInv, MarkedAsUsed
  <1>16. HeldOnce'
    <2> HIDE DEF l
    <2>1. \A q \in Process : \A k \in Hour : Has(q, k)' => Has(q, k)
      BY <1>7, <1>9 DEF Has
    <2>2. ASSUME NEW k \in Hour \ overrun, NEW q \in Process, reading[k].lease > 0
          PROVE  reading'[k].lease > 0
      <3>1. CASE new
        <4>1. reading[h].lease = 0
          BY <1>5, <3>1 DEF IInv, MarkedAsUsed
        <4>2. k # h
          BY <2>2, <4>1
        <4> QED
          BY <1>12, <2>2, <4>2
      <3>2. CASE ~new
        BY <1>12, <2>2, <3>2
      <3> QED
        BY <3>1, <3>2
    <2> QED
      BY <1>6, <2>1, <2>2, HeldKeeps DEF IInv
  <1>17. \A k : Old(k)' <=> Old(k)
    BY <1>6 DEF Old, NewestClosed
  <1>18. marked = {} => h = NewestClosed
    BY <1>2 DEF IInv, TicksFollow
  <1>19. marked # {} => \E f \in marked : f <= h
    BY <1>2 DEF IInv, TicksFollow
  <1>20. ASSUME NEW k \in Hour \ marked, k < h, NEW f \in marked, f < k PROVE Old(k)
    BY <1>2, <1>20 DEF IInv, SkippedByTicks
  <1>21. \A q \in Process : Aggregating(q)' =>
           \/ q = p /\ loop'[q].from = h + 1
           \/ q # p /\ Aggregating(q) /\ loop'[q].from = loop[q].from
    BY <1>7, <1>9 DEF Aggregating
  <1>22. \A q \in Process : loop[q].from \in Nat
    BY <1>1, TickFacts
  <1> HIDE DEF h, l, new
  <1>23. NoHourSkipped'
    <2> SUFFICES ASSUME NEW k \in Hour \ marked', NEW f \in marked', NEW g \in marked', f < k, k < g
                 PROVE  Old(k)
      BY <1>6 DEF NoHourSkipped, Old, NewestClosed
    <2>1. k \in Hour \ marked /\ k # h /\ k \in Nat /\ f \in Nat /\ g \in Nat /\ f \in marked \union {h} /\ g \in marked \union {h}
      BY <1>1, <1>3, <1>5, <1>6
    <2>2. CASE g \in marked
      <3>1. PICK e \in marked : e < k
        <4>1. CASE f \in marked
          BY <4>1
        <4>2. CASE f = h
          <5>1. PICK e \in marked : e <= h
            BY <1>19, <2>2
          <5>2. e \in Nat /\ h \in Nat
            BY <1>1, <1>3, <1>5
          <5> QED
            BY <2>1, <4>2, <5>1, <5>2
        <4> QED
          BY <2>1, <4>1, <4>2
      <3> QED
        BY <2>1, <2>2, <3>1 DEF IInv, NoHourSkipped, Old
    <2>3. CASE g = h
      <3>1. f # h
        BY <2>1, <2>3
      <3> QED
        BY <1>20, <2>1, <2>3, <3>1
    <2> QED
      BY <2>1, <2>2, <2>3
  <1>24. SkippedByTicks'
    <2> SUFFICES ASSUME NEW q \in Process, Aggregating(q)', NEW k \in Hour \ marked', k < loop'[q].from,
                        NEW f \in marked', f < k
                 PROVE  Old(k)
      BY <1>17 DEF SkippedByTicks
    <2>1. k \in Hour \ marked /\ k # h /\ k \in Nat /\ f \in Nat /\ h \in Nat /\ f \in marked \union {h}
      BY <1>1, <1>3, <1>5, <1>6
    <2>2. CASE q = p
      <3>1. k < h
        BY <1>21, <2>1, <2>2
      <3>2. f \in marked
        BY <2>1, <3>1
      <3> QED
        BY <1>20, <2>1, <3>1, <3>2
    <2>3. CASE q # p
      <3>1. Aggregating(q) /\ k < loop[q].from
        BY <1>21, <2>3
      <3>2. CASE marked = {}
        <4>1. loop[q].from = h /\ f = h
          BY <1>18, <2>1, <3>1, <3>2 DEF IInv, TicksFollow
        <4> QED
          BY <2>1, <3>1, <4>1
      <3>3. CASE marked # {}
        <4>1. PICK e \in marked : e < k
          <5>1. CASE f \in marked
            BY <5>1
          <5>2. CASE f = h
            <6>1. PICK e \in marked : e <= h
              BY <1>19, <3>3
            <6>2. e \in Nat
              BY <1>1, <1>3
            <6> QED
              BY <2>1, <5>2, <6>1, <6>2
          <5> QED
            BY <2>1, <5>1, <5>2
        <4> QED
          BY <2>1, <3>1, <4>1 DEF IInv, SkippedByTicks
      <3> QED
        BY <3>2, <3>3
    <2> QED
      BY <2>2, <2>3
  <1>25. TicksFollow'
    <2> SUFFICES ASSUME NEW q \in Process, Aggregating(q)' PROVE \E f \in marked' : f <= loop'[q].from
      BY <1>6 DEF TicksFollow
    <2>1. h \in marked' /\ h \in Nat
      BY <1>3, <1>5, <1>6
    <2>2. CASE q = p
      <3>1. loop'[q].from = h + 1
        BY <1>21, <2>2
      <3> QED
        BY <2>1, <3>1
    <2>3. CASE q # p
      <3>1. Aggregating(q) /\ loop'[q].from = loop[q].from
        BY <1>21, <2>3
      <3>2. CASE marked = {}
        <4>1. loop[q].from = h
          BY <1>18, <3>1, <3>2 DEF IInv, TicksFollow
        <4> QED
          BY <2>1, <3>1, <4>1
      <3>3. CASE marked # {}
        BY <1>6, <3>1, <3>3 DEF IInv, TicksFollow
      <3> QED
        BY <3>2, <3>3
    <2> QED
      BY <2>2, <2>3
  <1> QED
    BY <1>10, <1>14, <1>15, <1>16, <1>23, <1>24, <1>25 DEF IInv

(* A tick that keeps its batch, or loses it, and aggregates no more.       *)
LEMMA OtherTick ==
  ASSUME IInv, NEW p \in Process, NEW l \in TickRec, TickOK(l), loop' = [loop EXCEPT ![p] = l],
         l.phase # "aggregate", l.batch = loop[p].batch \/ l.batch = <<>>,
         UNCHANGED <<now, used, done, marked, reading, order, overrun>>, billed' \subseteq Hour, crashes' \in 0..MaxCrashes
  PROVE  IInv'
  <1>1. TypeOK /\ TypeRest /\ OrderOK /\ TicksOK
    BY TypeParts DEF IInv
  <1>2. loop' \in [Process -> TickRec] /\ loop'[p] = l /\ \A q \in Process \ {p} : loop'[q] = loop[q]
    BY <1>1, OneTick
  <1>3. TypeOK'
    <2>1. TypeRest'
      BY <1>1, <1>2 DEF TypeRest
    <2>2. OrderOK'
      BY <1>1 DEF OrderOK, Before, Pending
    <2> QED
      BY <2>1, <2>2, TypeParts, PTL
  <1>4. TicksOK'
    BY <1>1, OneTickOK
  <1>5. MarkedAsUsed'
    BY DEF IInv, MarkedAsUsed
  <1>6. NoHourSkipped' /\ SkippedByTicks' /\ TicksFollow'
    <2>1. \A q \in Process : Aggregating(q)' => Aggregating(q) /\ loop'[q].from = loop[q].from
      BY <1>2 DEF Aggregating
    <2> QED
      BY <2>1, SkipsKeep DEF IInv
  <1>7. HeldOnce'
    <2>1. \A q \in Process : \A h \in Hour : Has(q, h)' => Has(q, h)
      BY <1>2 DEF Has
    <2> QED
      BY <2>1, HeldKeeps DEF IInv
  <1> QED
    BY <1>3, <1>4, <1>5, <1>6, <1>7 DEF IInv

LEMMA AggregatedStep ==
  ASSUME IInv, NEW p \in Process, Aggregated(p)
  PROVE  IInv'
  <1> DEFINE l == [loop[p] EXCEPT !.phase = "claim"]
  <1>1. loop' = [loop EXCEPT ![p] = l] /\ UNCHANGED <<now, used, done, marked, reading, order, billed, crashes, overrun>>
    BY DEF Aggregated, Step, uses
  <1>2. loop[p] \in TickRec /\ TickOK(loop[p])
    BY TickFacts DEF IInv
  <1>3. l \in TickRec /\ l.phase = "claim" /\ l.batch = loop[p].batch
    BY <1>2 DEF TickRec
  <1>4. billed' \subseteq Hour /\ crashes' \in 0..MaxCrashes
    BY <1>1, TypeParts DEF IInv, TypeRest
  <1> HIDE DEF l
  <1>5. TickOK(l) /\ l.phase # "aggregate"
    BY <1>2, <1>3 DEF TickOK, Sending
  <1> QED
    BY <1>1, <1>3, <1>4, <1>5, OtherTick

LEMMA AnswerStep ==
  ASSUME IInv, NEW p \in Process, NEW answer \in {"ok", "final", "retry"}, Answer(p, answer)
  PROVE  IInv'
  <1> DEFINE l == [loop[p] EXCEPT !.phase = "record", !.answer = answer, !.spent = 0]
  <1>1. /\ loop' = [loop EXCEPT ![p] = l] /\ UNCHANGED <<now, used, done, marked, reading, order, crashes, overrun>>
        /\ loop[p].phase = "post"
        /\ billed' = billed \union {Posted(p)} \/ billed' = billed
    BY DEF Answer, uses
  <1>2. loop[p] \in TickRec /\ TickOK(loop[p]) /\ loop[p].batch \in Seq(Hour)
    BY TickFacts DEF IInv
  <1>3. l \in TickRec /\ l.phase = "record" /\ l.batch = loop[p].batch
    <2>1. 0 \in 0..PostTicks
      BY BillingBounds
    <2> DEFINE m == [loop[p] EXCEPT !.phase = "record", !.answer = answer]
    <2>2. m \in TickRec /\ m.phase = "record" /\ m.batch = loop[p].batch
      BY <1>2 DEF TickRec, Sending
    <2>3. l = [m EXCEPT !.spent = 0]
      BY <1>2 DEF TickRec
    <2> HIDE DEF m, l
    <2> QED
      BY <2>1, <2>2, <2>3 DEF TickRec
  <1> HIDE DEF l
  <1>4. TickOK(l) /\ l.phase # "aggregate"
    BY <1>1, <1>2, <1>3 DEF TickOK, Sending
  <1>5. Posted(p) \in Hour
    BY <1>1, <1>2, HeadTailProperties DEF TickOK, Sending, Posted
  <1>6. billed' \subseteq Hour /\ crashes' \in 0..MaxCrashes
    BY <1>1, <1>5, TypeParts DEF IInv, TypeRest
  <1> QED
    BY <1>1, <1>3, <1>4, <1>6, OtherTick

LEMMA CrashStep ==
  ASSUME IInv, NEW p \in Process, Crash(p)
  PROVE  IInv'
  <1>1. crashes' \in 0..MaxCrashes
    <2>1. crashes \in 0..MaxCrashes /\ MaxCrashes \in Nat /\ crashes < MaxCrashes /\ crashes' = crashes + 1
      BY TypeParts, BillingBounds DEF IInv, TypeRest, Crash
    <2> QED
      BY <2>1
  <1>2. billed' \subseteq Hour
    BY TypeParts DEF IInv, TypeRest, Crash
  <1> QED
    BY <1>1, <1>2, NoTickOK, OtherTick DEF Crash, uses

(* What a claim leases is due, no row twice, and nobody has it.            *)
LEMMA BatchFacts ==
  ASSUME TypeOK, NEW b \in Batches
  PROVE  /\ b \in Seq(Hour) /\ \A i, j \in DOMAIN b : i # j => b[i] # b[j]
         /\ \A i \in DOMAIN b : b[i] \in FirstDue
  <1>1. FirstDue \subseteq Pending /\ Pending \subseteq Hour
    BY DEF FirstDue, Due, Pending
  <1>2. Cardinality(FirstDue) \in Nat
    BY <1>1, Hours, FS_Subset, FS_CardinalityType
  <1> DEFINE n == Cardinality(FirstDue)
  <1>3. b \in [1..n -> FirstDue] /\ \A i, j \in DOMAIN b : i < j => Before(b[i], b[j])
    BY DEF Batches
  <1> HIDE DEF n
  <1>4. n \in Nat
    BY <1>2 DEF n
  <1>5. b \in Seq(Hour)
    BY <1>1, <1>3, <1>4
  <1>6. DOMAIN b = 1..n /\ \A i \in DOMAIN b : b[i] \in FirstDue /\ b[i] \in Pending
    BY <1>1, <1>3
  <1>7. ASSUME NEW i \in DOMAIN b, NEW j \in DOMAIN b, i < j PROVE b[i] # b[j]
    BY <1>3, <1>6, <1>7, TypeParts DEF OrderOK
  <1>8. \A i, j \in DOMAIN b : i # j => b[i] # b[j]
    <2> SUFFICES ASSUME NEW i \in DOMAIN b, NEW j \in DOMAIN b, i # j PROVE b[i] # b[j]
      OBVIOUS
    <2>1. i < j \/ j < i
      BY <1>4, <1>6
    <2> QED
      BY <1>7, <2>1
  <1> QED
    BY <1>5, <1>6, <1>8

LEMMA ClaimStep ==
  ASSUME IInv, NEW p \in Process, Claim(p)
  PROVE  IInv'
  <1>1. TypeOK /\ TypeRest /\ OrderOK /\ TicksOK /\ LeaseTicks \in Nat /\ LeaseTicks > 0
    BY TypeParts, BillingBounds DEF IInv
  <1> DEFINE row(h) == IF h \in FirstDue THEN [reading[h] EXCEPT !.lease = LeaseTicks] ELSE reading[h]
  <1>2. /\ reading' = [h \in Hour |-> row(h)]
        /\ UNCHANGED <<now, used, done, marked, order, billed, crashes, overrun>>
    BY DEF Claim, uses
  <1>3. PICK b \in Batches : loop' = Batched(p, b)
    BY DEF Claim
  <1>4. /\ b \in Seq(Hour) /\ (\A i, j \in DOMAIN b : i # j => b[i] # b[j])
        /\ \A i \in DOMAIN b : b[i] \in FirstDue
    BY <1>1, <1>3, BatchFacts
  <1> DEFINE l == IF b = <<>> THEN NoTick ELSE [NoTick EXCEPT !.phase = "post", !.batch = b]
  <1>5. loop' = [loop EXCEPT ![p] = l]
    BY <1>3 DEF Batched
  <1>6. l \in TickRec /\ l.phase # "aggregate" /\ (l.phase \in Sending => l.batch # <<>>) /\ l.batch = b
    <2>1. CASE b = <<>>
      <3>1. l = NoTick
        BY <2>1
      <3> HIDE DEF l
      <3> QED
        BY <2>1, <3>1, NoTickOK DEF Sending
    <2>2. CASE b # <<>>
      <3>1. l = [NoTick EXCEPT !.phase = "post", !.batch = b]
        BY <2>2
      <3> HIDE DEF l
      <3>2. l \in TickRec /\ l.phase = "post" /\ l.batch = b
        BY <1>4, <3>1, NoTickOK DEF TickRec, Sending
      <3> QED
        BY <2>2, <3>2
    <2> QED
      BY <2>1, <2>2
  <1> HIDE DEF l
  <1>7. TickOK(l)
    BY <1>4, <1>6 DEF TickOK
  <1>8. loop' \in [Process -> TickRec] /\ loop'[p] = l /\ \A q \in Process \ {p} : loop'[q] = loop[q]
    BY <1>1, <1>5, <1>6, OneTick
  <1>9. ASSUME NEW h \in Hour
        PROVE  /\ row(h) \in ReadingRec /\ row(h).state = reading[h].state /\ row(h).quantity = reading[h].quantity
               /\ row(h).wait = reading[h].wait
               /\ row(h).lease = IF h \in FirstDue THEN LeaseTicks ELSE reading[h].lease
    <2>1. reading[h] \in ReadingRec /\ LeaseTicks \in 0..LeaseTicks
      BY <1>1, ReadingFacts
    <2>2. CASE h \in FirstDue
      <3>1. row(h) = [reading[h] EXCEPT !.lease = LeaseTicks]
        BY <2>2
      <3> HIDE DEF row
      <3> QED
        BY <2>1, <2>2, <3>1 DEF ReadingRec
    <2>3. CASE h \notin FirstDue
      <3>1. row(h) = reading[h]
        BY <2>3
      <3> HIDE DEF row
      <3> QED
        BY <2>1, <2>3, <3>1
    <2> QED
      BY <2>2, <2>3
  <1>10. \A h \in Hour : reading'[h] = row(h)
    BY <1>2
  <1>11. reading' \in [Hour -> ReadingRec]
    <2> HIDE DEF row
    <2> QED
      BY <1>2, <1>9
  <1> HIDE DEF row
  <1>12. TypeOK'
    <2>1. TypeRest'
      BY <1>1, <1>2, <1>8, <1>11 DEF TypeRest
    <2>2. Pending' = Pending /\ \A h \in Pending : reading'[h].wait = reading[h].wait
      BY <1>9, <1>10 DEF Pending
    <2>3. OrderOK'
      BY <1>1, <1>2, <2>2, OrderKeeps
    <2> QED
      BY <2>1, <2>3, TypeParts, PTL
  <1>13. TicksOK'
    BY <1>1, <1>2, <1>5, <1>6, <1>7, OneTickOK
  <1>14. \A h \in FirstDue : h \in Hour /\ reading[h].state = "pending" /\ reading[h].lease = 0
    BY DEF FirstDue, Due, Pending
  <1>15. MarkedAsUsed'
    <2>1. \A h \in Hour : /\ reading'[h].quantity = reading[h].quantity
                          /\ reading'[h].state = "none" <=> reading[h].state = "none"
                          /\ reading[h].state = "none" => reading'[h].lease = 0
      BY <1>9, <1>10, <1>14 DEF IInv, MarkedAsUsed
    <2> QED
      BY <1>1, <1>2, <2>1, UseKeeps DEF IInv, TypeRest
  <1>16. NoHourSkipped' /\ SkippedByTicks' /\ TicksFollow'
    <2>1. \A q \in Process : Aggregating(q)' => Aggregating(q) /\ loop'[q].from = loop[q].from
      BY <1>6, <1>8 DEF Aggregating
    <2> QED
      BY <1>2, <2>1, SkipsKeep DEF IInv
  <1>17. HeldOnce'
    <2>1. \A h : Has(p, h)' => h \in FirstDue
      BY <1>4, <1>6, <1>8 DEF Has
    <2>2. \A q \in Process \ {p} : \A h : Has(q, h)' <=> Has(q, h)
      BY <1>8 DEF Has
    <2>3. \A h \in FirstDue : h \notin overrun => \A q \in Process : ~Has(q, h)
      BY <1>14 DEF IInv, HeldOnce
    <2>4. ASSUME NEW h \in Hour \ overrun, NEW q \in Process, Has(q, h)'
          PROVE  reading'[h].lease > 0
      <3>1. CASE h \in FirstDue
        BY <1>1, <1>9, <1>10, <3>1
      <3>2. CASE h \notin FirstDue
        <4>1. q # p /\ Has(q, h)
          BY <2>1, <2>2, <2>4, <3>2
        <4> QED
          BY <1>9, <1>10, <3>2, <4>1 DEF IInv, HeldOnce
      <3> QED
        BY <3>1, <3>2
    <2>5. ASSUME NEW h \in Hour \ overrun, NEW q \in Process, NEW o \in Process, Has(q, h)', Has(o, h)'
          PROVE  q = o
      <3>1. CASE h \in FirstDue
        BY <2>2, <2>3, <2>5, <3>1
      <3>2. CASE h \notin FirstDue
        <4>1. q # p /\ o # p /\ Has(q, h) /\ Has(o, h)
          BY <2>1, <2>2, <2>5, <3>2
        <4> QED
          BY <4>1 DEF IInv, HeldOnce
      <3> QED
        BY <3>1, <3>2
    <2> QED
      BY <1>2, <2>4, <2>5 DEF HeldOnce
  <1> QED
    BY <1>12, <1>13, <1>15, <1>16, <1>17 DEF IInv

(* A tick is done with the first row of its batch: whatever becomes of the *)
(* row, no other tick has it while its lease lasts.                        *)
LEMMA RowDone ==
  ASSUME IInv, NEW p \in Process, NEW l \in TickRec, loop' = [loop EXCEPT ![p] = l],
         loop[p].phase \in Sending, l.phase # "aggregate", l.phase \in Sending => l.batch # <<>>,
         l.batch = Tail(loop[p].batch),
         UNCHANGED <<now, used, done, marked, billed, crashes, overrun>>,
         OrderOK', reading' \in [Hour -> ReadingRec], \A k \in Hour \ {Posted(p)} : reading'[k] = reading[k],
         reading'[Posted(p)].quantity = reading[Posted(p)].quantity,
         reading[Posted(p)].state = "none" => reading' = reading,
         reading[Posted(p)].state # "none" => reading'[Posted(p)].state # "none"
  PROVE  IInv'
  <1> DEFINE h == Posted(p)
             b == loop[p].batch
  <1>1. TypeOK /\ TypeRest /\ TicksOK
    BY TypeParts DEF IInv
  <1>2. /\ h \in Hour /\ (\E i \in DOMAIN b : b[i] = h) /\ h = Head(b)
        /\ \A i \in DOMAIN Tail(b) : Tail(b)[i] # h /\ \E j \in DOMAIN b : b[j] = Tail(b)[i]
        /\ \A i, j \in DOMAIN Tail(b) : i # j => Tail(b)[i] # Tail(b)[j]
    <2>1. h = Head(b) /\ b \in Seq(Hour) /\ b # <<>> /\ \A i, j \in DOMAIN b : i # j => b[i] # b[j]
      BY <1>1, TickFacts DEF TickOK, Posted
    <2> HIDE DEF b, h
    <2> QED
      BY <2>1, RestOf
  <1>3. loop' \in [Process -> TickRec] /\ loop'[p] = l /\ \A q \in Process \ {p} : loop'[q] = loop[q]
    BY <1>1, OneTick
  <1>4. TypeOK'
    <2>1. TypeRest'
      BY <1>1, <1>3 DEF TypeRest
    <2> QED
      BY <2>1, TypeParts, PTL
  <1>5. TicksOK'
    <2>1. TickOK(l)
      <3> HIDE DEF h
      <3> QED
        BY <1>2 DEF TickOK
    <2> QED
      BY <1>1, <2>1, OneTickOK
  <1>6. MarkedAsUsed'
    <2> HIDE DEF h, b
    <2>1. \A k \in Hour : /\ reading'[k].quantity = reading[k].quantity
                          /\ reading'[k].state = "none" <=> reading[k].state = "none"
                          /\ reading[k].state = "none" => reading'[k].lease = 0
      BY DEF IInv, MarkedAsUsed, h
    <2> QED
      BY <1>1, <2>1, UseKeeps DEF IInv, TypeRest
  <1>7. NoHourSkipped' /\ SkippedByTicks' /\ TicksFollow'
    <2>1. \A q \in Process : Aggregating(q)' => Aggregating(q) /\ loop'[q].from = loop[q].from
      BY <1>3 DEF Aggregating
    <2> QED
      BY <2>1, SkipsKeep DEF IInv
  <1>8. HeldOnce'
    <2>1. Has(p, h)
      BY <1>2 DEF Has
    <2>2. \A k : Has(p, k)' => k # h /\ Has(p, k)
      <3>1. l.batch = Tail(b)
        OBVIOUS
      <3> HIDE DEF h, b
      <3>2. ASSUME NEW k, Has(p, k)' PROVE k # h /\ \E j \in DOMAIN b : b[j] = k
        <4>1. PICK i \in DOMAIN l.batch : l.batch[i] = k
          BY <1>3, <3>2 DEF Has
        <4>2. i \in DOMAIN Tail(b) /\ Tail(b)[i] = k
          BY <3>1, <4>1
        <4> QED
          BY <1>2, <4>2
      <3> QED
        BY <3>2 DEF Has, b
    <2>3. \A q \in Process \ {p} : \A k : Has(q, k)' <=> Has(q, k)
      BY <1>3 DEF Has
    <2> HIDE DEF h, b
    <2>4. \A q \in Process : \A k \in Hour : Has(q, k)' => Has(q, k)
      BY <2>2, <2>3
    <2>5. ASSUME NEW k \in Hour \ overrun, NEW q \in Process, Has(q, k)', reading[k].lease > 0
          PROVE  reading'[k].lease > 0
      <3>1. CASE k # h
        BY <2>5, <3>1 DEF h
      <3>2. CASE k = h
        <4>1. q # p /\ Has(q, h)
          BY <2>2, <2>3, <2>5, <3>2
        <4> QED
          BY <2>1, <2>5, <3>2, <4>1 DEF IInv, HeldOnce
      <3> QED
        BY <3>1, <3>2
    <2> QED
      BY <2>4, <2>5, HeldKeeps DEF IInv
  <1> QED
    BY <1>4, <1>5, <1>6, <1>7, <1>8 DEF IInv

LEMMA PostedFacts ==
  ASSUME TypeOK, TicksOK, NEW p \in Process, loop[p].phase \in Sending
  PROVE  Posted(p) \in Hour /\ Tail(loop[p].batch) \in Seq(Hour)
  BY TickFacts, HeadTailProperties DEF TickOK, Posted

LEMMA RecordStep ==
  ASSUME IInv, NEW p \in Process, Record(p)
  PROVE  IInv'
  <1> DEFINE h == Posted(p)
             rest == Tail(loop[p].batch)
             phase == IF loop[p].answer = "retry" THEN "release" ELSE "post"
             l == IF rest = <<>> THEN NoTick ELSE [NoTick EXCEPT !.phase = phase, !.batch = rest]
  <1>1. TypeOK /\ TypeRest /\ OrderOK /\ TicksOK
    BY TypeParts DEF IInv
  <1>2. /\ loop[p].phase = "record" /\ loop' = [loop EXCEPT ![p] = l]
        /\ UNCHANGED <<now, used, done, marked, billed, crashes, overrun>>
    BY DEF Record, uses
  <1>3. h \in Hour /\ rest \in Seq(Hour) /\ loop[p].phase \in Sending
    BY <1>1, <1>2, PostedFacts DEF Sending
  <1>4. l \in TickRec /\ l.phase # "aggregate" /\ (l.phase \in Sending => l.batch # <<>>) /\ l.batch = rest
    <2>1. CASE rest = <<>>
      <3>1. l = NoTick
        BY <2>1
      <3> HIDE DEF l, rest
      <3> QED
        BY <2>1, <3>1, NoTickOK DEF Sending
    <2>2. CASE rest # <<>>
      <3>1. l = [NoTick EXCEPT !.phase = phase, !.batch = rest] /\ phase \in {"post", "release"}
        BY <2>2
      <3> HIDE DEF l, rest, phase
      <3>2. l \in TickRec /\ l.phase = phase /\ l.batch = rest
        BY <1>3, <3>1, NoTickOK DEF TickRec, Sending
      <3> QED
        BY <2>2, <3>1, <3>2
    <2> QED
      BY <2>1, <2>2
  <1> HIDE DEF l
  <1>5. CASE ~IsPending(h)
    <2>1. UNCHANGED <<reading, order>>
      BY <1>5 DEF Record
    <2>2. OrderOK'
      BY <1>1, <2>1 DEF OrderOK, Before, Pending
    <2> QED
      BY <1>1, <1>2, <1>3, <1>4, <2>1, <2>2, RowDone DEF TypeRest
  <1>6. CASE IsPending(h)
    <2>1. reading[h] \in ReadingRec /\ reading[h].state = "pending" /\ 0 \in 0..LeaseTicks /\ h \in Pending
      BY <1>1, <1>3, <1>6, ReadingFacts, BillingBounds DEF IsPending, Pending
    <2>2. ASSUME NEW state \in {"sent", "refused"}, Settled(h, state)
          PROVE  IInv'
      <3> DEFINE r == [reading[h] EXCEPT !.state = state, !.lease = 0]
      <3>1. reading' = [reading EXCEPT ![h] = r] /\ order' = {pair \in order : h \notin Range(pair)}
        BY <2>2 DEF Settled
      <3>2. r \in ReadingRec /\ r.state = state /\ r.quantity = reading[h].quantity
        BY <2>1 DEF ReadingRec
      <3> HIDE DEF r, h, rest
      <3>3. /\ reading' \in [Hour -> ReadingRec] /\ reading'[h] = r
            /\ \A k \in Hour \ {h} : reading'[k] = reading[k]
        BY <1>1, <1>3, <3>1, <3>2, OneReading
      <3>4. Pending' = Pending \ {h} /\ \A k \in Pending \ {h} : reading'[k].wait = reading[k].wait
        BY <3>2, <3>3 DEF Pending
      <3>5. OrderOK'
        BY <1>1, <1>3, <3>1, <3>4, OrderDrops
      <3>6. reading'[h].quantity = reading[h].quantity /\ reading'[h].state # "none" /\ reading[h].state # "none"
        BY <2>1, <3>2, <3>3
      <3> USE DEF h, rest
      <3> QED
        BY <1>2, <1>3, <1>4, <3>3, <3>5, <3>6, RowDone
    <2>3. ASSUME Retried(h)
          PROVE  IInv'
      <3>1. PICK wait \in Backoff : /\ reading' = [reading EXCEPT ![h].wait = wait, ![h].lease = 0]
                                    /\ order' = Placed(h, wait)
        BY <2>3 DEF Retried
      <3> DEFINE r == [reading[h] EXCEPT !.wait = wait, !.lease = 0]
      <3>2. reading' = [reading EXCEPT ![h] = r] /\ wait \in Nat
        BY <1>1, <1>3, <3>1, BillingShape DEF TypeRest
      <3>3. r \in ReadingRec /\ r.state = "pending" /\ r.quantity = reading[h].quantity /\ r.wait = wait
        BY <2>1, <3>2 DEF ReadingRec
      <3>4. \A g \in Pending : reading[g].wait \in Nat
        BY <1>1, ReadingFacts DEF Pending
      <3> HIDE DEF r, h, rest
      <3>5. /\ reading' \in [Hour -> ReadingRec] /\ reading'[h] = r
            /\ \A k \in Hour \ {h} : reading'[k] = reading[k]
        BY <1>1, <1>3, <3>2, <3>3, OneReading
      <3>6. Pending' = Pending \union {h} /\ \A k \in Pending \ {h} : reading'[k].wait = reading[k].wait
        BY <2>1, <3>3, <3>5 DEF Pending
      <3>7. OrderOK'
        BY <1>1, <1>3, <3>1, <3>2, <3>3, <3>4, <3>5, <3>6, OrderPlaces
      <3>8. reading'[h].quantity = reading[h].quantity /\ reading'[h].state # "none" /\ reading[h].state # "none"
        BY <2>1, <3>3, <3>5
      <3> USE DEF h, rest
      <3> QED
        BY <1>2, <1>3, <1>4, <3>5, <3>7, <3>8, RowDone
    <2>4. Settled(h, "sent") \/ Settled(h, "refused") \/ Retried(h)
      BY <1>6 DEF Record
    <2> QED
      BY <2>2, <2>3, <2>4
  <1> QED
    BY <1>5, <1>6

LEMMA ReleaseStep ==
  ASSUME IInv, NEW p \in Process, Release(p)
  PROVE  IInv'
  <1> DEFINE h == Posted(p)
             rest == Tail(loop[p].batch)
             l == IF rest = <<>> THEN NoTick ELSE [loop[p] EXCEPT !.batch = rest]
             r == [reading[h] EXCEPT !.lease = 0]
  <1>1. TypeOK /\ TypeRest /\ OrderOK /\ TicksOK
    BY TypeParts DEF IInv
  <1>2. /\ loop[p].phase = "release" /\ loop' = [loop EXCEPT ![p] = l]
        /\ reading' = IF IsPending(h) THEN [reading EXCEPT ![h] = r] ELSE reading
        /\ UNCHANGED <<now, used, done, marked, order, billed, crashes, overrun>>
    BY DEF Release, uses
  <1>3. h \in Hour /\ rest \in Seq(Hour) /\ loop[p].phase \in Sending
    BY <1>1, <1>2, PostedFacts DEF Sending
  <1>4. l \in TickRec /\ l.phase # "aggregate" /\ (l.phase \in Sending => l.batch # <<>>) /\ l.batch = rest
    <2>1. CASE rest = <<>>
      <3>1. l = NoTick
        BY <2>1
      <3> HIDE DEF l, rest
      <3> QED
        BY <2>1, <3>1, NoTickOK DEF Sending
    <2>2. CASE rest # <<>>
      <3>1. l = [loop[p] EXCEPT !.batch = rest] /\ loop[p] \in TickRec
        BY <1>1, <2>2, TickFacts
      <3> HIDE DEF l, rest
      <3>2. l \in TickRec /\ l.phase = "release" /\ l.batch = rest
        BY <1>2, <1>3, <3>1 DEF TickRec
      <3> QED
        BY <2>2, <3>2
    <2> QED
      BY <2>1, <2>2
  <1>5. r \in ReadingRec /\ r.state = reading[h].state /\ r.quantity = reading[h].quantity /\ r.wait = reading[h].wait
    <2>1. reading[h] \in ReadingRec /\ 0 \in 0..LeaseTicks
      BY <1>1, <1>3, ReadingFacts, BillingBounds
    <2> QED
      BY <2>1 DEF ReadingRec
  <1> HIDE DEF l, r
  <1>6. /\ reading' \in [Hour -> ReadingRec] /\ (\A k \in Hour \ {h} : reading'[k] = reading[k])
        /\ reading'[h].state = reading[h].state /\ reading'[h].quantity = reading[h].quantity
        /\ reading'[h].wait = reading[h].wait
        /\ ~IsPending(h) => reading' = reading
    <2>1. CASE IsPending(h)
      <3>1. reading' = [reading EXCEPT ![h] = r]
        BY <1>2, <2>1
      <3> HIDE DEF h
      <3> QED
        BY <1>1, <1>3, <1>5, <2>1, <3>1, OneReading
    <2>2. CASE ~IsPending(h)
      BY <1>1, <1>2, <2>2 DEF TypeRest
    <2> QED
      BY <2>1, <2>2
  <1>7. OrderOK'
    <2> HIDE DEF h
    <2>1. Pending' = Pending /\ \A k \in Pending : reading'[k].wait = reading[k].wait
      BY <1>6 DEF Pending
    <2> QED
      BY <1>1, <1>2, <2>1, OrderKeeps
  <1>8. reading[h].state = "none" => reading' = reading
    BY <1>6 DEF IsPending
  <1> HIDE DEF rest
  <1> QED
    BY <1>2, <1>3, <1>4, <1>6, <1>7, <1>8, RowDone DEF rest

-----------------------------------------------------------------------------
LEMMA InitHolds == Init => IInv
  <1> SUFFICES ASSUME Init PROVE IInv
    OBVIOUS
  <1>1. NoReading \in ReadingRec /\ NoReading.state = "none" /\ NoReading.quantity = 0 /\ NoReading.lease = 0
    BY BillingBounds DEF NoReading, ReadingRec
  <1>2. reading = [h \in Hour |-> NoReading] /\ loop = [p \in Process |-> NoTick] /\ marked = {} /\ order = {}
    BY DEF Init
  <1>3. \A h \in Hour : reading[h] = NoReading
    BY <1>2
  <1>4. \A p \in Process : loop[p] = NoTick
    BY <1>2
  <1>5. reading \in [Hour -> ReadingRec] /\ loop \in [Process -> TickRec]
    BY <1>1, <1>2, NoTickOK
  <1>12. used \in [Hour -> 0..MaxUse] /\ done = used /\ now = 1
    BY BillingBounds DEF Init
  <1>6. TypeOK
    <2>1. TypeRest
      BY <1>2, <1>5, <1>12, BillingBounds DEF Init, TypeRest, Hour
    <2>2. Pending = {}
      BY <1>1, <1>3 DEF Pending
    <2> QED
      BY <1>2, <2>1, <2>2, TypeParts DEF OrderOK
  <1>7. TicksOK
    BY <1>4, NoTickOK DEF TicksOK
  <1>8. MarkedAsUsed
    <2>1. \A h \in Hour : used[h] <= done[h]
      BY <1>12, BillingBounds
    <2> QED
      BY <1>1, <1>2, <1>3, <1>12, <2>1 DEF MarkedAsUsed
  <1>9. NoHourSkipped
    BY <1>2 DEF NoHourSkipped
  <1>10. SkippedByTicks /\ TicksFollow
    BY <1>4, NoTickOK DEF SkippedByTicks, TicksFollow, Aggregating
  <1>11. HeldOnce
    <2>1. \A p \in Process : \A h : ~Has(p, h)
      BY <1>4, NoTickOK DEF Has
    <2> QED
      BY <2>1 DEF HeldOnce
  <1> QED
    BY <1>6, <1>7, <1>8, <1>9, <1>10, <1>11 DEF IInv

LEMMA StepHolds == IInv /\ [Next]_vars => IInv'
  <1> SUFFICES ASSUME IInv, [Next]_vars PROVE IInv'
    OBVIOUS
  <1>1. CASE Use
    BY <1>1, UseStep
  <1>7. ASSUME NEW h \in Hour, Requeue(h) PROVE IInv'
    BY <1>7, RequeueStep
  <1>2. CASE HourPasses
    BY <1>2, HourStep
  <1>3. CASE Clock
    BY <1>3, ClockStep
  <1>4. ASSUME NEW p \in Process, LoopStep(p) PROVE IInv'
    BY <1>4, StartStep, AggregateStep, AggregatedStep, ClaimStep, AnswerStep, RecordStep, ReleaseStep DEF LoopStep
  <1>5. ASSUME NEW p \in Process, Crash(p) PROVE IInv'
    BY <1>5, CrashStep
  <1>6. CASE UNCHANGED vars
    <2>1. TypeOK'
      BY <1>6 DEF vars, uses, IInv, TypeOK, Before, Pending
    <2>2. TicksOK' /\ MarkedAsUsed' /\ NoHourSkipped' /\ SkippedByTicks' /\ TicksFollow' /\ HeldOnce'
      BY <1>6 DEF vars, uses, IInv, TicksOK, TickOK, MarkedAsUsed, NoHourSkipped, SkippedByTicks, TicksFollow, HeldOnce,
                  Has, Aggregating, Old, NewestClosed
    <2> QED
      BY <2>1, <2>2 DEF IInv
  <1> QED
    BY <1>1, <1>2, <1>3, <1>4, <1>5, <1>6, <1>7 DEF Next

LEMMA Invariance == Spec => []IInv
  BY InitHolds, StepHolds, PTL DEF Spec

(* Every hour that was aggregated is billed for no more than was done in   *)
(* it and for all that its rows still have, whatever is replayed before or *)
(* after, and none between two is left out unless it is beyond the         *)
(* catch-up, however the ticks of processes interleave and end early       *)
(* (aggregate, aggregateClosed).  Only an hour whose reading does not      *)
(* match its schema has none.                                              *)
THEOREM UseIsBilled == Spec => []EveryUseBilled
  <1>1. IInv => EveryUseBilled
    BY DEF IInv, EveryUseBilled, MarkedAsUsed, BilledAsUsed
  <1> QED
    BY <1>1, Invariance, PTL

(* While its lease lasts, a reading is in the batch of one process only.   *)
LEMMA PostsApart == Spec => []NeverTwoPosts
  <1>1. IInv => NeverTwoPosts
    <2> SUFFICES ASSUME IInv, NEW h \in Hour \ overrun, NEW p \in Process, NEW q \in Process, p # q,
                        \A l \in {p, q} : loop[l].phase = "post" /\ Posted(l) = h
                 PROVE  FALSE
      BY DEF NeverTwoPosts, TwoPosts
    <2>1. ASSUME NEW l \in {p, q} PROVE Has(l, h)
      <3>1. loop[l].batch \in Seq(Hour) /\ loop[l].batch # <<>> /\ h = Head(loop[l].batch)
        BY <2>1, TickFacts DEF IInv, TickOK, Sending, Posted
      <3>2. Len(loop[l].batch) \in Nat /\ Len(loop[l].batch) > 0 /\ h = loop[l].batch[1] /\ 1 \in DOMAIN loop[l].batch
        BY <3>1, EmptySeq, LenProperties
      <3> QED
        BY <3>2 DEF Has
    <2> QED
      BY <2>1 DEF IInv, HeldOnce
  <1> QED
    BY <1>1, Invariance, PTL

(* What was answered for good stays that (q.sent, q.refused, q.retry and   *)
(* q.release are for pending rows).                                        *)
LEMMA AnswersStay == Spec => SettledStays
  <1> DEFINE Stays == \A h \in Hour : reading[h].state \in {"sent", "refused"} => reading'[h].state = reading[h].state
  <1>1. IInv /\ [Next]_vars => [Stays]_vars
    <2> SUFFICES ASSUME IInv, Next PROVE Stays
      OBVIOUS
    <2>1. TypeOK /\ TicksOK /\ reading \in [Hour -> ReadingRec]
      BY TypeParts DEF IInv, TypeRest
    <2> SUFFICES ASSUME NEW h \in Hour, reading[h].state \in {"sent", "refused"} PROVE reading'[h].state = reading[h].state
      OBVIOUS
    <2>2. reading[h] \in ReadingRec
      BY <2>1
    <2>3. CASE Use \/ HourPasses \/ \E g \in Hour : Requeue(g)
      BY <2>3 DEF Use, HourPasses, Requeue
    <2>4. CASE Clock
      <3>1. reading'[h] = [reading[h] EXCEPT !.wait = Less(@), !.lease = Less(@)]
        BY <2>4 DEF Clock
      <3> QED
        BY <2>2, <3>1 DEF ReadingRec
    <2>5. ASSUME NEW p \in Process, Start(p) \/ Aggregated(p) \/ (\E answer \in {"ok", "final", "retry"} : Answer(p, answer)) \/ Crash(p)
          PROVE  reading'[h].state = reading[h].state
      BY <2>5 DEF Start, Aggregated, Answer, Crash
    <2>6. ASSUME NEW p \in Process, Aggregate(p)
          PROVE  reading'[h].state = reading[h].state
      BY <2>1, <2>6 DEF Aggregate, New
    <2>7. ASSUME NEW p \in Process, Claim(p)
          PROVE  reading'[h].state = reading[h].state
      <3>1. reading'[h] = IF h \in FirstDue THEN [reading[h] EXCEPT !.lease = LeaseTicks] ELSE reading[h]
        BY <2>7 DEF Claim
      <3> QED
        BY <2>2, <3>1 DEF ReadingRec
    <2>8. ASSUME NEW p \in Process, Record(p)
          PROVE  reading'[h].state = reading[h].state
      <3>1. CASE ~IsPending(Posted(p))
        BY <2>8, <3>1 DEF Record
      <3>2. CASE IsPending(Posted(p))
        <4>1. Posted(p) # h
          BY <3>2 DEF IsPending
        <4>2. Settled(Posted(p), "sent") \/ Settled(Posted(p), "refused") \/ Retried(Posted(p))
          BY <2>8, <3>2 DEF Record
        <4> QED
          BY <2>1, <4>1, <4>2 DEF Settled, Retried
      <3> QED
        BY <3>1, <3>2
    <2>9. ASSUME NEW p \in Process, Release(p)
          PROVE  reading'[h].state = reading[h].state
      BY <2>1, <2>9 DEF Release, IsPending
    <2> QED
      BY <2>3, <2>4, <2>5, <2>6, <2>7, <2>8, <2>9 DEF Next, LoopStep
  <1> QED
    BY <1>1, Invariance, PTL DEF Spec, SettledStays

(* No reading is posted by two processes at once while its lease lasts,    *)
(* and none that was answered for good changes again (send).               *)
THEOREM OneAnswer == Spec => OneAnswerCounts
  BY PostsApart, AnswersStay, PTL DEF OneAnswerCounts
=============================================================================
