--------------------------- MODULE BillingReadings ---------------------------
(***************************************************************************)
(* Billing readings (server/billing.js): each closed hour's queue          *)
(* operations of one project become one reading, and the loop of every     *)
(* process posts the pending ones to Billing, a leased batch at a time.    *)
(*                                                                         *)
(* The code compares times with the clock only, so next_attempt_at and     *)
(* lease_until are the ticks still to go, and `order` has the pairs of     *)
(* pending readings of which ORDER BY next_attempt_at puts the first       *)
(* before the second.  How long a backoff is is left open; Billing itself  *)
(* takes a reading's key once.                                             *)
(***************************************************************************)
EXTENDS Integers, Sequences, FiniteSets, FiniteSetsExt, Functions

CONSTANTS
    MaxHour,        \* bound: the hours are 0..MaxHour
    MaxUse,         \* bound: operations of an hour
    Process,        \* processes with a billing loop
    Catchup,        \* MAX_CATCHUP_HOURS
    Batch,          \* readings of one claim
    LeaseTicks,     \* LEASE_MS
    PostTicks,      \* config.timeoutMs: what one post takes at most
    Backoff,        \* the backoffs there are
    Invalid,        \* hours whose reading does not match platform.usage-sample@1
    Stuck,          \* hours whose reading Billing never takes and never refuses
    MaxRequeued,    \* bound: hours of which something is replayed
    MaxCrashes      \* bound: how often a process goes away

Hour == 0..MaxHour

ASSUME BillingBounds ==
    /\ MaxHour \in Nat \ {0} /\ MaxUse \in Nat /\ MaxRequeued \in Nat /\ MaxCrashes \in Nat
    /\ Catchup \in Nat \ {0} /\ Batch \in Nat \ {0}
    /\ LeaseTicks \in Nat \ {0} /\ PostTicks \in Nat \ {0}
ASSUME BillingShape == Backoff \subseteq Nat \ {0} /\ Backoff # {} /\ Invalid \subseteq Hour /\ Stuck \subseteq Hour

VARIABLES
    now,        \* the open hour
    used,       \* the operations of each hour, as the rows of events and deliveries have them
    done,       \* history: the operations of each hour, as they were done
    marked,     \* billing_periods: the hours that were aggregated
    reading,    \* billing_readings
    order,      \* of two pending readings, which is earlier by next_attempt_at
    loop,       \* each process's tick
    billed,     \* the readings Billing has taken
    crashes,    \* how often a process went away
    overrun     \* history: hours whose lease ended before the batch they were leased in

uses == <<used, done>>
vars == <<now, uses, marked, reading, order, loop, billed, crashes, overrun>>

NoReading == [state |-> "none", quantity |-> 0, wait |-> 0, lease |-> 0]
NoTick == [phase |-> "idle", from |-> 0, to |-> 0, batch |-> <<>>, spent |-> 0, answer |-> "none"]

Pending == {h \in Hour : reading[h].state = "pending"}
Before(g, h) == <<g, h>> \in order

TypeOK ==
    /\ now \in Hour /\ marked \subseteq Hour
    /\ used \in [Hour -> 0..MaxUse] /\ done \in [Hour -> 0..MaxUse]
    /\ reading \in [Hour -> [state : {"none", "pending", "sent", "refused"}, quantity : 0..MaxUse,
                             wait : Nat, lease : 0..LeaseTicks]]
    /\ order \subseteq Pending \X Pending
    /\ \A g, h \in Pending : /\ Before(g, h) <=> g # h /\ ~Before(h, g)
                             /\ Before(g, h) => reading[g].wait <= reading[h].wait
    /\ loop \in [Process -> [phase : {"idle", "aggregate", "claim", "post", "record", "release"}, from : 0..(MaxHour + 1),
                             to : Hour, batch : Seq(Hour), spent : 0..PostTicks,
                             answer : {"none", "ok", "final", "retry"}]]
    /\ billed \subseteq Hour
    /\ crashes \in 0..MaxCrashes
    /\ overrun \subseteq Hour

Init ==
    /\ now = 1
    /\ used = [h \in Hour |-> IF h < now THEN MaxUse ELSE 0]
    /\ done = used
    /\ marked = {}
    /\ reading = [h \in Hour |-> NoReading]
    /\ order = {}
    /\ loop = [p \in Process |-> NoTick]
    /\ billed = {}
    /\ crashes = 0
    /\ overrun = {}

(* An operation of the open hour: a publish, or a delivery that is done.   *)
Use ==
    /\ now < MaxHour           \* the last hour does not close
    /\ done[now] < MaxUse
    /\ used' = [used EXCEPT ![now] = @ + 1]
    /\ done' = [done EXCEPT ![now] = @ + 1]
    /\ UNCHANGED <<now, marked, reading, order, loop, billed, crashes, overrun>>

(* An operation that its row has no more: a replay makes the delivery      *)
(* pending again (Store.requeue), a redaction shrinks the event.           *)
Requeued == {h \in Hour : used[h] < done[h]}
Requeue(h) ==
    /\ used[h] > 0
    /\ Cardinality(Requeued \union {h}) <= MaxRequeued
    /\ used' = [used EXCEPT ![h] = @ - 1]
    /\ UNCHANGED <<now, done, marked, reading, order, loop, billed, crashes, overrun>>

(* The very first aggregation takes less than an hour.                     *)
FirstRun == marked = {} /\ \E p \in Process : loop[p].phase = "aggregate"
HourPasses ==
    /\ now < MaxHour
    /\ ~FirstRun
    /\ now' = now + 1
    /\ UNCHANGED <<uses, marked, reading, order, loop, billed, crashes, overrun>>

-----------------------------------------------------------------------------
(* tick, first half: aggregateClosed.                                      *)
Step(p, phase) == loop' = [loop EXCEPT ![p].phase = phase]
OpenHour == now             \* mutated: the hour is aggregated before it has closed
NewestClosed == now - 1

FromNewest == NewestClosed  \* mutated: hours missed while nothing ran are not caught up
From == IF marked = {} THEN NewestClosed
        ELSE Max({Max(marked) + 1, NewestClosed - (Catchup - 1)})

Start(p) ==
    /\ loop[p].phase = "idle"
    /\ loop' = [loop EXCEPT ![p] = [NoTick EXCEPT !.phase = "aggregate", !.from = From, !.to = NewestClosed]]
    /\ UNCHANGED <<now, uses, marked, reading, order, billed, crashes, overrun>>

(* The order when a row's next_attempt_at becomes `wait` ticks from now:   *)
(* behind all that are due no later.                                       *)
Placed(h, wait) ==
    {pair \in order : h \notin Range(pair)}
        \union {<<g, h>> : g \in {g \in Pending \ {h} : reading[g].wait <= wait}}
        \union {<<h, g>> : g \in {g \in Pending \ {h} : reading[g].wait > wait}}

(* aggregate: one transaction per hour, of what the rows have now.  What   *)
(* is there already stays; a reading that does not match its schema is not *)
(* stored, and the hour is marked all the same.                            *)
New(h) == used[h] > 0 /\ h \notin Invalid /\ reading[h].state = "none"
Aggregate(p) ==
    LET h == loop[p].from
    IN  /\ loop[p].phase = "aggregate"
        /\ h <= loop[p].to
        /\ marked' = marked \union {h}
        /\ reading' = IF New(h) THEN [reading EXCEPT ![h] = [NoReading EXCEPT !.state = "pending", !.quantity = used[h]]]
                      ELSE reading
        /\ order' = IF New(h) THEN Placed(h, 0) ELSE order
        /\ loop' = [loop EXCEPT ![p].from = @ + 1]
        /\ UNCHANGED <<now, uses, billed, crashes, overrun>>

Aggregated(p) ==
    /\ loop[p].phase = "aggregate"
    /\ loop[p].from > loop[p].to
    /\ Step(p, "claim")
    /\ UNCHANGED <<now, uses, marked, reading, order, billed, crashes, overrun>>

-----------------------------------------------------------------------------
(* tick, second half: send.  Due and unleased readings are leased together *)
(* and posted one after the other.                                         *)
Due == {h \in Pending : reading[h].wait = 0 /\ reading[h].lease = 0}
FirstDue == {h \in Due : Cardinality({g \in Due : Before(g, h)}) < Batch}
BatchesByHour == {b \in [1..Cardinality(FirstDue) -> FirstDue] : \A i, j \in DOMAIN b : i < j => b[i] < b[j]}   \* mutated: not by next_attempt_at
Batches == {b \in [1..Cardinality(FirstDue) -> FirstDue] : \A i, j \in DOMAIN b : i < j => Before(b[i], b[j])}

Batched(p, b) == [loop EXCEPT ![p] = IF b = <<>> THEN NoTick ELSE [NoTick EXCEPT !.phase = "post", !.batch = b]]
ClaimUnleased(p) ==     \* mutated: the batch is read, not leased
    /\ loop[p].phase = "claim"
    /\ \E b \in Batches : loop' = Batched(p, b)
    /\ UNCHANGED <<now, uses, marked, reading, order, billed, crashes, overrun>>
Claim(p) ==
    /\ loop[p].phase = "claim"
    /\ reading' = [h \in Hour |-> IF h \in FirstDue THEN [reading[h] EXCEPT !.lease = LeaseTicks] ELSE reading[h]]
    /\ \E b \in Batches : loop' = Batched(p, b)
    /\ UNCHANGED <<now, uses, marked, order, billed, crashes, overrun>>

Posted(p) == Head(loop[p].batch)

(* Billing answers, or does not: what it took may still look like a        *)
(* failure here.                                                           *)
Answers(h) == IF h \in Stuck THEN {"retry"} ELSE {"ok", "final", "retry"}
Answer(p, answer) ==
    /\ loop[p].phase = "post"
    /\ answer \in Answers(Posted(p))
    /\ loop' = [loop EXCEPT ![p].phase = "record", ![p].answer = answer, ![p].spent = 0]
    /\ \/ answer # "final" /\ Posted(p) \notin Stuck /\ billed' = billed \union {Posted(p)}
       \/ answer # "ok" /\ UNCHANGED billed
    /\ UNCHANGED <<now, uses, marked, reading, order, crashes, overrun>>

(* What `sent`, `refused` and `retry` do, each only to a pending row.      *)
IsStored(h) == reading[h].state # "none"    \* mutated: whatever became of the row since
IsPending(h) == reading[h].state = "pending"
Settled(h, state) ==
    /\ reading' = [reading EXCEPT ![h].state = state, ![h].lease = 0]
    /\ order' = {pair \in order : h \notin Range(pair)}
Retried(h) == \E wait \in Backoff :
    /\ reading' = [reading EXCEPT ![h].wait = wait, ![h].lease = 0]
    /\ order' = Placed(h, wait)

Record(p) ==
    LET h == Posted(p)
        answer == loop[p].answer
        rest == Tail(loop[p].batch)
    IN  /\ loop[p].phase = "record"
        /\ IF ~IsPending(h) THEN UNCHANGED <<reading, order>>
           ELSE CASE answer = "ok" -> Settled(h, "sent")
                  [] answer = "final" -> Settled(h, "refused")
                  [] OTHER -> Retried(h)
        /\ loop' = [loop EXCEPT ![p] = IF rest = <<>> THEN NoTick
                       ELSE [NoTick EXCEPT !.phase = IF answer = "retry" THEN "release" ELSE "post", !.batch = rest]]
        /\ UNCHANGED <<now, uses, marked, billed, crashes, overrun>>

(* After a failure the rest of the batch is given back, row by row.        *)
Release(p) ==
    LET h == Posted(p)
        rest == Tail(loop[p].batch)
    IN  /\ loop[p].phase = "release"
        /\ reading' = IF IsPending(h) THEN [reading EXCEPT ![h].lease = 0] ELSE reading
        /\ loop' = [loop EXCEPT ![p] = IF rest = <<>> THEN NoTick ELSE [@ EXCEPT !.batch = rest]]
        /\ UNCHANGED <<now, uses, marked, order, billed, crashes, overrun>>

Crash(p) ==
    /\ loop[p].phase # "idle"
    /\ crashes < MaxCrashes
    /\ crashes' = crashes + 1
    /\ loop' = [loop EXCEPT ![p] = NoTick]
    /\ UNCHANGED <<now, uses, marked, reading, order, billed, overrun>>

(* Time passes; a post ends within its timeout, and the statements around  *)
(* it take no time to speak of.                                            *)
Less(n) == IF n > 0 THEN n - 1 ELSE 0
Outrun == {h \in Hour : reading[h].lease = 1 /\ \E p \in Process : h \in Range(loop[p].batch)}
Clock ==
    /\ \E h \in Hour : reading[h].wait > 0 \/ reading[h].lease > 0
    /\ \A p \in Process : loop[p].phase \notin {"record", "release"} /\ loop[p].spent < PostTicks
    /\ reading' = [h \in Hour |-> [reading[h] EXCEPT !.wait = Less(@), !.lease = Less(@)]]
    /\ loop' = [p \in Process |-> IF loop[p].phase = "post" THEN [loop[p] EXCEPT !.spent = @ + 1] ELSE loop[p]]
    /\ overrun' = overrun \union Outrun
    /\ UNCHANGED <<now, uses, marked, order, billed, crashes>>

-----------------------------------------------------------------------------
LoopStep(p) ==
    \/ Start(p) \/ Aggregate(p) \/ Aggregated(p) \/ Claim(p)
    \/ \E answer \in {"ok", "final", "retry"} : Answer(p, answer)
    \/ Record(p) \/ Release(p)

Next ==
    \/ Use \/ HourPasses \/ Clock
    \/ \E h \in Hour : Requeue(h)
    \/ \E p \in Process : LoopStep(p) \/ Crash(p)

Spec == Init /\ [][Next]_vars

(* The interval keeps firing, posts and statements end, time passes; and a *)
(* reading that Billing can take does not fail each time.                  *)
Fairness ==
    /\ WF_vars(Clock)
    /\ \A p \in Process : WF_vars(LoopStep(p))
    /\ \A h \in Hour \ Stuck :
           SF_vars(\E p \in Process : loop[p].batch # <<>> /\ Posted(p) = h /\ Answer(p, "ok"))

FairSpec == Spec /\ Fairness

-----------------------------------------------------------------------------
(* An hour that was aggregated has a reading of no more than what was done *)
(* in it, and of all that its rows still have: it was closed, and no       *)
(* process adds to a reading or replaces it.  An operation that was        *)
(* replayed is missing only if that was before its hour was aggregated.    *)
BilledAsUsed == \A h \in marked \ Invalid :
    used[h] <= reading[h].quantity /\ reading[h].quantity <= done[h]

(* aggregateClosed: no hour between two that were aggregated is left out,  *)
(* however processes race and restart, unless it was beyond the catch-up.  *)
NoHourSkipped == \A h \in Hour \ marked :
    (\E f, g \in marked : f < h /\ h < g) => NewestClosed - h >= Catchup

(* aggregateClosed bills every hour up to the last, for what was done in   *)
(* it, in readings that are well formed.                                   *)
EveryUseBilled == TypeOK /\ BilledAsUsed /\ NoHourSkipped

(* A reading that was sent or refused stays that: a late answer of another *)
(* process does not send it again or take it back.                         *)
SettledStays == [][\A h \in Hour :
    reading[h].state \in {"sent", "refused"} => reading'[h].state = reading[h].state]_vars

(* billing.js: the lease, "so two processes never post one row at once":   *)
(* not while it lasts.                                                     *)
TwoPosts(h) == \E p, q \in Process : p # q /\ \A l \in {p, q} : loop[l].phase = "post" /\ Posted(l) = h
NeverTwoPosts == \A h \in Hour \ overrun : ~TwoPosts(h)

(* One answer of Billing counts per reading: no two posts are under way    *)
(* while the lease lasts, and what was answered once is not undone.        *)
OneAnswerCounts == []NeverTwoPosts /\ SettledStays

(* Every reading is sent or refused in the end; one that Billing neither   *)
(* takes nor refuses does not hold back the others.                        *)
EveryReadingSettles == \A h \in Hour \ Stuck :
    reading[h].state = "pending" ~> reading[h].state # "pending"
=============================================================================
