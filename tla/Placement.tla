----------------------------- MODULE Placement -----------------------------
(***************************************************************************)
(* How a delivery gets its ordering key and its carrier: the delivery      *)
(* policies and the cache each process has of them (fabric/policy.js,      *)
(* api/policies.js), the planner and its decisions (fabric/planner.js),    *)
(* and the two transactions that place deliveries, a publish and a replay  *)
(* (insertBatch and requeue of store.js), with the pin of a key to the     *)
(* carrier of its backlog.  The planner asks the carrier of Carrier        *)
(* whether it is healthy, and a publish that commits signals it.           *)
(*                                                                         *)
(* One event type, whose events have the same subject, and one             *)
(* subscription.  Publishes follow one another from the position they take *)
(* (nextSeq locks the counter) to their commit; a replay does not wait.    *)
(* What plan() of the SDK selects among the eligible offers is external.   *)
(***************************************************************************)
EXTENDS Carrier

CONSTANTS
    Patterns,   \* how many patterns match the type; a larger one is more specific
    ValueAt,    \* the value at each path a policy may name as its key, or Missing
    Subject,    \* the subject form of the events
    Missing,
    NoKey, NoPolicy,
    Reload      \* reloadMs, in ticks

ASSUME PlacementBounds == Patterns \in Nat \ {0} /\ Reload \in Nat \ {0} /\ Subject # NoKey

VARIABLES
    now,
    table,      \* delivery_policies: the policy of each pattern
    cache,      \* per process: the table as loaded, and when
    loads,      \* selects that were answered and not put in a cache yet
    writing,    \* per process: the write that committed and did not drop the cache yet
    decided,    \* per process: the decision the planner has for a class and key, with where it
                \* was taken and whether it was committed, which the program does not keep
    tx,         \* the publish and the replay in progress
    rows,       \* deliveries, in the order of their positions
    placements, \* delivery_placements
    \* what the properties tell of, and the program does not keep:
    past,       \* every policy that was in force, and since when
    own,        \* per process: the latest policy a write of it answered
    places      \* how many decisions were taken

placementVars == <<now, table, cache, loads, writing, decided, tx, rows, placements, past, own, places>>
vars == <<plan, carrierVars, placementVars>>

Default == [realtime |-> FALSE, durable |-> TRUE, ordering |-> NoKey]
Policy == [realtime : BOOLEAN, durable : BOOLEAN, ordering : DOMAIN ValueAt \union {NoKey}]
Table == [1..Patterns -> Policy \union {NoPolicy}]

(* What a behaviour may do: the initial policies, who reads, writes (what), *)
(* publishes and replays, in this order, and how often the rest happens.   *)
Plan == [link : BOOLEAN, table : Table, reads : Seq(Process), publish : Seq(Process), replay : Seq(Process),
         writes : Seq(Process \X (1..Patterns) \X (Policy \union {NoPolicy})),
         fails : Nat, rollbacks : Nat, evictions : Nat, timers : Nat, settles : Nat, outcomes : Nat, ticks : Nat]
ASSUME PlansShape == Plans \subseteq Plan

NoRows == [i \in 1..Patterns |-> NoPolicy]

(* carrierClass, orderingKey and bestMatch.                                *)
CarrierClass(policy) ==
    IF policy.durable /\ policy.ordering # NoKey THEN "STREAM" ELSE IF policy.realtime THEN "TOPIC" ELSE "QUEUE"

OrderingKey(policy) ==
    CASE policy.ordering = NoKey -> NoKey
      [] policy.ordering # NoKey /\ ValueAt[policy.ordering] = Missing -> Subject
      [] OTHER -> ValueAt[policy.ordering]

BestMatch(t) ==
    LET some == {i \in DOMAIN t : t[i] # NoPolicy}
    IN  IF some = {} THEN Default ELSE t[CHOOSE i \in some : \A j \in some : j <= i]

NoCache == [at |-> Closed]
NoTx == [stage |-> "none"]
Who == {"publish", "replay"}
Slot == {"QUEUE", "STREAM", "TOPIC"} \X ({ValueAt[path] : path \in DOMAIN ValueAt} \union {Subject, NoKey})
Undecided == [carrier |-> "none", stored |-> FALSE, place |-> 0]

Init ==
    /\ plan \in Plans /\ CarrierInit
    /\ now = 0 /\ table = plan.table
    /\ cache = [p \in Process |-> NoCache] /\ loads = {} /\ writing = [p \in Process |-> 0]
    /\ decided = [p \in Process |-> [s \in Slot |-> Undecided]]
    /\ tx = [w \in Who |-> NoTx] /\ rows = <<>> /\ placements = {}
    /\ past = <<[at |-> 0, policy |-> BestMatch(plan.table)]>> /\ own = [p \in Process |-> 1] /\ places = 0

Spend(what) == plan[what] > 0 /\ plan' = [plan EXCEPT ![what] = @ - 1]
Follow(what, next) == plan[what] # <<>> /\ next = Head(plan[what]) /\ plan' = [plan EXCEPT ![what] = Tail(@)]

-----------------------------------------------------------------------------
(* all: the cache, unless it was dropped or is too old; else the table,    *)
(* put in the cache when the answer comes, whatever was written meanwhile. *)
(* A select that fails is an empty table.                                  *)
\* mutated: one tick too long
FreshOneLonger(p) == cache[p] # NoCache /\ now - cache[p].at <= Reload
Fresh(p) == cache[p] # NoCache /\ now - cache[p].at < Reload

Loading(p, who) == \E l \in loads : l.by = p /\ l.who = who
Resolving(p, who) == who \in Who /\ tx[who].stage = "resolve" /\ tx[who].by = p

Select(p, who) ==
    /\ ~Loading(p, who)
    /\ \/ who \in Who /\ Resolving(p, who) /\ ~Fresh(p) /\ UNCHANGED plan
       \/ who = "read" /\ ~Fresh(p) /\ Follow("reads", p)
    /\ loads' = loads \union {[by |-> p, who |-> who, rows |-> table, ok |-> TRUE, of |-> Len(past), passed |-> FALSE]}
    /\ UNCHANGED <<carrierVars, now, table, cache, writing, decided, tx, rows, placements, past, own, places>>

SelectFails(p, who) ==
    /\ ~Loading(p, who) /\ ~Fresh(p) /\ (Resolving(p, who) \/ who = "read") /\ Spend("fails")
    /\ loads' = loads \union {[by |-> p, who |-> who, rows |-> NoRows, ok |-> FALSE, of |-> Len(past), passed |-> FALSE]}
    /\ UNCHANGED <<carrierVars, now, table, cache, writing, decided, tx, rows, placements, past, own, places>>

Loaded(l) == [rows |-> l.rows, at |-> now, ok |-> l.ok, of |-> l.of, passed |-> l.passed]

(* put and remove: the row, then the cache of this process.                *)
Write(p, i, policy) ==
    /\ writing[p] = 0 /\ Follow("writes", <<p, i, policy>>)
    /\ table' = [table EXCEPT ![i] = policy]
    /\ past' = Append(past, [at |-> now, policy |-> BestMatch(table')])
    /\ writing' = [writing EXCEPT ![p] = Len(past')]
    /\ UNCHANGED <<carrierVars, now, cache, loads, decided, tx, rows, placements, own, places>>

\* mutated: left to the timer
KeptCache(p) == cache
DroppedCache(p) == [cache EXCEPT ![p] = NoCache]

Written(p) ==
    /\ writing[p] # 0
    /\ own' = [own EXCEPT ![p] = writing[p]] /\ writing' = [writing EXCEPT ![p] = 0]
    /\ cache' = DroppedCache(p)
    /\ loads' = {[l EXCEPT !.passed = @ \/ l.by = p] : l \in loads}
    /\ UNCHANGED <<plan, carrierVars, now, table, decided, tx, rows, placements, past, places>>

(* The interval that drops the cache, at any phase.                        *)
Timer(p) ==
    /\ cache[p] # NoCache /\ Spend("timers") /\ cache' = [cache EXCEPT ![p] = NoCache]
    /\ UNCHANGED <<carrierVars, now, table, loads, writing, decided, tx, rows, placements, past, own, places>>

-----------------------------------------------------------------------------
(* place: of the carriers the class has, an unhealthy one is not eligible, *)
(* pg-v1 always is.  A decision that differs from the one the process has  *)
(* is recorded with the transaction; the process has it at once.           *)
Eligible(p, class) == {"pg"} \union IF class = "STREAM" /\ Healthy(p) THEN {"js"} ELSE {}

\* mutated: only the first decision is recorded
ChangesFromNone(had, carrier) == had.carrier = "none"
Changes(had, carrier) == had.carrier # carrier

Place(p, who, c) ==
    LET policy == BestMatch(c.rows)
        slot == <<CarrierClass(policy), OrderingKey(policy)>>
        had == decided[p][slot]
    IN  \E carrier \in Eligible(p, slot[1]) :
          /\ places' = places + 1
          /\ tx' = [tx EXCEPT ![who] = [stage |-> "pin", by |-> p, row |-> tx[who].row, slot |-> slot,
                        carrier |-> carrier, decision |-> carrier, record |-> Changes(had, carrier), place |-> places',
                        policy |-> policy, from |-> [of |-> c.of, ok |-> c.ok, passed |-> c.passed, own |-> tx[who].own],
                        stored |-> had.stored \/ had.carrier # carrier, pinned |-> FALSE, raced |-> FALSE]]
          /\ decided' = [decided EXCEPT ![p][slot] =
                           [carrier |-> carrier, stored |-> ~Changes(had, carrier) /\ had.stored,
                            place |-> IF Changes(had, carrier) THEN places' ELSE had.place]]

PlaceFresh(p, who) ==
    /\ Resolving(p, who) /\ Fresh(p) /\ ~Loading(p, who) /\ Place(p, who, cache[p])
    /\ UNCHANGED <<plan, carrierVars, now, table, cache, loads, writing, rows, placements, past, own>>

LoadEnds(l) ==
    /\ loads' = loads \ {l}
    /\ cache' = [cache EXCEPT ![l.by] = Loaded(l)]
    /\ IF Resolving(l.by, l.who) THEN Place(l.by, l.who, Loaded(l)) ELSE UNCHANGED <<tx, decided, places>>
    /\ UNCHANGED <<plan, carrierVars, now, table, writing, rows, placements, past, own>>

-----------------------------------------------------------------------------
(* insertBatch and requeue, from the position or the row they have.        *)
Begins(p, who, row) ==
    /\ tx[who] = NoTx /\ link[p].life = "up" /\ Follow(who, p)
    /\ tx' = [tx EXCEPT ![who] = [stage |-> "resolve", by |-> p, row |-> row, own |-> own[p]]]
    /\ UNCHANGED <<carrierVars, now, table, cache, loads, writing, decided, rows, placements, past, own, places>>

Publish(p) == Begins(p, "publish", 0)
Requeue(p) == \E i \in DOMAIN rows : Begins(p, "replay", i)

(* backlogCarrier: the carrier of the key's first open delivery.           *)
Backlog(key) == {i \in DOMAIN rows : rows[i].open /\ rows[i].key = key}
First(S) == CHOOSE i \in S : \A j \in S : i <= j

\* mutated: the decision as it is
PinnedNever(t) == t
Pinned(t) ==
    IF t.slot[2] = NoKey \/ Backlog(t.slot[2]) = {} THEN t
    ELSE [t EXCEPT !.carrier = rows[First(Backlog(t.slot[2]))].carrier, !.pinned = TRUE]

Pin(who) ==
    /\ tx[who].stage = "pin"
    /\ LET t == Pinned(tx[who])
           apart == \E i \in Backlog(t.slot[2]) : rows[i].apart
       IN  tx' = [tx EXCEPT ![who] = [t EXCEPT !.stage = "commit", !.raced = apart]]
    /\ UNCHANGED <<plan, carrierVars, now, table, cache, loads, writing, decided, rows, placements, past, own, places>>

(* A replay gives the row it finds a carrier, and leaves it its key.       *)
Delivery(t) ==
    LET key == IF t.row = 0 THEN t.slot[2] ELSE rows[t.row].key
    IN  [open |-> TRUE, key |-> key, carrier |-> t.carrier, slot |-> t.slot, decision |-> t.decision, by |-> t.by,
         place |-> t.place, policy |-> t.policy, at |-> now, from |-> t.from, stored |-> t.stored,
         apart |-> t.raced \/ key # t.slot[2]]

Commit(who) ==
    /\ tx[who].stage = "commit"
    /\ LET t == tx[who]
           other == CHOOSE w \in Who : w # who
       IN  /\ rows' = IF t.row = 0 THEN Append(rows, Delivery(t)) ELSE [rows EXCEPT ![t.row] = Delivery(t)]
           /\ placements' = placements \union IF t.record THEN {[slot |-> t.slot, carrier |-> t.decision, by |-> t.by, place |-> t.place]} ELSE {}
           /\ decided' = [decided EXCEPT ![t.by][t.slot].stored = @ \/ (t.record /\ decided[t.by][t.slot].place = t.place)]
           /\ tx' = [tx EXCEPT ![who] = NoTx,
                        ![other] = IF @.stage = "commit" THEN [@ EXCEPT !.raced = TRUE] ELSE @]
           /\ signals' = IF who = "publish" /\ t.carrier = "js" /\ link[t.by].ready
                         THEN [signals EXCEPT ![t.by] = @ + 1] ELSE signals
    /\ UNCHANGED <<plan, broker, link, breaker, now, table, cache, loads, writing, past, own, places>>

Rollback(who) ==
    /\ tx[who] # NoTx /\ ~Loading(tx[who].by, who) /\ Spend("rollbacks")
    /\ tx' = [tx EXCEPT ![who] = NoTx]
    /\ UNCHANGED <<carrierVars, now, table, cache, loads, writing, decided, rows, placements, past, own, places>>

(* A delivery is delivered or dead; the planner forgets its oldest entry.  *)
Settle(i) ==
    /\ rows[i].open /\ Spend("settles") /\ rows' = [rows EXCEPT ![i].open = FALSE]
    /\ UNCHANGED <<carrierVars, now, table, cache, loads, writing, decided, tx, placements, past, own, places>>

Evict(p, slot) ==
    /\ decided[p][slot] # Undecided /\ Spend("evictions")
    /\ decided' = [decided EXCEPT ![p][slot] = Undecided]
    /\ UNCHANGED <<carrierVars, now, table, cache, loads, writing, tx, rows, placements, past, own, places>>

(* A tick is long beside a transaction.                                    *)
Tick ==
    /\ loads = {} /\ \A w \in Who : tx[w] = NoTx /\ \A p \in Process : writing[p] = 0
    /\ Spend("ticks") /\ now' = now + 1
    /\ BreakerTicks
    /\ UNCHANGED <<table, cache, loads, writing, decided, tx, rows, placements, past, own, places>>

-----------------------------------------------------------------------------
Policies ==
    \/ \E p \in Process : Written(p) \/ Timer(p) \/ \E who \in Who \union {"read"} : Select(p, who) \/ SelectFails(p, who)
    \/ \E p \in Process, i \in 1..Patterns, n \in DOMAIN plan.writes : Write(p, i, plan.writes[n][3])
    \/ \E l \in loads : LoadEnds(l)

Transactions ==
    \/ \E p \in Process : Publish(p) \/ Requeue(p)
    \/ \E who \in Who : Pin(who) \/ Commit(who) \/ Rollback(who) \/ \E p \in Process : PlaceFresh(p, who)

Links == plan.link /\ LinkNext /\ UNCHANGED <<plan, placementVars>>

Signals ==
    /\ \E p \in Process : SignalEnds(p, TRUE) \/ SignalEnds(p, FALSE)
    /\ Spend("outcomes")
    /\ UNCHANGED placementVars

Next ==
    \/ Policies \/ Transactions \/ Tick \/ Links \/ Signals
    \/ \E i \in DOMAIN rows : Settle(i)
    \/ \E p \in Process, slot \in Slot : Evict(p, slot)

Spec == Init /\ [][Next]_vars

(* Timers fire, and a connection that is gone is noticed.  A request that  *)
(* is made again and again, and a handshake that is, gets through once.    *)
Alone(step) == plan.link /\ step /\ UNCHANGED <<plan, placementVars>>
LinkFairness ==
    \A p \in Linked :
        /\ WF_vars(Alone(Close(p) \/ Reopen(p))) /\ WF_vars(Alone(Reconnect(p))) /\ WF_vars(Alone(EnsureStep(p)))
        /\ SF_vars(Alone(Handshake(p)))
        /\ \A asked \in {"info", "create", "consumer"} :
              /\ SF_vars(link[p].asking = asked /\ Alone(Serve(p)))
              /\ SF_vars(link[p].asking = asked /\ Alone(Answer(p)))
FairSpec == Spec /\ LinkFairness

-----------------------------------------------------------------------------
TypeOK ==
    /\ now \in Nat /\ table \in Table
    /\ \A p \in Process :
          /\ cache[p] # NoCache => cache[p].rows \in Table /\ cache[p].at \in 0..now
          /\ writing[p] \in 0..Len(past) /\ own[p] \in 1..Len(past)
          /\ \A slot \in Slot : decided[p][slot].carrier \in {"none", "pg"} \union (IF slot[1] = "STREAM" THEN {"js"} ELSE {})
    /\ \A who \in Who : tx[who].stage \in {"none", "resolve", "pin", "commit"}
    /\ \A l \in loads : l.who = "read" \/ Resolving(l.by, l.who)
    /\ \A i \in DOMAIN rows : rows[i].carrier \in {"pg", "js"} /\ rows[i].place \in 1..places
    /\ \A d \in placements : d.slot \in Slot /\ d.place \in 1..places

(* nats-js-v1 says it is healthy only while the stream, and the consumer   *)
(* of this process when it consumes, exist on a connection that is open    *)
(* (jetstream.js:57, healthy): what it signals reaches a stream, and a     *)
(* process that delivers hears of it, over reconnections, a broker that    *)
(* loses its storage and consumers removed for their absence.              *)
HealthyIsServed ==
    \A p \in Process :
       link[p].life = "up" /\ link[p].sock = "open" /\ Healthy(p)
          => broker.stream /\ (link[p].handlers => p \in broker.consumer)

(* And what a process knows of its connection is well formed: a refusal,   *)
(* a reconnect and a retry are each waited for by their own timer.         *)
CarriersSound == CarrierTypeOK /\ HealthyIsServed

(* jetstream.js:23: a clean stop, one whose request the broker answered,   *)
(* leaves no consumer behind, unless it was called while ensure was asking.*)
CleanStopDeletes ==
    [][\A p \in Process : Quit(p) /\ link[p].leaving = "served" /\ ~link[p].late => p \notin broker.consumer]_vars

(* When the broker is up and allows it for good, a process that runs is    *)
(* reachable in the end, or again and again stopped: scheduleReconnect,    *)
(* retryDenied, ensure.                                                    *)
EventuallyReady ==
    \A p \in Linked :
       <>[](broker.up /\ broker.allows /\ link[p].life = "up") => <>[]Reachable(p)

(* A delivery is placed by a policy that was in force less than a reload   *)
(* interval before, unless the process could not load the table: policy.js *)
(* reloadMs, "a second worker process picks up another process's writes".  *)
RecentPolicy ==
    \A i \in DOMAIN rows : rows[i].from.ok =>
       \E n \in DOMAIN past :
          /\ past[n].policy = rows[i].policy /\ past[n].at <= rows[i].at
          /\ n = Len(past) \/ past[n + 1].at > rows[i].at - Reload

(* A process that answered a write of a policy places by it or by a later  *)
(* one, unless a select was in flight when the cache was dropped: put.     *)
OwnWritesSeen ==
    \A i \in DOMAIN rows : rows[i].from.ok => rows[i].from.passed \/ rows[i].from.of >= rows[i].from.own

(* The policies deliveries are placed by are those in force, as far as the *)
(* caches promise: all, put, remove and the interval of policy.js.         *)
PoliciesInForce == TypeOK /\ RecentPolicy /\ OwnWritesSeen

(* README.md:183: a key's backlog stays on one carrier, except for what a  *)
(* replay that another transaction overlapped, or one under another key,   *)
(* put beside it.                                                          *)
OneCarrierPerBacklog ==
    \A i, j \in DOMAIN rows :
       /\ rows[i].open /\ rows[j].open /\ rows[i].key = rows[j].key /\ rows[i].key # NoKey
       /\ ~rows[i].apart /\ ~rows[j].apart
       => rows[i].carrier = rows[j].carrier

(* The latest decision recorded for a class and key when a delivery was    *)
(* placed is the one that placed it, unless another process recorded it,   *)
(* or the transaction that took it had not committed: delivery_placements. *)
Before(row) == {d \in placements : d.slot = row.slot /\ d.place <= row.place}
Explained ==
    \A i \in DOMAIN rows : rows[i].stored =>
       \E d \in Before(rows[i]) :
          /\ \A e \in Before(rows[i]) : e.place <= d.place
          /\ d.by = rows[i].by => d.carrier = rows[i].decision
=============================================================================
