--------------------------- MODULE DeliveryQueue ---------------------------
(***************************************************************************)
(* The delivery queue: the `deliveries` table, the claims and leases on it *)
(* (server/store.js) and the workers that send what they claimed           *)
(* (server/worker.js, and server/fabric/carriers through claimDelivery).   *)
(*                                                                         *)
(* Events are their sequence numbers.  Every comparison the code makes     *)
(* with the clock is with the current time, so next_attempt_at and         *)
(* lease_until are kept as the ticks still to go: 0 is "due" for the       *)
(* first and "null or expired" for the second, and no bound on the clock   *)
(* is needed.  One claim is one step: it runs in a transaction that holds  *)
(* the subscription's row lock, so claims of one subscription never        *)
(* overlap.  A pass begins, claims one delivery after another, and starts  *)
(* the sends of what it claimed; a stop() may come at any point of it.     *)
(***************************************************************************)
EXTENDS Integers, FiniteSets, Sequences

CONSTANTS
    Worker,         \* delivery workers; each has its own lease owner id, so a restart is another worker
    Leaving,        \* the workers that may stop or crash while the system runs
    Carrying,       \* the workers whose process also claims for a carrier
    NoOwner,        \* a null lease_owner
    Sub,            \* subscriptions
    AppSub,         \* the ones of developer apps
    MaxSeq,         \* bound: how many events are ever published
    KeyOf,          \* the ordering key of each event, or NoKey
    NoKey,
    Rank,           \* PRIORITY_RANK of each event: lower goes first
    AtMostOnce,     \* events whose policy says delivery_semantics: at_most_once
                    \* (a look-up of it may still miss: see Record)
    Deliverable,    \* per subscription, the events its topic and scope let through
    Expiring,       \* events whose retention may end while the system runs
    Pausable,       \* subscriptions that are disabled and enabled while the system runs
    SubInflight,    \* subscriptions.max_inflight
    MaxInflight,    \* sends a worker's passes have open at once
    MaxAppInflight, \* of which to developer-app endpoints
    CarrierSlots,   \* sends a carrying worker has open for carriers (claimDelivery)
    LeaseTicks,     \* a lease's length
    Backoff,        \* ticks to wait after the n-th failed attempt (the last repeats)
    MaxAttempts,    \* retry policy: attempts until a delivery is dead
    MaxReplays,     \* bound: how many replays an operator asks for
    MaxThrows       \* bound: how many sends end by an exception

Event == 1..MaxSeq
PassSlot == 1..MaxInflight
CarrierSlot == (MaxInflight + 1)..(MaxInflight + CarrierSlots)
Slot == 1..(MaxInflight + CarrierSlots)

ASSUME NaturalBounds ==
    /\ MaxSeq \in Nat /\ MaxReplays \in Nat /\ MaxThrows \in Nat /\ CarrierSlots \in Nat
    /\ MaxInflight \in Nat \ {0} /\ MaxAppInflight \in Nat
    /\ LeaseTicks \in Nat \ {0} /\ MaxAttempts \in Nat \ {0}
    /\ Backoff \in Seq(Nat) /\ Backoff # <<>>
ASSUME SubscriptionShape ==
    /\ AppSub \subseteq Sub /\ Pausable \subseteq Sub
    /\ Deliverable \in [Sub -> SUBSET Event]
    /\ SubInflight \in [Sub -> Nat \ {0}]
ASSUME EventShape ==
    /\ Rank \in [Event -> Nat]
    /\ AtMostOnce \subseteq Event /\ Expiring \subseteq Event
ASSUME WorkerShape == NoOwner \notin Worker /\ Leaving \subseteq Worker /\ Carrying \subseteq Worker

VARIABLES
    tier,       \* where each event is: not published yet, hot, in the replay tier, or deleted
    delivery,   \* the deliveries table
    enabled,    \* subscriptions.enabled
    send,       \* per worker and slot, the send in flight
    pass,       \* per worker, the dispatch pass under way
    life,       \* of each worker process
    replays,    \* how many replays were made
    throws,     \* how many sends threw
    reached,    \* history: whether each delivery reached its endpoint (2: more than once)
    excused,    \* history: deliveries that were given up or created by a replay
    again       \* history: at-most-once deliveries that something lets be posted once more

counts == <<replays, throws>>
histories == <<reached, excused, again>>
vars == <<tier, delivery, enabled, send, pass, life, counts, histories>>

-----------------------------------------------------------------------------
(* A row's owner and lease are lease_owner and lease_until.  `slot` is     *)
(* history: the slot of the newest claim, 0 once the send of that claim    *)
(* has ended (recorded, or thrown) or a replay has superseded it.          *)
Status == {"none", "pending", "failed", "delivered", "dead"}
Row == [status : Status, attempt : Nat, wait : Nat, owner : Worker \union {NoOwner},
        lease : Nat, slot : Nat]
NoRow == [status |-> "none", attempt |-> 0, wait |-> 0, owner |-> NoOwner,
          lease |-> 0, slot |-> 0]
FreshRow == [NoRow EXCEPT !.status = "pending"]

Job == [phase : {"claimed", "ok", "error", "refused"}, sub : Sub, seq : Event, attempt : Nat \ {0}]
Idle == [phase |-> "idle"]

(* A pass: the slots and the apps' share it still has to give, computed    *)
(* when it began, and the slots it took, whose sends start when it ends.   *)
Pass == [open : BOOLEAN, room : 0..MaxInflight, app : 0..MaxAppInflight, taken : SUBSET PassSlot]
NoPass == [open |-> FALSE, room |-> 0, app |-> 0, taken |-> {}]

TypeOK ==
    /\ tier \in [Event -> {"future", "hot", "replay", "gone"}]
    /\ delivery \in [Sub -> [Event -> Row]]
    /\ enabled \in [Sub -> BOOLEAN]
    /\ send \in [Worker -> [Slot -> Job \union {Idle}]]
    /\ pass \in [Worker -> Pass]
    /\ life \in [Worker -> {"up", "stopping", "stopped", "crashed"}]
    /\ replays \in 0..MaxReplays
    /\ throws \in 0..MaxThrows
    /\ reached \in [Sub -> [Event -> 0..2]]
    /\ excused \in [Sub -> SUBSET Event]
    /\ again \in [Sub -> SUBSET AtMostOnce]

Queued(s, e) == delivery[s][e].status \in {"pending", "failed"}
Settled(s, e) == delivery[s][e].status \in {"delivered", "dead"}
SameKey(e, f) == KeyOf[e] # NoKey /\ KeyOf[e] = KeyOf[f]
Leased(s) == {e \in Event : delivery[s][e].lease > 0}
Live(w) == life[w] \in {"up", "stopping"}

Init ==
    /\ tier = [e \in Event |-> "future"]
    /\ delivery = [s \in Sub |-> [e \in Event |-> NoRow]]
    /\ enabled = [s \in Sub |-> TRUE]
    /\ send = [w \in Worker |-> [i \in Slot |-> Idle]]
    /\ pass = [w \in Worker |-> NoPass]
    /\ life = [w \in Worker |-> "up"]
    /\ replays = 0 /\ throws = 0
    /\ reached = [s \in Sub |-> [e \in Event |-> 0]]
    /\ excused = [s \in Sub |-> {}]
    /\ again = [s \in Sub |-> {}]

-----------------------------------------------------------------------------
(* insertBatch, as far as the queue sees it: the next sequence number and  *)
(* one pending delivery for every enabled subscription that matches.       *)
Publish(e) ==
    /\ tier[e] = "future"
    /\ \A f \in Event : f < e => tier[f] # "future"
    /\ tier' = [tier EXCEPT ![e] = "hot"]
    /\ delivery' = [s \in Sub |-> [f \in Event |->
           IF f = e /\ enabled[s] /\ e \in Deliverable[s] THEN FreshRow ELSE delivery[s][f]]]
    /\ UNCHANGED <<enabled, send, pass, life, counts, histories>>

(* setSubscriptionEnabled: enable, disable, suspend, resume, revocation.   *)
SetEnabled(s, b) ==
    /\ s \in Pausable
    /\ enabled[s] # b
    /\ enabled' = [enabled EXCEPT ![s] = b]
    /\ UNCHANGED <<tier, delivery, send, pass, life, counts, histories>>

(* requeue: the retained, deliverable events of `es` start over.  A row    *)
(* that exists keeps its lease; `excused`, `again` and `slot` are history. *)
Requeued(d) == [d EXCEPT !.status = "pending", !.attempt = 0, !.wait = 0, !.slot = 0]

Replay(s, es) ==
    /\ replays < MaxReplays
    /\ es # {}
    /\ es \subseteq {e \in Deliverable[s] : tier[e] = "hot"}
    /\ replays' = replays + 1
    /\ delivery' = [r \in Sub |-> [e \in Event |->
           IF r = s /\ e \in es THEN Requeued(delivery[r][e]) ELSE delivery[r][e]]]
    /\ excused' = [excused EXCEPT ![s] = @ \union {e \in es : delivery[s][e].status = "none"}]
    /\ again' = [again EXCEPT ![s] = @ \union (es \cap AtMostOnce)]
    /\ UNCHANGED <<tier, enabled, send, pass, life, throws, reached>>

(* prune: an event past its retention leaves the hot store, for the replay *)
(* tier or for good, and its deliveries go with it (ON DELETE CASCADE).    *)
Prune(e, to) ==
    /\ e \in Expiring
    /\ \/ tier[e] = "hot" /\ to \in {"replay", "gone"}
       \/ tier[e] = "replay" /\ to = "gone"
    /\ tier' = [tier EXCEPT ![e] = to]
    /\ delivery' = [s \in Sub |-> [f \in Event |-> IF f = e THEN NoRow ELSE delivery[s][f]]]
    /\ UNCHANGED <<enabled, send, pass, life, counts, histories>>

-----------------------------------------------------------------------------
(* What a claim requires of a delivery: due, not leased, and, with an      *)
(* ordering key, the head of the key with nothing of the key leased.       *)
ClaimableAgainWhileLeased(s, e) ==      \* mutated: the own-lease check is missing
    /\ Queued(s, e) /\ delivery[s][e].wait = 0
    /\ \A f \in Event \ {e} : SameKey(e, f) => ~(f < e /\ Queued(s, f)) /\ delivery[s][f].lease = 0
ClaimableBesideKeyLease(s, e) ==        \* mutated: only the head of the key, leased or not
    /\ Queued(s, e) /\ delivery[s][e].wait = 0 /\ delivery[s][e].lease = 0
    /\ \A f \in Event : SameKey(e, f) => ~(f < e /\ Queued(s, f))
ClaimableBeforeHead(s, e) ==            \* mutated: nothing of the key leased, head or not
    /\ Queued(s, e) /\ delivery[s][e].wait = 0 /\ delivery[s][e].lease = 0
    /\ \A f \in Event : SameKey(e, f) => delivery[s][f].lease = 0
ClaimableUnowned(s, e) ==               \* mutated: free when it has no owner, expired or not
    /\ Queued(s, e) /\ delivery[s][e].wait = 0 /\ delivery[s][e].owner = NoOwner
    /\ \A f \in Event : SameKey(e, f) => ~(f < e /\ Queued(s, f)) /\ delivery[s][f].lease = 0
Claimable(s, e) ==
    /\ Queued(s, e)
    /\ delivery[s][e].wait = 0
    /\ delivery[s][e].lease = 0
    /\ \A f \in Event : SameKey(e, f) =>
           /\ ~(f < e /\ Queued(s, f))
           /\ delivery[s][f].lease = 0

AtOrUnderCap(s) == Cardinality(Leased(s)) <= SubInflight[s]   \* mutated: one too many
UnderCap(s) == Cardinality(Leased(s)) < SubInflight[s]
Before(e, f) == Rank[e] < Rank[f] \/ (Rank[e] = Rank[f] /\ e < f)

(* The leasing UPDATE, and the send the row is claimed for.                *)
LeasedTo(d, w, i) == [d EXCEPT !.owner = w, !.lease = LeaseTicks, !.slot = i]

Take(w, i, s, e) ==
    /\ delivery' = [delivery EXCEPT ![s][e] = LeasedTo(@, w, i)]
    /\ send' = [send EXCEPT ![w][i] =
           [phase |-> "claimed", sub |-> s, seq |-> e, attempt |-> delivery[s][e].attempt + 1]]
    /\ UNCHANGED <<tier, enabled, life, counts, histories>>

IdleSlots(w) == {i \in PassSlot : send[w][i] = Idle}
FirstIdle(w, slots, i) == i \in slots /\ send[w][i] = Idle /\ \A j \in slots : j < i => send[w][j] # Idle
AppSends(w) == {i \in PassSlot : send[w][i] # Idle /\ send[w][i].sub \in AppSub}
WholeAppShare(w) == MaxAppInflight      \* mutated: the share of this pass alone
AppRoom(w) == IF Cardinality(AppSends(w)) < MaxAppInflight
              THEN MaxAppInflight - Cardinality(AppSends(w)) ELSE 0

(* dispatchPass: its look at `stopping`, and the room and the apps' share, *)
(* all read once before the claim is awaited.                              *)
BeginPassAlways(w) ==       \* mutated: `stopping` is not looked at
    /\ Live(w) /\ ~pass[w].open /\ IdleSlots(w) # {}
    /\ pass' = [pass EXCEPT ![w] =
           [open |-> TRUE, room |-> Cardinality(IdleSlots(w)), app |-> AppRoom(w), taken |-> {}]]
    /\ UNCHANGED <<tier, delivery, enabled, send, life, counts, histories>>
BeginPass(w) ==
    /\ life[w] = "up"
    /\ ~pass[w].open
    /\ IdleSlots(w) # {}
    /\ pass' = [pass EXCEPT ![w] =
           [open |-> TRUE, room |-> Cardinality(IdleSlots(w)), app |-> AppRoom(w), taken |-> {}]]
    /\ UNCHANGED <<tier, delivery, enabled, send, life, counts, histories>>

(* What a pass has left after it took slot i for s.                        *)
PassAfter(p, i, s) == [p EXCEPT !.room = @ - 1, !.app = IF s \in AppSub THEN @ - 1 ELSE @,
                                !.taken = @ \union {i}]

(* claimDeliveries: the best claimable delivery of an enabled subscription *)
(* with room, while the pass has a slot for it.  A stop() does not end it. *)
ClaimDue(w, i, s, e) ==
    /\ pass[w].open /\ pass[w].room > 0
    /\ FirstIdle(w, PassSlot, i)
    /\ s \in AppSub => pass[w].app > 0
    /\ enabled[s]
    /\ Claimable(s, e) /\ UnderCap(s)
    /\ \A f \in Event \ {e} : Claimable(s, f) => Before(e, f)
    /\ Take(w, i, s, e)
    /\ pass' = [pass EXCEPT ![w] = PassAfter(@, i, s)]

(* The claim has answered: the pass starts what it took, and is over.  It  *)
(* may have left claimable deliveries: of a subscription that another      *)
(* claim had locked, or because the transaction failed.                    *)
StartPass(w) ==
    /\ pass[w].open
    /\ pass' = [pass EXCEPT ![w] = NoPass]
    /\ UNCHANGED <<tier, delivery, enabled, send, life, counts, histories>>

(* claimDelivery: a carrier's hint names the one delivery to claim.        *)
ClaimHinted(w, i, s, e) ==
    /\ life[w] = "up" /\ w \in Carrying
    /\ FirstIdle(w, CarrierSlot, i)
    /\ enabled[s]
    /\ Claimable(s, e) /\ UnderCap(s)
    /\ Take(w, i, s, e)
    /\ UNCHANGED pass

-----------------------------------------------------------------------------
(* worker.send.  It reads the event (hot or replay), posts it, and records *)
(* the attempt; between any two of these anything else may happen.  The    *)
(* event was there when it was claimed, so a POST may come after it is     *)
(* gone (it was read before) while giving up means it was read after.      *)
Started(w, i) == i \notin pass[w].taken
Finish(w, i) == send' = [send EXCEPT ![w][i] = Idle]

(* The event is gone: nothing is sent and nothing recorded.                *)
GiveUp(w, i) ==
    /\ send[w][i].phase = "claimed" /\ Started(w, i)
    /\ tier[send[w][i].seq] = "gone"
    /\ Finish(w, i)
    /\ UNCHANGED <<tier, delivery, enabled, pass, life, counts, histories>>

(* History counts one, or for an at-most-once event one and more than one. *)
Reach(s, e) == reached' = [reached EXCEPT ![s][e] =
    IF e \in AtMostOnce /\ @ > 0 THEN 2 ELSE 1]

(* The POST: accepted with a 2xx, failed before or after it reached the    *)
(* endpoint (an error status, a timeout, a lost answer), or never made     *)
(* because the address is not allowed.                                     *)
Post(w, i, answer) ==
    LET job == send[w][i] IN
    /\ job.phase = "claimed" /\ Started(w, i)
    /\ send' = [send EXCEPT ![w][i].phase = answer]
    /\ \/ answer \in {"ok", "error"} /\ Reach(job.sub, job.seq)
       \/ answer \in {"error", "refused"} /\ UNCHANGED reached
    /\ UNCHANGED <<tier, delivery, enabled, pass, life, counts, excused, again>>

(* Whether a failed attempt is the last.  `once` is what the look-up of    *)
(* the policy said when the attempt failed: send falls back to FALSE when  *)
(* it throws, and the table may be empty because its load failed.          *)
FinalByCount(job, once) == job.phase = "refused" \/ job.attempt >= MaxAttempts  \* mutated: at_most_once is retried
Final(job, once) == job.phase = "refused" \/ once \/ job.attempt >= MaxAttempts
BackoffAfter(n) == Backoff[IF n < Len(Backoff) THEN n ELSE Len(Backoff)]
RowExists(w, s, e) == delivery[s][e].status # "none"    \* mutated: any result is recorded
Holds(w, s, e) == delivery[s][e].owner = w

(* The row as recordAttempt leaves it.                                     *)
Recorded(d, job, once) ==
    [d EXCEPT !.attempt = job.attempt, !.owner = NoOwner, !.lease = 0, !.slot = 0,
        !.status = IF job.phase = "ok" THEN "delivered" ELSE IF Final(job, once) THEN "dead" ELSE "failed",
        !.wait = IF job.phase = "ok" \/ Final(job, once) THEN 0 ELSE BackoffAfter(job.attempt)]

(* recordAttempt: only while the delivery is leased to this worker.  An    *)
(* attempt that failed is excused when it was the last; if the look-up of  *)
(* an at-most-once policy missed, the delivery may be posted again.        *)
Excuses(job, once) ==
    /\ excused' = [excused EXCEPT ![job.sub] = @ \union
           IF job.phase # "ok" /\ Final(job, once) THEN {job.seq} ELSE {}]
    /\ again' = [again EXCEPT ![job.sub] = @ \union
           IF job.phase = "error" /\ ~once THEN {job.seq} \cap AtMostOnce ELSE {}]

Record(w, i, once) ==
    LET job == send[w][i] IN
    /\ job.phase \in {"ok", "error", "refused"}
    /\ once => job.seq \in AtMostOnce
    /\ Finish(w, i)
    /\ IF Holds(w, job.sub, job.seq)
       THEN /\ delivery' = [delivery EXCEPT ![job.sub][job.seq] = Recorded(@, job, once)]
            /\ Excuses(job, once)
       ELSE UNCHANGED <<delivery, excused, again>>
    /\ UNCHANGED <<tier, enabled, pass, life, counts, reached>>

(* A send that ends with its POST made and no result recorded: what it     *)
(* sent may be sent again when its lease has expired.                      *)
Posted(w, i, s, e) == send[w][i].phase \in {"ok", "error"} /\ send[w][i].sub = s /\ send[w][i].seq = e
Unrecorded(w, slots) == again' = [s \in Sub |-> again[s] \union
    {e \in AtMostOnce : \E i \in slots : Posted(w, i, s, e)}]

(* A query of the send throws (getSubscription or getEvent before it, the  *)
(* transaction of recordAttempt after it).  The exception is logged and    *)
(* the slot is free; nothing is recorded and the lease is left to expire.  *)
Throw(w, i) ==
    LET job == send[w][i] IN
    /\ throws < MaxThrows
    /\ job # Idle /\ Started(w, i)
    /\ throws' = throws + 1
    /\ delivery' = IF Holds(w, job.sub, job.seq) /\ delivery[job.sub][job.seq].slot = i
                   THEN [delivery EXCEPT ![job.sub][job.seq].slot = 0] ELSE delivery
    /\ Finish(w, i)
    /\ Unrecorded(w, {i})
    /\ UNCHANGED <<tier, enabled, pass, life, replays, reached, excused>>

-----------------------------------------------------------------------------
(* A process goes away only while another is up: the service manager keeps *)
(* one running.  stop() begins no new pass; it waits for the pass under    *)
(* way and then for every send that passes started, but not for a          *)
(* carrier's.  A crash leaves everything as it is, leases included.        *)
MayLeave(w) == w \in Leaving /\ \E v \in Worker \ {w} : life[v] = "up"

Stop(w) ==
    /\ life[w] = "up" /\ MayLeave(w)
    /\ life' = [life EXCEPT ![w] = "stopping"]
    /\ UNCHANGED <<tier, delivery, enabled, send, pass, counts, histories>>

Drop(w) ==
    /\ send' = [send EXCEPT ![w] = [i \in Slot |-> Idle]]
    /\ pass' = [pass EXCEPT ![w] = NoPass]
    /\ Unrecorded(w, Slot)

SendsEnded(w) == \A i \in PassSlot : Started(w, i) => send[w][i] = Idle

StoppedDuringPass(w) ==     \* mutated: waits for the sends, not for the pass (the code before 2026-11-02)
    /\ life[w] = "stopping"
    /\ SendsEnded(w)
    /\ life' = [life EXCEPT ![w] = "stopped"]
    /\ Drop(w)
    /\ UNCHANGED <<tier, delivery, enabled, counts, reached, excused>>
Stopped(w) ==
    /\ life[w] = "stopping"
    /\ ~pass[w].open /\ SendsEnded(w)
    /\ life' = [life EXCEPT ![w] = "stopped"]
    /\ Drop(w)
    /\ UNCHANGED <<tier, delivery, enabled, counts, reached, excused>>

Crash(w) ==
    /\ Live(w) /\ MayLeave(w)
    /\ life' = [life EXCEPT ![w] = "crashed"]
    /\ Drop(w)
    /\ UNCHANGED <<tier, delivery, enabled, counts, reached, excused>>

(* Time passes: every wait and every lease is a tick shorter.              *)
Less(n) == IF n > 0 THEN n - 1 ELSE 0

Older(d) == [d EXCEPT !.wait = Less(@), !.lease = Less(@)]

Tick ==
    /\ \E s \in Sub, e \in Event : delivery[s][e].wait > 0 \/ delivery[s][e].lease > 0
    /\ delivery' = [s \in Sub |-> [e \in Event |-> Older(delivery[s][e])]]
    /\ UNCHANGED <<tier, enabled, send, pass, life, counts, histories>>

-----------------------------------------------------------------------------
Claim(w) == \E i \in Slot, s \in Sub, e \in Event : ClaimDue(w, i, s, e)
SendStep(w, i) ==
    \/ GiveUp(w, i)
    \/ \E answer \in {"ok", "error", "refused"} : Post(w, i, answer)
    \/ \E once \in BOOLEAN : Record(w, i, once)
    \/ Throw(w, i)

Step ==
    \/ \E e \in Event : Publish(e)
    \/ \E s \in Sub, b \in BOOLEAN : SetEnabled(s, b)
    \/ \E s \in Sub, es \in SUBSET Event : Replay(s, es)
    \/ \E e \in Event, to \in {"replay", "gone"} : Prune(e, to)
    \/ \E w \in Worker : BeginPass(w) \/ Claim(w) \/ StartPass(w)
    \/ \E w \in Worker, i \in Slot, s \in Sub, e \in Event : ClaimHinted(w, i, s, e)
    \/ \E w \in Worker, i \in Slot : SendStep(w, i)
    \/ \E w \in Worker : Stop(w) \/ Stopped(w) \/ Crash(w)

Next == Step \/ Tick

Spec == Init /\ [][Next]_vars

(* worker.js: "A lease outlives one attempt" (the request timeout plus 30  *)
(* seconds).  Under that assumption time does not take a lease from a send *)
(* that is still running; only a crash leaves a lease to expire.           *)
LeaseOutlivesSend == \A w \in Worker, i \in Slot : send[w][i] # Idle =>
    LET d == delivery[send[w][i].sub][send[w][i].seq] IN d.owner = w => d.lease # 1

PromptTick == LeaseOutlivesSend /\ Tick
PromptNext == Step \/ PromptTick
PromptSpec == Init /\ [][PromptNext]_vars

(* The timer chain keeps dispatching while the worker is up, a pass ends   *)
(* and so does a send (the request has a timeout), stop() returns when     *)
(* what it awaits has ended, and time passes.  A pass may leave a delivery *)
(* it could take (its claim failed, or skipped a locked subscription), so  *)
(* claiming needs strong fairness: what some pass could take again and     *)
(* again is not left by every one of them.                                 *)
PassFlow(w) == BeginPass(w) \/ StartPass(w) \/ Stopped(w)
Fairness ==
    /\ WF_vars(PromptTick)
    /\ \A w \in Worker : WF_vars(PassFlow(w))
    /\ SF_vars(\E w \in Worker : Claim(w))
    /\ \A w \in Worker, i \in Slot : WF_vars(SendStep(w, i))

FairSpec == PromptSpec /\ Fairness

-----------------------------------------------------------------------------
(* Safety, for every timing.                                               *)

(* claimDeliveries: "never two of one key".  Two leases of one             *)
(* subscription are never on the same ordering key.                        *)
OneLeasePerKey == \A s \in Sub, e, f \in Event :
    e # f /\ SameKey(e, f) => ~(delivery[s][e].lease > 0 /\ delivery[s][f].lease > 0)

(* At most max_inflight deliveries of a subscription are leased, however   *)
(* many workers and carriers claim for it.                                 *)
InflightCap == \A s \in Sub : Cardinality(Leased(s)) <= SubInflight[s]

(* The order an endpoint can rely on: when a delivery of a key first       *)
(* reaches it, every earlier delivery of that key has reached it already,  *)
(* was given up, was made by a later replay, or is no longer retained.     *)
(* Late posts of expired claims, retries and crashes do not change that.   *)
FirstSeenInKeyOrder == \A s \in Sub, e, f \in Event :
    f < e /\ SameKey(e, f) /\ reached[s][e] > 0 /\ delivery[s][f].status # "none"
        => reached[s][f] > 0 \/ f \in excused[s]

(* A settled delivery stays as it is until an operator replays it or       *)
(* retention removes it: no late answer of an expired claim reopens it.    *)
SettledStays == [][\A s \in Sub, e \in Event :
    Settled(s, e) /\ delivery'[s][e].status # delivery[s][e].status
        => replays' > replays \/ tier'[e] # "hot"]_vars

(* stop(): "waits for the pass and then for every delivery it started".    *)
(* A worker that was stopped (not one that crashed) leaves no lease of its *)
(* passes behind for the next one to wait out and send again, a pass under *)
(* way at stop() included, but for a send that threw: its slot is 0.       *)
CleanStop == \A s \in Sub, e \in Event, w \in Worker :
    life[w] = "stopped" /\ delivery[s][e].owner = w /\ delivery[s][e].lease > 0
        => delivery[s][e].slot \notin PassSlot

(* Developer apps never hold more than their share of a worker's slots.    *)
AppShare == \A w \in Worker : Cardinality(AppSends(w)) <= MaxAppInflight

-----------------------------------------------------------------------------
(* Safety when a lease outlives the send it covers (PromptSpec).           *)

Sends(s, e) == {p \in Worker \X Slot :
    send[p[1]][p[2]] # Idle /\ send[p[1]][p[2]].sub = s /\ send[p[1]][p[2]].seq = e}

(* A delivery is never in two sends at once, in one process or many.       *)
NoTwinSends == \A s \in Sub, e \in Event : Cardinality(Sends(s, e)) <= 1

(* Of one ordering key, at most one retained delivery is being sent.       *)
OneSendPerKey == \A s \in Sub, e, f \in Event :
    e # f /\ SameKey(e, f) /\ tier[e] = "hot" /\ tier[f] = "hot"
        => Sends(s, e) = {} \/ Sends(s, f) = {}

(* No two sends that may meet at an endpoint: of a delivery, or of two     *)
(* events of a key (worker.js: the lease outlives the request).            *)
SendsApart == NoTwinSends /\ OneSendPerKey

(* README: at_most_once "makes a failed attempt final (dead, never         *)
(* retried)".  Such a delivery reaches its endpoint at most once, unless   *)
(* it is replayed, its result was never recorded (the send threw after its *)
(* POST, or its process crashed, or stopped with a carrier's send open),   *)
(* or the look-up of its policy missed when the attempt failed.            *)
AtMostOnceReached == \A s \in Sub, e \in AtMostOnce :
    reached[s][e] <= 1 \/ e \in again[s]

(* Delivery is at least once: a queued delivery of a subscription that     *)
(* stays enabled is settled in the end (or retention takes it), whatever   *)
(* crashes, fails or is retried on the way.                                *)
EventuallySettled == \A s \in Sub, e \in Event :
    Queued(s, e) ~> ~Queued(s, e) \/ ~enabled[s]

(* stop() returns: what it awaits, the pass and the sends of the passes,   *)
(* ends by itself, whatever throws, is replayed or keeps its lease.        *)
StopReturns == \A w \in Worker : life[w] = "stopping" ~> life[w] # "stopping"
=============================================================================
