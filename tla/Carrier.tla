------------------------------ MODULE Carrier ------------------------------
(***************************************************************************)
(* nats-js-v1 in each process (server/fabric/carriers/jetstream.js): the   *)
(* connection to the broker (fabric/nats-core.js), the stream and the      *)
(* consumer it makes sure of, the handler of its messages, stop(), and     *)
(* the breaker on its signals (fabric/signals.js).  A signal only hints at *)
(* rows PostgreSQL has, so a lost one costs time; what matters is that the *)
(* planner is told the truth and that the connection comes back.           *)
(*                                                                         *)
(* The broker is external: it answers what reaches it over an open         *)
(* connection, and what it allows changes.  A timer that is set fires at   *)
(* any later time; a request may time out at any time.                     *)
(***************************************************************************)
EXTENDS Integers, Sequences, FiniteSets

CONSTANTS
    Process,
    Linked,         \* the processes whose connection comes and goes, in the plans about it
    Plans,          \* what may happen in a behaviour, and bounds
    OpenAfter,      \* consecutive failures that open the breaker
    HalfOpenAfter,  \* ticks until it is half open
    MaxChain        \* bound: messages a process has at once (a late acknowledgement is given again)

ASSUME CarrierBounds ==
    /\ Linked \subseteq Process
    /\ OpenAfter \in Nat \ {0} /\ HalfOpenAfter \in Nat \ {0} /\ MaxChain \in Nat \ {0}

VARIABLES
    plan,
    broker,     \* up, allows (its permissions), stream (it exists), consumer (whose exists)
    link,       \* per process: its carrier
    breaker,    \* per process: failures in a row, and how long it has been open
    signals     \* per process: signals not answered yet

carrierVars == <<broker, link, breaker, signals>>

Closed == -1
NoLink == [life |-> "off", handlers |-> FALSE, sock |-> "none", denied |-> FALSE, timers |-> {}, asking |-> "none",
           got |-> "lost", ready |-> FALSE, chain |-> 0, leaving |-> "no", late |-> FALSE]
Connected == [NoLink EXCEPT !.life = "up", !.handlers = TRUE, !.sock = "open", !.ready = TRUE]
NoFailure == [streak |-> 0, open |-> Closed]

CarrierTypeOK ==
    /\ broker \in [up : BOOLEAN, allows : BOOLEAN, stream : BOOLEAN, consumer : SUBSET Process]
    /\ \A p \in Process :
          /\ link[p].life \in {"off", "up", "draining", "deleting"}
          /\ link[p].handlers \in BOOLEAN
          /\ link[p].sock \in {"none", "connecting", "open", "cut"}
          /\ link[p].timers \subseteq {"reconnect", "reopen", "retry"}
          /\ link[p].asking \in {"none", "info", "create", "consumer"}
          /\ link[p].got \in {"sent", "yes", "no", "lost"}
          /\ link[p].leaving \in {"no", "sent", "served", "lost"}
          /\ link[p].life = "off" => link[p] = NoLink
          /\ link[p].life # "off" => (link[p].sock = "none" <=> "reconnect" \in link[p].timers)
          /\ link[p].denied <=> "reopen" \in link[p].timers
          /\ breaker[p].streak \in 0..OpenAfter /\ breaker[p].open \in Closed..HalfOpenAfter
          /\ signals[p] \in Nat

CarrierInit ==
    /\ broker = [up |-> TRUE, allows |-> TRUE, stream |-> ~plan.link,
                 consumer |-> IF ~plan.link THEN Process ELSE {}]
    /\ link = [p \in Process |-> IF ~plan.link THEN Connected ELSE NoLink]
    /\ breaker = [p \in Process |-> NoFailure]
    /\ signals = [p \in Process |-> 0]

Has(p, timer) == timer \in link[p].timers
Connects(p) == link[p].sock \in {"open", "cut"}     \* connected(): a cut connection is not noticed at once
Hears(p) == link[p].sock = "open" /\ broker.up /\ broker.allows

-----------------------------------------------------------------------------
(* The connection.  A broker that goes away takes its connections, what it *)
(* was asked, and perhaps its storage, with it.                            *)
BrokerFails ==
    /\ broker.up
    /\ \E keeps \in BOOLEAN :
          broker' = [broker EXCEPT !.up = FALSE, !.stream = @ /\ keeps, !.consumer = IF keeps THEN @ ELSE {}]
    /\ link' = [p \in Process |-> [link[p] EXCEPT !.sock = IF @ = "open" THEN "cut" ELSE @, !.got = "lost",
                                       !.leaving = IF @ = "no" THEN "no" ELSE "lost"]]
    /\ UNCHANGED <<breaker, signals>>

BrokerStarts == ~broker.up /\ broker' = [broker EXCEPT !.up = TRUE] /\ UNCHANGED <<link, breaker, signals>>
BrokerAllows(b) ==
    broker.allows # b /\ broker' = [broker EXCEPT !.allows = b] /\ UNCHANGED <<link, breaker, signals>>

(* The consumer of a process that has been away is removed.                *)
BrokerForgets(p) ==
    /\ broker.up /\ p \in broker.consumer /\ link[p].sock # "open" /\ link[p].asking = "none"
    /\ broker' = [broker EXCEPT !.consumer = @ \ {p}]
    /\ UNCHANGED <<link, breaker, signals>>

(* start: a new instance, with a consumer of its own name.  It has         *)
(* handlers where the delivery worker runs (EVENTS_WORKER).                *)
Start(p) ==
    /\ link[p].life = "off"
    /\ \E consumes \in BOOLEAN :
          link' = [link EXCEPT ![p] = [NoLink EXCEPT !.life = "up", !.handlers = consumes, !.sock = "connecting"]]
    /\ broker' = [broker EXCEPT !.consumer = @ \ {p}]
    /\ breaker' = [breaker EXCEPT ![p] = NoFailure]
    /\ UNCHANGED signals

(* ensure: one at a time, and none once stop() was called.  nats.request   *)
(* over a cut connection goes nowhere.                                     *)
\* mutated: also while it stops
EnsuresAlways(l) == l.asking = "none"
Ensures(l) == l.asking = "none" /\ l.life = "up"

Asks(l, what) == [l EXCEPT !.asking = what, !.got = IF l.sock = "open" THEN "sent" ELSE "lost"]
Ensured(l) == IF Ensures(l) THEN Asks(l, "info") ELSE l

(* The first PONG: refusals of the handshake's probes are known by then;   *)
(* onConnect makes sure of the stream again.                               *)
\* mutated: what was made sure of on another connection still counts
ReadyStill(l) == l.ready
ReadyAfresh(l) == FALSE

Handshake(p) ==
    /\ link[p].sock = "connecting" /\ broker.up
    /\ LET l == [link[p] EXCEPT !.sock = "open", !.denied = ~broker.allows, !.ready = ReadyAfresh(link[p]),
                     !.timers = IF broker.allows THEN @ ELSE @ \union {"reopen"}]
       IN  link' = [link EXCEPT ![p] = Ensured(l)]
    /\ UNCHANGED <<broker, breaker, signals>>

(* A refusal of a later message.                                           *)
Refused(p) ==
    /\ link[p].sock = "open" /\ broker.up /\ ~broker.allows
    /\ link' = [link EXCEPT ![p] = [link[p] EXCEPT !.denied = TRUE, !.timers = @ \union {"reopen"}]]
    /\ UNCHANGED <<broker, breaker, signals>>

\* mutated: what the last connection was refused still counts
GoneStillDenied(l) == [l EXCEPT !.sock = "none", !.timers = (@ \ {"reopen"}) \union {"reconnect"}]
Gone(l) == [l EXCEPT !.sock = "none", !.denied = FALSE, !.timers = (@ \ {"reopen"}) \union {"reconnect"}]

HandshakeFails(p) ==
    /\ link[p].sock = "connecting"
    /\ link' = [link EXCEPT ![p] = Gone(@)]
    /\ UNCHANGED <<broker, breaker, signals>>

Close(p) ==
    /\ link[p].sock = "cut"
    /\ link' = [link EXCEPT ![p] = Gone(@)]
    /\ UNCHANGED <<broker, breaker, signals>>

Reopen(p) ==    \* retryDenied
    /\ Has(p, "reopen")
    /\ link' = [link EXCEPT ![p] = Gone(@)]
    /\ UNCHANGED <<broker, breaker, signals>>

Reconnect(p) ==
    /\ Has(p, "reconnect")
    /\ link' = [link EXCEPT ![p] = [link[p] EXCEPT !.sock = "connecting", !.timers = @ \ {"reconnect"}]]
    /\ UNCHANGED <<broker, breaker, signals>>

-----------------------------------------------------------------------------
(* ensure, request by request: STREAM.INFO, STREAM.CREATE when there is    *)
(* none, CONSUMER.CREATE when the process has handlers.                    *)
Serve(p) ==
    /\ link[p].asking # "none" /\ link[p].got = "sent" /\ Hears(p)
    /\ LET asked == link[p].asking
           yes == asked = "create" \/ broker.stream
       IN  /\ link' = [link EXCEPT ![p].got = IF yes THEN "yes" ELSE "no"]
           /\ broker' = [broker EXCEPT !.stream = @ \/ asked = "create",
                             !.consumer = IF asked = "consumer" /\ yes THEN @ \union {p} ELSE @]
    /\ UNCHANGED <<breaker, signals>>

\* mutated: a stream that was there has the consumer too
AsksIfMade(l) == l.handlers /\ l.asking = "create"
AsksConsumer(l) == l.handlers /\ l.asking # "consumer"

Answered(l) ==
    CASE l.asking = "info" /\ l.got = "no" -> Asks(l, "create")
      [] l.got = "yes" /\ AsksConsumer(l) -> Asks(l, "consumer")
      [] l.got = "yes" /\ ~AsksConsumer(l) -> [l EXCEPT !.asking = "none", !.ready = TRUE]

Answer(p) ==
    /\ link[p].asking # "none" /\ link[p].sock = "open"
    /\ link[p].got = "yes" \/ (link[p].asking = "info" /\ link[p].got = "no")
    /\ link' = [link EXCEPT ![p] = Answered(@)]
    /\ UNCHANGED <<broker, breaker, signals>>

(* An error, a timeout or no connection: again later.                      *)
\* mutated: left to the next reconnect
RetriesNever(l) == {}
Retries(l) == IF l.life = "up" THEN {"retry"} ELSE {}

EnsureFails(p) ==
    /\ link[p].asking # "none"
    /\ link' = [link EXCEPT ![p] = [link[p] EXCEPT !.asking = "none", !.ready = FALSE, !.timers = @ \union Retries(link[p])]]
    /\ UNCHANGED <<broker, breaker, signals>>

Retry(p) ==
    /\ Has(p, "retry")
    /\ LET l == [link[p] EXCEPT !.timers = @ \ {"retry"}]
       IN  link' = [link EXCEPT ![p] = IF Connects(p) THEN Ensured(l) ELSE l]
    /\ UNCHANGED <<broker, breaker, signals>>

-----------------------------------------------------------------------------
(* handle: messages one after another, each claimed, sent and acknowledged *)
(* whatever comes of it.                                                   *)
Message(p) ==
    /\ p \in broker.consumer /\ Hears(p) /\ link[p].life = "up" /\ link[p].chain < MaxChain
    /\ link' = [link EXCEPT ![p].chain = @ + 1]
    /\ UNCHANGED <<broker, breaker, signals>>

Handle(p) ==
    /\ link[p].chain > 0
    /\ link' = [link EXCEPT ![p].chain = @ - 1]
    /\ UNCHANGED <<broker, breaker, signals>>

(* stop: no more messages; those it has are waited for; the consumer is    *)
(* deleted, if there is one to delete and a connection; and the connection *)
(* is closed.                                                              *)
Stop(p) ==
    /\ link[p].life = "up"
    /\ link' = [link EXCEPT ![p] = [link[p] EXCEPT !.life = "draining", !.timers = @ \ {"retry"}, !.late = link[p].asking # "none"]]
    /\ UNCHANGED <<broker, breaker, signals>>

Drained(p) ==
    /\ link[p].life = "draining" /\ link[p].chain = 0
    /\ link' = [link EXCEPT ![p] = [link[p] EXCEPT !.life = "deleting",
                                              !.leaving = IF link[p].sock = "open" /\ link[p].handlers THEN "sent" ELSE "lost"]]
    /\ UNCHANGED <<broker, breaker, signals>>

Delete(p) ==
    /\ link[p].leaving = "sent" /\ Hears(p)
    /\ link' = [link EXCEPT ![p].leaving = "served"]
    /\ broker' = [broker EXCEPT !.consumer = @ \ {p}]
    /\ UNCHANGED <<breaker, signals>>

Quit(p) ==      \* also when nobody answered in time
    /\ link[p].life = "deleting"
    /\ link' = [link EXCEPT ![p] = NoLink]
    /\ signals' = [signals EXCEPT ![p] = 0]
    /\ UNCHANGED <<broker, breaker>>

Crash(p) ==
    /\ link[p].life # "off"
    /\ link' = [link EXCEPT ![p] = NoLink]
    /\ signals' = [signals EXCEPT ![p] = 0]
    /\ UNCHANGED <<broker, breaker>>

-----------------------------------------------------------------------------
(* signalStream and record.  `trial` is never set (signals.js), so a       *)
(* failure while half open only counts.                                    *)
Recorded(b, ok) ==
    IF ok THEN NoFailure
    ELSE LET streak == IF b.streak < OpenAfter THEN b.streak + 1 ELSE OpenAfter
         IN  [streak |-> streak, open |-> IF b.open = Closed /\ streak = OpenAfter THEN 0 ELSE b.open]

SignalEnds(p, ok) ==
    /\ signals[p] > 0
    /\ ok => Hears(p) /\ broker.stream
    /\ signals' = [signals EXCEPT ![p] = @ - 1]
    /\ breaker' = [breaker EXCEPT ![p] = Recorded(@, ok)]
    /\ UNCHANGED <<broker, link>>

(* healthy: what the planner asks before it places a delivery.             *)
Open(p) == breaker[p].open \in 0..(HalfOpenAfter - 1)
Reachable(p) == Connects(p) /\ ~link[p].denied /\ link[p].ready
Healthy(p) == Reachable(p) /\ ~Open(p)

OpenLonger(b) == [b EXCEPT !.open = IF @ \in 0..(HalfOpenAfter - 1) THEN @ + 1 ELSE @]
BreakerTicks == breaker' = [p \in Process |-> OpenLonger(breaker[p])] /\ UNCHANGED <<broker, link, signals>>

-----------------------------------------------------------------------------
ConnectStep(p) == Handshake(p) \/ Close(p) \/ Reopen(p) \/ Reconnect(p)
EnsureStep(p) == Retry(p) \/ EnsureFails(p)
StopStep(p) == Drained(p) \/ Delete(p) \/ Quit(p) \/ Handle(p)

LinkNext ==
    \/ BrokerFails \/ BrokerStarts
    \/ \E b \in BOOLEAN : BrokerAllows(b)
    \/ \E p \in Linked :
          \/ BrokerForgets(p) \/ Start(p) \/ Refused(p) \/ HandshakeFails(p)
          \/ ConnectStep(p) \/ EnsureStep(p) \/ Serve(p) \/ Answer(p)
          \/ Message(p) \/ StopStep(p) \/ Stop(p) \/ Crash(p)
=============================================================================
