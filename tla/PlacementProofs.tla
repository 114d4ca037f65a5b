-------------------------- MODULE PlacementProofs --------------------------
(***************************************************************************)
(* Proofs that the planner is told the truth about its carrier, that       *)
(* deliveries are placed by the policies in force, that the backlog of a   *)
(* key stays on one carrier, and that what is recorded explains where a    *)
(* delivery went, for any processes, policies and plans.  The invariant    *)
(* ties what each process cached, loads, decided and has in a transaction  *)
(* to the table, to what is recorded, and to what the broker answered.     *)
(***************************************************************************)
EXTENDS Placement, FiniteSetTheorems, SequenceTheorems, WellFoundedInduction, TLAPS

-----------------------------------------------------------------------------
(* The carrier of a process and the broker.                                *)

Socket == {"none", "connecting", "open", "cut"}
Link == [life : {"off", "up", "draining", "deleting"}, handlers : BOOLEAN, sock : Socket, denied : BOOLEAN,
         timers : SUBSET {"reconnect", "reopen", "retry"}, asking : {"none", "info", "create", "consumer"},
         got : {"sent", "yes", "no", "lost"}, ready : BOOLEAN, chain : Nat,
         leaving : {"no", "sent", "served", "lost"}, late : BOOLEAN]
Broker == [up : BOOLEAN, allows : BOOLEAN, stream : BOOLEAN, consumer : SUBSET Process]
Breaker == [streak : 0..OpenAfter, open : Closed..HalfOpenAfter]

(* What a connection is waiting for, and that a stop that found no request *)
(* of ensure under way makes none.                                         *)
LinkOK(l) ==
    /\ l.life = "off" => l = NoLink
    /\ l.life # "off" => (l.sock = "none" <=> "reconnect" \in l.timers)
    /\ l.denied <=> "reopen" \in l.timers
    /\ l.denied => l.sock \in {"open", "cut"}
    /\ l.leaving # "no" => l.life = "deleting"
    /\ l.life \in {"draining", "deleting"} /\ ~l.late => l.asking = "none"

(* What the broker told a process that runs still holds, and a clean stop  *)
(* whose request it served has no consumer.                                *)
Told(l, b, p) ==
    /\ l.life = "up" /\ l.asking # "none" /\ l.got = "yes" => b.stream /\ (l.asking = "consumer" => p \in b.consumer)
    /\ l.life = "up" /\ l.sock = "open" /\ l.ready => b.stream /\ (l.handlers => p \in b.consumer)
    /\ l.leaving = "served" /\ ~l.late => p \notin b.consumer

CarrierInv ==
    /\ broker \in Broker /\ link \in [Process -> Link]
    /\ breaker \in [Process -> Breaker] /\ signals \in [Process -> Nat]
    /\ \A p \in Process : LinkOK(link[p]) /\ Told(link[p], broker, p)

LEMMA NoLinkShape == NoLink \in Link /\ LinkOK(NoLink)
  BY DEF NoLink, Link, Socket, LinkOK

(* A step that changes one connection, and of the broker at most the       *)
(* consumer of that process, or the stream to one that exists.             *)
LEMMA OneLink ==
  ASSUME CarrierInv, NEW p \in Process, NEW l \in Link, link' = [link EXCEPT ![p] = l],
         LinkOK(l), broker' \in Broker, Told(l, broker', p), broker.stream => broker'.stream,
         \A q \in Process \ {p} : q \in broker'.consumer <=> q \in broker.consumer,
         breaker' \in [Process -> Breaker], signals' \in [Process -> Nat]
  PROVE  CarrierInv'
  <1>1. link' \in [Process -> Link]
    BY DEF CarrierInv
  <1>2. \A q \in Process : LinkOK(link'[q]) /\ Told(link'[q], broker', q)
    <2> SUFFICES ASSUME NEW q \in Process PROVE LinkOK(link'[q]) /\ Told(link'[q], broker', q)
      OBVIOUS
    <2>1. CASE q = p
      BY <2>1 DEF CarrierInv
    <2>2. CASE q # p
      <3>1. link'[q] = link[q] /\ LinkOK(link[q]) /\ Told(link[q], broker, q)
        BY <2>2 DEF CarrierInv
      <3>2. Told(link[q], broker', q)
        BY <3>1, <2>2 DEF Told
      <3> QED
        BY <3>1, <3>2
    <2> QED
      BY <2>1, <2>2
  <1> QED
    BY <1>1, <1>2 DEF CarrierInv

LEMMA RefusedStep ==
  ASSUME CarrierInv, NEW p \in Process, Refused(p)
  PROVE  CarrierInv'
  <1> DEFINE l == [link[p] EXCEPT !.denied = TRUE, !.timers = @ \union {"reopen"}]
  <1>1. link[p] \in Link /\ LinkOK(link[p]) /\ Told(link[p], broker, p)
    BY DEF CarrierInv
  <1>2. l \in Link
    BY <1>1 DEF Link
  <1>4. /\ l.denied /\ l.timers = link[p].timers \union {"reopen"}
        /\ l.life = link[p].life /\ l.handlers = link[p].handlers /\ l.sock = link[p].sock /\ l.asking = link[p].asking /\ l.got = link[p].got
        /\ l.ready = link[p].ready /\ l.leaving = link[p].leaving /\ l.late = link[p].late
    BY <1>1 DEF Link
  <1>5. link[p].sock = "open" /\ link[p].life # "off"
    BY <1>1 DEF Refused, LinkOK, NoLink
  <1>3. link' = [link EXCEPT ![p] = l] /\ UNCHANGED <<broker, breaker, signals>>
    BY DEF Refused
  <1> HIDE DEF l
  <1>6. LinkOK(l) /\ Told(l, broker, p)
    BY <1>1, <1>4, <1>5 DEF LinkOK, Told
  <1> QED
    BY <1>2, <1>3, <1>6, OneLink DEF CarrierInv

LEMMA AsksShape ==
  ASSUME NEW l \in Link, NEW what \in {"info", "create", "consumer"}
  PROVE  LET a == Asks(l, what)
         IN  /\ a \in Link /\ a.asking = what /\ a.got # "yes" /\ a.life = l.life /\ a.handlers = l.handlers /\ a.sock = l.sock
             /\ a.denied = l.denied /\ a.timers = l.timers /\ a.ready = l.ready /\ a.leaving = l.leaving /\ a.late = l.late
  BY DEF Asks, Link

(* A connection of a process that runs asks again, or is as it was.        *)
LEMMA EnsuredShape ==
  ASSUME NEW l \in Link, NEW p \in Process, NEW b \in Broker, LinkOK(l), Told(l, b, p)
  PROVE  Ensured(l) \in Link /\ LinkOK(Ensured(l)) /\ Told(Ensured(l), b, p)
  <1>1. CASE Ensures(l)
    <2> DEFINE a == Asks(l, "info")
    <2>1. /\ a \in Link /\ a.asking = "info" /\ a.got # "yes" /\ a.life = l.life /\ a.handlers = l.handlers /\ a.sock = l.sock
          /\ a.denied = l.denied /\ a.timers = l.timers /\ a.ready = l.ready /\ a.leaving = l.leaving /\ a.late = l.late
      BY AsksShape
    <2>2. Ensured(l) = a /\ l.life = "up"
      BY <1>1 DEF Ensured, Ensures
    <2> HIDE DEF a
    <2> QED
      BY <2>1, <2>2 DEF LinkOK, Told
  <1>2. CASE ~Ensures(l)
    BY <1>2 DEF Ensured
  <1> QED
    BY <1>1, <1>2

LEMMA GoneShape ==
  ASSUME NEW l \in Link, NEW p \in Process, NEW b \in Broker, LinkOK(l), Told(l, b, p), l.life # "off"
  PROVE  Gone(l) \in Link /\ LinkOK(Gone(l)) /\ Told(Gone(l), b, p)
  <1> DEFINE a == Gone(l)
  <1>1. /\ a \in Link /\ a.sock = "none" /\ ~a.denied /\ a.timers = (l.timers \ {"reopen"}) \union {"reconnect"}
        /\ a.asking = l.asking /\ a.got = l.got /\ a.life = l.life /\ a.handlers = l.handlers
        /\ a.ready = l.ready /\ a.leaving = l.leaving /\ a.late = l.late
    BY DEF Gone, Link, Socket
  <1> HIDE DEF a
  <1>2. LinkOK(a) /\ Told(a, b, p)
    BY <1>1 DEF LinkOK, Told
  <1> QED
    BY <1>1, <1>2 DEF a

LEMMA LinkFacts ==
  ASSUME CarrierInv, NEW p \in Process
  PROVE  /\ link[p] \in Link /\ LinkOK(link[p]) /\ Told(link[p], broker, p)
         /\ link[p].life = "off" => /\ link[p].sock = "none" /\ ~link[p].denied /\ link[p].timers = {} /\ link[p].asking = "none"
                                    /\ link[p].got = "lost" /\ link[p].chain = 0 /\ link[p].leaving = "no"
  BY DEF CarrierInv, LinkOK, NoLink

LEMMA GoneStep ==
  ASSUME CarrierInv, NEW p \in Process, HandshakeFails(p) \/ Close(p) \/ Reopen(p)
  PROVE  CarrierInv'
  <1>1. link[p].life # "off"
    BY LinkFacts DEF HandshakeFails, Close, Reopen, Has
  <1>2. link' = [link EXCEPT ![p] = Gone(link[p])] /\ UNCHANGED <<broker, breaker, signals>>
    BY DEF HandshakeFails, Close, Reopen, CarrierInv
  <1>3. broker \in Broker
    BY DEF CarrierInv
  <1>4. Gone(link[p]) \in Link /\ LinkOK(Gone(link[p])) /\ Told(Gone(link[p]), broker, p)
    BY <1>1, <1>3, LinkFacts, GoneShape
  <1> QED
    BY <1>2, <1>3, <1>4, OneLink DEF CarrierInv

LEMMA ReconnectStep ==
  ASSUME CarrierInv, NEW p \in Process, Reconnect(p)
  PROVE  CarrierInv'
  <1> DEFINE l == [link[p] EXCEPT !.sock = "connecting", !.timers = @ \ {"reconnect"}]
  <1>1. /\ l \in Link /\ l.sock = "connecting" /\ l.timers = link[p].timers \ {"reconnect"}
        /\ l.life = link[p].life /\ l.handlers = link[p].handlers /\ l.asking = link[p].asking /\ l.got = link[p].got /\ l.denied = link[p].denied
        /\ l.ready = link[p].ready /\ l.leaving = link[p].leaving /\ l.late = link[p].late
    BY LinkFacts, ZenonT(60) DEF Link, Socket
  <1>2. link' = [link EXCEPT ![p] = l] /\ UNCHANGED <<broker, breaker, signals>> /\ "reconnect" \in link[p].timers
    BY DEF Reconnect, Has
  <1> HIDE DEF l
  <1>3. LinkOK(l) /\ Told(l, broker, p)
    BY <1>1, <1>2, LinkFacts DEF LinkOK, Told
  <1> QED
    BY <1>1, <1>2, <1>3, OneLink DEF CarrierInv

LEMMA HandshakeStep ==
  ASSUME CarrierInv, NEW p \in Process, Handshake(p)
  PROVE  CarrierInv'
  <1> DEFINE l == [link[p] EXCEPT !.sock = "open", !.denied = ~broker.allows, !.ready = ReadyAfresh(link[p]),
                       !.timers = IF broker.allows THEN @ ELSE @ \union {"reopen"}]
  <1>1. broker \in Broker
    BY DEF CarrierInv
  <1>2. l \in Link
    <2> DEFINE d == ~broker.allows
               tm == IF broker.allows THEN link[p].timers ELSE link[p].timers \union {"reopen"}
    <2>1. d \in BOOLEAN /\ tm \in SUBSET {"reconnect", "reopen", "retry"}
      BY LinkFacts DEF Link
    <2> DEFINE open == [link[p] EXCEPT !.sock = "open", !.denied = d]
    <2>2. l = [open EXCEPT !.ready = FALSE, !.timers = tm]
      BY LinkFacts DEF ReadyAfresh, Link
    <2>3. open \in Link
      <3> HIDE DEF d
      <3> QED
        BY <2>1, LinkFacts, ZenonT(60) DEF Link, Socket
    <2> HIDE DEF d, tm, l, open
    <2> QED
      BY <2>1, <2>2, <2>3 DEF Link
  <1>3. /\ l.sock = "open" /\ l.denied = ~broker.allows /\ ~l.ready
        /\ l.timers = IF broker.allows THEN link[p].timers ELSE link[p].timers \union {"reopen"}
        /\ l.life = link[p].life /\ l.handlers = link[p].handlers /\ l.asking = link[p].asking /\ l.got = link[p].got
        /\ l.leaving = link[p].leaving /\ l.late = link[p].late
    BY LinkFacts DEF Link, ReadyAfresh
  <1>4. link' = [link EXCEPT ![p] = Ensured(l)] /\ UNCHANGED <<broker, breaker, signals>> /\ link[p].sock = "connecting"
    BY DEF Handshake
  <1> HIDE DEF l
  <1>5. LinkOK(l) /\ Told(l, broker, p)
    <2>1. broker.allows \in BOOLEAN /\ link[p].denied = FALSE /\ "reopen" \notin link[p].timers /\ link[p].life # "off"
      BY <1>1, <1>4, LinkFacts DEF LinkOK, Broker, Link
    <2>2. /\ l.life # "off" => (l.sock = "none" <=> "reconnect" \in l.timers)
          /\ l.denied <=> "reopen" \in l.timers
      <3>1. "reconnect" \notin link[p].timers
        BY <1>4, <2>1, LinkFacts DEF LinkOK
      <3>2. CASE broker.allows
        <4>1. l.timers = link[p].timers /\ l.denied = FALSE /\ l.sock = "open"
          BY <1>3, <3>2
        <4> QED
          BY <2>1, <3>1, <4>1
      <3>3. CASE ~broker.allows
        <4>1. l.timers = link[p].timers \union {"reopen"} /\ l.denied = TRUE /\ l.sock = "open"
          BY <1>3, <3>3
        <4> QED
          BY <2>1, <3>1, <4>1
      <3> QED
        BY <3>2, <3>3
    <2> QED
      BY <1>3, <1>4, <2>1, <2>2, LinkFacts DEF LinkOK, Told
  <1>6. Ensured(l) \in Link /\ LinkOK(Ensured(l)) /\ Told(Ensured(l), broker, p)
    BY <1>1, <1>2, <1>5, EnsuredShape
  <1> QED
    BY <1>1, <1>4, <1>6, OneLink DEF CarrierInv

LEMMA ServeStep ==
  ASSUME CarrierInv, NEW p \in Process, Serve(p)
  PROVE  CarrierInv'
  <1> DEFINE asked == link[p].asking
             yes == asked = "create" \/ broker.stream
             l == [link[p] EXCEPT !.got = IF yes THEN "yes" ELSE "no"]
             b == [broker EXCEPT !.stream = @ \/ asked = "create",
                                 !.consumer = IF asked = "consumer" /\ yes THEN @ \union {p} ELSE @]
  <1>1. broker \in Broker /\ broker.stream \in BOOLEAN
    BY DEF CarrierInv, Broker
  <1>2. /\ l \in Link /\ l.got = (IF yes THEN "yes" ELSE "no") /\ l.asking = asked /\ l.sock = link[p].sock
        /\ l.denied = link[p].denied /\ l.timers = link[p].timers /\ l.life = link[p].life /\ l.handlers = link[p].handlers
        /\ l.ready = link[p].ready /\ l.leaving = link[p].leaving /\ l.late = link[p].late
    BY LinkFacts DEF Link
  <1>3. /\ b.stream = (broker.stream \/ asked = "create")
        /\ b.consumer = IF asked = "consumer" /\ yes THEN broker.consumer \union {p} ELSE broker.consumer
        /\ b \in Broker
    <2> DEFINE s == broker.stream \/ asked = "create"
               c == IF asked = "consumer" /\ yes THEN broker.consumer \union {p} ELSE broker.consumer
    <2>1. s \in BOOLEAN /\ c \in SUBSET Process
      BY <1>1 DEF Broker
    <2>2. b = [broker EXCEPT !.stream = s, !.consumer = c]
      OBVIOUS
    <2>3. b.stream = s /\ b.consumer = c /\ b \in Broker
      <3> HIDE DEF s, c, b
      <3> QED
        BY <1>1, <2>1, <2>2 DEF Broker
    <2> QED
      BY <2>3
  <1>4. /\ link' = [link EXCEPT ![p].got = IF yes THEN "yes" ELSE "no"] /\ broker' = b
        /\ UNCHANGED <<breaker, signals>> /\ asked # "none"
    BY DEF Serve
  <1>5. link' = [link EXCEPT ![p] = l]
    BY <1>4 DEF CarrierInv
  <1>6. link[p].life \in {"draining", "deleting"} => link[p].late
    BY <1>4, LinkFacts DEF LinkOK
  <1> HIDE DEF l, b
  <1>7. LinkOK(l)
    BY <1>2, <1>4, LinkFacts DEF LinkOK
  <1>8. Told(l, b, p)
    <2>1. asked = "consumer" /\ yes => p \in b.consumer
      BY <1>3
    <2>2. yes => b.stream
      BY <1>3
    <2>3. l.leaving = "served" => l.late
      BY <1>2, <1>6, LinkFacts DEF LinkOK
    <2>4. l.life = "up" /\ l.sock = "open" /\ l.ready => b.stream /\ (l.handlers => p \in b.consumer)
      BY <1>2, <1>3, LinkFacts, ZenonT(60) DEF Told
    <2> QED
      BY <1>2, <2>1, <2>2, <2>3, <2>4 DEF Told
  <1>9. (broker.stream => b.stream) /\ \A q \in Process \ {p} : q \in b.consumer <=> q \in broker.consumer
    BY <1>3
  <1> HIDE DEF asked, yes
  <1> QED
    BY <1>2, <1>3, <1>4, <1>5, <1>7, <1>8, <1>9, OneLink DEF CarrierInv

LEMMA AnswerStep ==
  ASSUME CarrierInv, NEW p \in Process, Answer(p)
  PROVE  CarrierInv'
  <1> DEFINE l == Answered(link[p])
  <1>1. broker \in Broker /\ link' = [link EXCEPT ![p] = l] /\ UNCHANGED <<broker, breaker, signals>>
    BY DEF CarrierInv, Answer
  <1>2. link[p].life # "off"
    BY LinkFacts DEF Answer
  <1>3. l \in Link /\ LinkOK(l) /\ Told(l, broker, p)
    <2>1. ASSUME NEW what \in {"create", "consumer"}, l = Asks(link[p], what)
          PROVE  l \in Link /\ LinkOK(l) /\ Told(l, broker, p)
      <3>1. /\ l \in Link /\ l.asking = what /\ l.got # "yes" /\ l.life = link[p].life /\ l.handlers = link[p].handlers /\ l.sock = link[p].sock
            /\ l.denied = link[p].denied /\ l.timers = link[p].timers /\ l.ready = link[p].ready
            /\ l.leaving = link[p].leaving /\ l.late = link[p].late
        BY <2>1, LinkFacts, AsksShape
      <3>2. link[p].life \in {"draining", "deleting"} => link[p].late
        BY LinkFacts DEF LinkOK, Answer
      <3> HIDE DEF l
      <3> QED
        BY <3>1, <3>2, <1>2, LinkFacts DEF LinkOK, Told
    <2>2. CASE link[p].asking = "info" /\ link[p].got = "no"
      <3>1. l = Asks(link[p], "create")
        BY <2>2 DEF Answered
      <3> HIDE DEF l
      <3> QED
        BY <2>1, <3>1
    <2>3. CASE link[p].got = "yes" /\ AsksConsumer(link[p])
      <3>1. l = Asks(link[p], "consumer")
        BY <2>3 DEF Answered
      <3> HIDE DEF l
      <3> QED
        BY <2>1, <3>1
    <2>4. CASE link[p].got = "yes" /\ ~AsksConsumer(link[p])
      <3>1. l = [link[p] EXCEPT !.asking = "none", !.ready = TRUE]
        BY <2>4 DEF Answered
      <3>2. /\ l \in Link /\ l.asking = "none" /\ l.ready /\ l.got = link[p].got /\ l.life = link[p].life
            /\ l.handlers = link[p].handlers /\ l.sock = link[p].sock /\ l.denied = link[p].denied
            /\ l.timers = link[p].timers /\ l.leaving = link[p].leaving /\ l.late = link[p].late
        <4> HIDE DEF l
        <4>1. link[p] \in Link
          BY LinkFacts
        <4>2. l \in Link
          BY <3>1, <4>1 DEF Link
        <4>3. l.asking = "none" /\ l.ready /\ l.got = link[p].got /\ l.life = link[p].life
          BY <3>1, <4>1 DEF Link
        <4>4. /\ l.handlers = link[p].handlers /\ l.sock = link[p].sock /\ l.denied = link[p].denied
              /\ l.timers = link[p].timers /\ l.leaving = link[p].leaving /\ l.late = link[p].late
          BY <3>1, <4>1 DEF Link
        <4> QED
          BY <4>2, <4>3, <4>4
      <3>3. link[p].asking = "consumer" \/ ~link[p].handlers
        BY <2>4 DEF AsksConsumer
      <3>4. link[p].life = "up" => broker.stream /\ (link[p].handlers => p \in broker.consumer)
        <4>1. Told(link[p], broker, p) /\ link[p].asking # "none"
          BY LinkFacts DEF Answer
        <4> QED
          BY <2>4, <3>3, <4>1 DEF Told
      <3> HIDE DEF l
      <3>5. LinkOK(l)
        BY <3>2, <1>2, LinkFacts DEF LinkOK
      <3>6. Told(l, broker, p)
        <4>1. Told(link[p], broker, p)
          BY LinkFacts
        <4> QED
          BY <3>2, <3>4, <4>1 DEF Told
      <3> QED
        BY <3>2, <3>5, <3>6
    <2> QED
      BY <2>2, <2>3, <2>4, LinkFacts DEF Answer, Link
  <1> HIDE DEF l
  <1> QED
    BY <1>1, <1>3, OneLink DEF CarrierInv

LEMMA EnsureFailsStep ==
  ASSUME CarrierInv, NEW p \in Process, EnsureFails(p)
  PROVE  CarrierInv'
  <1> DEFINE l == [link[p] EXCEPT !.asking = "none", !.ready = FALSE, !.timers = @ \union Retries(link[p])]
  <1>1. /\ l \in Link /\ l.asking = "none" /\ ~l.ready /\ l.timers = link[p].timers \union Retries(link[p])
        /\ l.life = link[p].life /\ l.handlers = link[p].handlers /\ l.sock = link[p].sock
        /\ l.got = link[p].got /\ l.denied = link[p].denied
        /\ l.leaving = link[p].leaving /\ l.late = link[p].late
    <2>1. Retries(link[p]) \in SUBSET {"retry"} /\ link[p] \in Link
      BY LinkFacts DEF Retries
    <2> DEFINE tm == link[p].timers \union Retries(link[p])
    <2>2. tm \in SUBSET {"reconnect", "reopen", "retry"}
      BY <2>1 DEF Link
    <2>3. l = [link[p] EXCEPT !.asking = "none", !.ready = FALSE, !.timers = tm]
      OBVIOUS
    <2> HIDE DEF tm, l
    <2>4. l \in Link
      BY <2>1, <2>2, <2>3 DEF Link
    <2>5. l.asking = "none" /\ ~l.ready /\ l.timers = tm
      BY <2>1, <2>3 DEF Link
    <2>6. /\ l.life = link[p].life /\ l.handlers = link[p].handlers /\ l.sock = link[p].sock
          /\ l.got = link[p].got /\ l.denied = link[p].denied
          /\ l.leaving = link[p].leaving /\ l.late = link[p].late
      BY <2>1, <2>3 DEF Link
    <2> QED
      BY <2>4, <2>5, <2>6 DEF tm
  <1>2. link' = [link EXCEPT ![p] = l] /\ UNCHANGED <<broker, breaker, signals>> /\ link[p].asking # "none"
    BY DEF EnsureFails
  <1>3. "reopen" \notin Retries(link[p]) /\ "reconnect" \notin Retries(link[p]) /\ link[p].life # "off"
    BY <1>2, LinkFacts DEF Retries
  <1> HIDE DEF l
  <1>4. LinkOK(l) /\ Told(l, broker, p)
    BY <1>1, <1>3, LinkFacts DEF LinkOK, Told
  <1> QED
    BY <1>1, <1>2, <1>4, OneLink DEF CarrierInv

LEMMA RetryStep ==
  ASSUME CarrierInv, NEW p \in Process, Retry(p)
  PROVE  CarrierInv'
  <1> DEFINE l == [link[p] EXCEPT !.timers = @ \ {"retry"}]
             n == IF Connects(p) THEN Ensured(l) ELSE l
  <1>1. /\ l \in Link /\ l.timers = link[p].timers \ {"retry"} /\ l.asking = link[p].asking /\ l.ready = link[p].ready
        /\ l.life = link[p].life /\ l.handlers = link[p].handlers /\ l.sock = link[p].sock
        /\ l.got = link[p].got /\ l.denied = link[p].denied
        /\ l.leaving = link[p].leaving /\ l.late = link[p].late
    BY LinkFacts DEF Link
  <1>2. link' = [link EXCEPT ![p] = n] /\ UNCHANGED <<broker, breaker, signals>> /\ link[p].life # "off"
    BY LinkFacts DEF Retry, Has
  <1>3. broker \in Broker
    BY DEF CarrierInv
  <1> HIDE DEF l
  <1>4. LinkOK(l) /\ Told(l, broker, p)
    BY <1>1, <1>2, LinkFacts DEF LinkOK, Told
  <1>5. n \in Link /\ LinkOK(n) /\ Told(n, broker, p)
    BY <1>1, <1>3, <1>4, EnsuredShape
  <1> HIDE DEF n
  <1> QED
    BY <1>2, <1>3, <1>5, OneLink DEF CarrierInv

LEMMA BrokerFailsStep ==
  ASSUME CarrierInv, BrokerFails
  PROVE  CarrierInv'
  <1> DEFINE l(p) == [link[p] EXCEPT !.sock = IF @ = "open" THEN "cut" ELSE @, !.got = "lost",
                          !.leaving = IF @ = "no" THEN "no" ELSE "lost"]
  <1>1. link' = [p \in Process |-> l(p)] /\ UNCHANGED <<breaker, signals>>
    BY DEF BrokerFails
  <1>2. broker' \in Broker
    BY DEF BrokerFails, CarrierInv, Broker
  <1>3. ASSUME NEW p \in Process
        PROVE  l(p) \in Link /\ LinkOK(l(p)) /\ Told(l(p), broker', p)
    <2> DEFINE s == IF link[p].sock = "open" THEN "cut" ELSE link[p].sock
               v == IF link[p].leaving = "no" THEN "no" ELSE "lost"
    <2>1. s \in Socket /\ v \in {"no", "lost"}
      BY LinkFacts DEF Link, Socket
    <2> DEFINE cut == [link[p] EXCEPT !.sock = s]
    <2>2. l(p) = [cut EXCEPT !.got = "lost", !.leaving = v]
      BY LinkFacts DEF Link
    <2>9. /\ cut \in Link /\ cut.sock = s /\ cut.life = link[p].life
          /\ cut.asking = link[p].asking /\ cut.denied = link[p].denied /\ cut.timers = link[p].timers
          /\ cut.ready = link[p].ready /\ cut.late = link[p].late /\ cut.chain = link[p].chain
      <3> HIDE DEF s
      <3>1. link[p] \in Link
        BY LinkFacts
      <3>2. cut \in Link
        BY <2>1, <3>1 DEF Link
      <3>3. cut.sock = s /\ cut.life = link[p].life /\ cut.asking = link[p].asking /\ cut.denied = link[p].denied
        BY <3>1 DEF Link
      <3>4. cut.timers = link[p].timers /\ cut.ready = link[p].ready /\ cut.late = link[p].late /\ cut.chain = link[p].chain
        BY <3>1 DEF Link
      <3> QED
        BY <3>2, <3>3, <3>4
    <2>3. /\ l(p) \in Link /\ l(p).sock = s /\ l(p).got = "lost" /\ l(p).leaving = v /\ l(p).life = link[p].life
          /\ l(p).asking = link[p].asking /\ l(p).denied = link[p].denied /\ l(p).timers = link[p].timers
          /\ l(p).ready = link[p].ready /\ l(p).late = link[p].late /\ l(p).chain = link[p].chain
      <3> HIDE DEF s, v, l, cut
      <3>1. v \in {"no", "sent", "served", "lost"}
        BY <2>1
      <3>2. l(p) \in Link
        BY <2>2, <2>9, <3>1 DEF Link
      <3>3. l(p).sock = cut.sock /\ l(p).got = "lost" /\ l(p).leaving = v /\ l(p).life = cut.life
        BY <2>2, <2>9 DEF Link
      <3>4. l(p).asking = cut.asking /\ l(p).denied = cut.denied /\ l(p).timers = cut.timers
        BY <2>2, <2>9 DEF Link
      <3>5. l(p).ready = cut.ready /\ l(p).late = cut.late /\ l(p).chain = cut.chain
        BY <2>2, <2>9 DEF Link
      <3> QED
        BY <2>9, <3>2, <3>3, <3>4, <3>5
    <2>4. s # "open" /\ (s = "none" <=> link[p].sock = "none") /\ (link[p].sock \in {"open", "cut"} <=> s = "cut")
      OBVIOUS
    <2>5. link[p].life = "off" => l(p) = NoLink
      <3> SUFFICES ASSUME link[p].life = "off" PROVE l(p) = NoLink
        OBVIOUS
      <3>1. link[p] = NoLink
        BY LinkFacts DEF LinkOK
      <3>2. s = NoLink.sock /\ v = NoLink.leaving /\ NoLink.got = "lost"
        BY <3>1 DEF NoLink
      <3>3. cut = NoLink
        BY <3>1, <3>2 DEF NoLink
      <3> HIDE DEF s, v, cut, l
      <3> QED
        BY <2>2, <3>2, <3>3 DEF NoLink
    <2>6. LinkOK(l(p))
      <3>1. v # "no" => link[p].leaving # "no"
        OBVIOUS
      <3> HIDE DEF s, v, l
      <3>2. l(p).life # "off" => (l(p).sock = "none" <=> "reconnect" \in l(p).timers)
        BY <2>3, <2>4, LinkFacts DEF LinkOK
      <3>3. /\ l(p).denied <=> "reopen" \in l(p).timers
            /\ l(p).denied => l(p).sock \in {"open", "cut"}
        BY <2>3, <2>4, LinkFacts DEF LinkOK
      <3> QED
        BY <2>3, <2>5, <3>1, <3>2, <3>3, LinkFacts DEF LinkOK
    <2>8. Told(l(p), broker', p)
      <3> HIDE DEF s, v, l
      <3> QED
        BY <2>1, <2>3, <2>4 DEF Told
    <2> QED
      BY <2>3, <2>6, <2>8
  <1> HIDE DEF l
  <1> QED
    BY <1>1, <1>2, <1>3 DEF CarrierInv

LEMMA BrokerStep ==
  ASSUME CarrierInv, BrokerStarts \/ \E b \in BOOLEAN : BrokerAllows(b)
  PROVE  CarrierInv'
  <1>1. /\ UNCHANGED <<link, breaker, signals>> /\ broker' \in Broker
        /\ broker'.stream = broker.stream /\ broker'.consumer = broker.consumer
    BY DEF BrokerStarts, BrokerAllows, CarrierInv, Broker
  <1>2. \A p \in Process : Told(link[p], broker', p)
    BY <1>1 DEF CarrierInv, Told
  <1> QED
    BY <1>1, <1>2 DEF CarrierInv

(* Only its consumer is removed, which nobody relies on.                   *)
LEMMA BrokerForgetsStep ==
  ASSUME CarrierInv, NEW p \in Process, BrokerForgets(p)
  PROVE  CarrierInv'
  <1>1. /\ link' = [link EXCEPT ![p] = link[p]] /\ UNCHANGED <<breaker, signals>> /\ broker' \in Broker
        /\ broker'.stream = broker.stream /\ broker'.consumer = broker.consumer \ {p}
    BY DEF BrokerForgets, CarrierInv, Broker
  <1>2. Told(link[p], broker', p)
    BY <1>1, LinkFacts DEF BrokerForgets, Told
  <1> QED
    BY <1>1, <1>2, LinkFacts, OneLink DEF CarrierInv

LEMMA StartStep ==
  ASSUME CarrierInv, NEW p \in Process, Start(p)
  PROVE  CarrierInv'
  <1>6. PICK consumes \in BOOLEAN :
           link' = [link EXCEPT ![p] = [NoLink EXCEPT !.life = "up", !.handlers = consumes, !.sock = "connecting"]]
    BY DEF Start
  <1> DEFINE l == [NoLink EXCEPT !.life = "up", !.handlers = consumes, !.sock = "connecting"]
  <1>1. l \in Link /\ LinkOK(l)
    BY DEF NoLink, Link, Socket, LinkOK
  <1>2. \A b \in Broker : Told(l, b, p)
    BY DEF NoLink, Told
  <1>3. /\ link' = [link EXCEPT ![p] = l] /\ UNCHANGED signals /\ breaker' = [breaker EXCEPT ![p] = NoFailure]
        /\ broker' \in Broker /\ broker'.stream = broker.stream /\ broker'.consumer = broker.consumer \ {p}
    BY <1>6 DEF Start, CarrierInv, Broker
  <1>4. NoFailure \in Breaker
    BY CarrierBounds DEF NoFailure, Breaker, Closed
  <1>5. breaker' \in [Process -> Breaker] /\ signals' \in [Process -> Nat]
    BY <1>3, <1>4 DEF CarrierInv
  <1> HIDE DEF l
  <1> QED
    BY <1>1, <1>2, <1>3, <1>5, OneLink

LEMMA MessageStep ==
  ASSUME CarrierInv, NEW p \in Process, Message(p) \/ Handle(p)
  PROVE  CarrierInv'
  <1>1. PICK n \in Nat : link' = [link EXCEPT ![p].chain = n] /\ UNCHANGED <<broker, breaker, signals>>
    BY LinkFacts DEF Message, Handle, Link
  <1> DEFINE l == [link[p] EXCEPT !.chain = n]
  <1>2. link[p].life # "off"
    BY LinkFacts DEF Message, Handle
  <1>3. link' = [link EXCEPT ![p] = l]
    BY <1>1 DEF CarrierInv
  <1>4. /\ l \in Link /\ l.timers = link[p].timers /\ l.asking = link[p].asking /\ l.ready = link[p].ready
        /\ l.life = link[p].life /\ l.handlers = link[p].handlers /\ l.sock = link[p].sock
        /\ l.got = link[p].got /\ l.denied = link[p].denied
        /\ l.leaving = link[p].leaving /\ l.late = link[p].late
    BY LinkFacts DEF Link
  <1> HIDE DEF l
  <1>5. LinkOK(l) /\ Told(l, broker, p)
    BY <1>2, <1>4, LinkFacts DEF LinkOK, Told
  <1> QED
    BY <1>1, <1>3, <1>4, <1>5, OneLink DEF CarrierInv

LEMMA StopStep1 ==
  ASSUME CarrierInv, NEW p \in Process, Stop(p)
  PROVE  CarrierInv'
  <1> DEFINE late == link[p].asking # "none"
             l == [link[p] EXCEPT !.life = "draining", !.timers = @ \ {"retry"}, !.late = late]
  <1>1. /\ l \in Link /\ l.life = "draining" /\ l.timers = link[p].timers \ {"retry"} /\ l.late = late
        /\ l.asking = link[p].asking /\ l.ready = link[p].ready /\ l.sock = link[p].sock /\ l.got = link[p].got
        /\ l.denied = link[p].denied /\ l.leaving = link[p].leaving
    <2>1. late \in BOOLEAN /\ link[p] \in Link
      BY LinkFacts
    <2> HIDE DEF late
    <2>2. l \in Link
      BY <2>1 DEF Link
    <2>3. l.life = "draining" /\ l.timers = link[p].timers \ {"retry"} /\ l.late = late
      BY <2>1 DEF Link
    <2>4. /\ l.asking = link[p].asking /\ l.ready = link[p].ready /\ l.sock = link[p].sock /\ l.got = link[p].got
          /\ l.denied = link[p].denied /\ l.leaving = link[p].leaving
      BY <2>1 DEF Link
    <2> QED
      BY <2>2, <2>3, <2>4
  <1>2. link' = [link EXCEPT ![p] = l] /\ UNCHANGED <<broker, breaker, signals>> /\ link[p].life = "up"
    BY DEF Stop
  <1> HIDE DEF l
  <1>3. LinkOK(l) /\ Told(l, broker, p)
    BY <1>1, <1>2, LinkFacts, ZenonT(60) DEF LinkOK, Told
  <1> QED
    BY <1>1, <1>2, <1>3, OneLink DEF CarrierInv

LEMMA DrainedStep ==
  ASSUME CarrierInv, NEW p \in Process, Drained(p)
  PROVE  CarrierInv'
  <1> DEFINE v == IF link[p].sock = "open" /\ link[p].handlers THEN "sent" ELSE "lost"
             l == [link[p] EXCEPT !.life = "deleting", !.leaving = v]
  <1>1. /\ l \in Link /\ l.life = "deleting" /\ l.leaving = v /\ v # "served" /\ l.late = link[p].late
        /\ l.asking = link[p].asking /\ l.ready = link[p].ready /\ l.sock = link[p].sock /\ l.got = link[p].got
        /\ l.denied = link[p].denied /\ l.timers = link[p].timers
    <2>1. v \in {"sent", "lost"} /\ link[p] \in Link
      BY LinkFacts
    <2> HIDE DEF v
    <2>2. l \in Link
      BY <2>1 DEF Link
    <2>3. l.life = "deleting" /\ l.leaving = v /\ v # "served"
      BY <2>1 DEF Link
    <2>4. /\ l.late = link[p].late
          /\ l.asking = link[p].asking /\ l.ready = link[p].ready /\ l.sock = link[p].sock /\ l.got = link[p].got
          /\ l.denied = link[p].denied /\ l.timers = link[p].timers
      BY <2>1 DEF Link
    <2> QED
      BY <2>2, <2>3, <2>4
  <1>2. link' = [link EXCEPT ![p] = l] /\ UNCHANGED <<broker, breaker, signals>> /\ link[p].life = "draining"
    BY DEF Drained
  <1> HIDE DEF l, v
  <1>3. LinkOK(l) /\ Told(l, broker, p)
    BY <1>1, <1>2, LinkFacts DEF LinkOK, Told
  <1> QED
    BY <1>1, <1>2, <1>3, OneLink DEF CarrierInv

LEMMA DeleteStep ==
  ASSUME CarrierInv, NEW p \in Process, Delete(p)
  PROVE  CarrierInv'
  <1> DEFINE l == [link[p] EXCEPT !.leaving = "served"]
  <1>1. /\ l \in Link /\ l.leaving = "served" /\ l.life = link[p].life /\ l.handlers = link[p].handlers /\ l.late = link[p].late
        /\ l.asking = link[p].asking /\ l.ready = link[p].ready /\ l.sock = link[p].sock /\ l.got = link[p].got
        /\ l.denied = link[p].denied /\ l.timers = link[p].timers
    BY LinkFacts DEF Link
  <1>2. /\ link' = [link EXCEPT ![p] = l] /\ UNCHANGED <<breaker, signals>> /\ link[p].leaving = "sent"
        /\ broker' \in Broker /\ broker'.stream = broker.stream /\ broker'.consumer = broker.consumer \ {p}
    BY DEF Delete, CarrierInv, Broker
  <1>3. link[p].life = "deleting"
    BY <1>2, LinkFacts DEF LinkOK
  <1> HIDE DEF l
  <1>4. LinkOK(l) /\ Told(l, broker', p)
    BY <1>1, <1>2, <1>3, LinkFacts DEF LinkOK, Told
  <1> QED
    BY <1>1, <1>2, <1>4, OneLink DEF CarrierInv

LEMMA EndStep ==
  ASSUME CarrierInv, NEW p \in Process, Quit(p) \/ Crash(p)
  PROVE  CarrierInv'
  <1>1. link' = [link EXCEPT ![p] = NoLink] /\ signals' = [signals EXCEPT ![p] = 0] /\ UNCHANGED <<broker, breaker>>
    BY DEF Quit, Crash
  <1>2. Told(NoLink, broker, p)
    BY DEF Told, NoLink
  <1> QED
    BY <1>1, <1>2, NoLinkShape, OneLink DEF CarrierInv

LEMMA LinkNextStep == CarrierInv /\ LinkNext => CarrierInv'
  <1> SUFFICES ASSUME CarrierInv, LinkNext PROVE CarrierInv'
    OBVIOUS
  <1>1. CASE BrokerFails
    BY <1>1, BrokerFailsStep
  <1>2. CASE BrokerStarts \/ \E b \in BOOLEAN : BrokerAllows(b)
    BY <1>2, BrokerStep
  <1>3. ASSUME NEW p \in Linked,
               \/ BrokerForgets(p) \/ Start(p) \/ Refused(p) \/ HandshakeFails(p)
               \/ ConnectStep(p) \/ EnsureStep(p) \/ Serve(p) \/ Answer(p)
               \/ Message(p) \/ StopStep(p) \/ Stop(p) \/ Crash(p)
        PROVE  CarrierInv'
    <2>1. p \in Process
      BY CarrierBounds
    <2>2. CASE BrokerForgets(p) \/ Start(p) \/ Refused(p) \/ HandshakeFails(p)
      BY <2>1, <2>2, BrokerForgetsStep, StartStep, RefusedStep, GoneStep
    <2>3. CASE ConnectStep(p)
      BY <2>1, <2>3, HandshakeStep, GoneStep, ReconnectStep DEF ConnectStep
    <2>4. CASE EnsureStep(p)
      BY <2>1, <2>4, RetryStep, EnsureFailsStep DEF EnsureStep
    <2>5. CASE Serve(p) \/ Answer(p) \/ Message(p)
      BY <2>1, <2>5, ServeStep, AnswerStep, MessageStep
    <2>6. CASE StopStep(p) \/ Stop(p) \/ Crash(p)
      BY <2>1, <2>6, DrainedStep, DeleteStep, EndStep, MessageStep, StopStep1 DEF StopStep
    <2> QED
      BY <1>3, <2>2, <2>3, <2>4, <2>5, <2>6
  <1> QED
    BY <1>1, <1>2, <1>3 DEF LinkNext

(* A signal that ends, and the tick of the breakers.                       *)
LEMMA SignalStep ==
  ASSUME CarrierInv, NEW p \in Process, NEW ok \in BOOLEAN, SignalEnds(p, ok)
  PROVE  CarrierInv'
  <1>1. breaker[p] \in Breaker /\ signals[p] \in Nat /\ signals[p] > 0
    BY DEF CarrierInv, SignalEnds
  <1>2. Recorded(breaker[p], ok) \in Breaker
    BY <1>1, CarrierBounds DEF Recorded, Breaker, NoFailure, Closed
  <1>3. signals' \in [Process -> Nat] /\ breaker' \in [Process -> Breaker] /\ UNCHANGED <<broker, link>>
    BY <1>1, <1>2 DEF SignalEnds, CarrierInv
  <1> QED
    BY <1>3 DEF CarrierInv

LEMMA BreakerTicksStep ==
  ASSUME CarrierInv, BreakerTicks
  PROVE  CarrierInv'
  <1>1. \A p \in Process : OpenLonger(breaker[p]) \in Breaker
    BY CarrierBounds DEF CarrierInv, OpenLonger, Breaker, Closed
  <1> QED
    BY <1>1 DEF BreakerTicks, CarrierInv

LEMMA CarrierStarts ==
  ASSUME plan \in Plan, CarrierInit
  PROVE  CarrierInv
  <1>1. plan.link \in BOOLEAN
    BY DEF Plan
  <1>2. broker \in Broker /\ breaker \in [Process -> Breaker] /\ signals \in [Process -> Nat]
    BY <1>1, CarrierBounds DEF CarrierInit, Broker, Breaker, NoFailure, Closed
  <1>3. Connected \in Link /\ LinkOK(Connected)
    BY DEF Connected, NoLink, Link, Socket, LinkOK
  <1>4. CASE plan.link
    <2>1. \A p \in Process : link[p] = NoLink /\ Told(NoLink, broker, p)
      BY <1>4 DEF CarrierInit, Told, NoLink
    <2> QED
      BY <1>2, <1>4, <2>1, NoLinkShape DEF CarrierInv, CarrierInit
  <1>5. CASE ~plan.link
    <2>1. broker.stream /\ broker.consumer = Process
      BY <1>5 DEF CarrierInit
    <2>2. \A p \in Process : link[p] = Connected /\ Told(Connected, broker, p)
      BY <1>5, <2>1 DEF CarrierInit, Told, Connected, NoLink
    <2> QED
      BY <1>2, <1>3, <1>5, <2>2 DEF CarrierInv, CarrierInit
  <1> QED
    BY <1>4, <1>5

LEMMA CarrierSafe == CarrierInv => CarriersSound
  <1> SUFFICES ASSUME CarrierInv PROVE CarriersSound
    OBVIOUS
  <1>1. CarrierTypeOK
    <2>1. ASSUME NEW p \in Process
          PROVE  /\ breaker[p].streak \in 0..OpenAfter /\ breaker[p].open \in Closed..HalfOpenAfter
                 /\ signals[p] \in Nat
      BY DEF CarrierInv, Breaker
    <2>2. ASSUME NEW p \in Process
          PROVE  /\ link[p].life \in {"off", "up", "draining", "deleting"}
                 /\ link[p].handlers \in BOOLEAN
                 /\ link[p].sock \in {"none", "connecting", "open", "cut"}
                 /\ link[p].timers \subseteq {"reconnect", "reopen", "retry"}
                 /\ link[p].asking \in {"none", "info", "create", "consumer"}
                 /\ link[p].got \in {"sent", "yes", "no", "lost"}
                 /\ link[p].leaving \in {"no", "sent", "served", "lost"}
      BY LinkFacts DEF Link, Socket
    <2>3. ASSUME NEW p \in Process
          PROVE  /\ link[p].life = "off" => link[p] = NoLink
                 /\ link[p].life # "off" => (link[p].sock = "none" <=> "reconnect" \in link[p].timers)
                 /\ link[p].denied <=> "reopen" \in link[p].timers
      BY LinkFacts DEF LinkOK
    <2>4. broker \in [up : BOOLEAN, allows : BOOLEAN, stream : BOOLEAN, consumer : SUBSET Process]
      BY DEF CarrierInv, Broker
    <2> QED
      BY <2>1, <2>2, <2>3, <2>4 DEF CarrierTypeOK
  <1>2. HealthyIsServed
    BY DEF CarrierInv, Told, HealthyIsServed, Healthy, Reachable
  <1> QED
    BY <1>1, <1>2 DEF CarriersSound

-----------------------------------------------------------------------------
(* The placements.  What the variables are made of.                        *)
Keys == {ValueAt[path] : path \in DOMAIN ValueAt} \union {Subject, NoKey}
Chosen == {"pg", "js"}
CacheRec == [rows : Table, at : Nat, ok : BOOLEAN, of : Nat, passed : BOOLEAN]
LoadRec == [by : Process, who : Who \union {"read"}, rows : Table, ok : BOOLEAN, of : Nat, passed : BOOLEAN]
Decision == [carrier : {"none"} \union Chosen, stored : BOOLEAN, place : Nat]
From == [of : Nat, ok : BOOLEAN, passed : BOOLEAN, own : Nat]
Resolves == [stage : {"resolve"}, by : Process, row : Nat, own : Nat]
Places == [stage : {"pin", "commit"}, by : Process, row : Nat, slot : Slot, carrier : Chosen, decision : Chosen,
           record : BOOLEAN, place : Nat, policy : Policy, from : From, stored : BOOLEAN, pinned : BOOLEAN, raced : BOOLEAN]
Row == [open : BOOLEAN, key : Keys, carrier : Chosen, slot : Slot, decision : Chosen, by : Process, place : Nat,
        policy : Policy, at : Nat, from : From, stored : BOOLEAN, apart : BOOLEAN]
PlacementRec == [slot : Slot, carrier : Chosen, by : Process, place : Nat]

Shape ==
    /\ plan \in Plan /\ now \in Nat /\ table \in Table /\ places \in Nat
    /\ cache \in [Process -> {NoCache} \union CacheRec]
    /\ loads \in SUBSET LoadRec
    /\ writing \in [Process -> Nat] /\ own \in [Process -> Nat]
    /\ decided \in [Process -> [Slot -> Decision]]
    /\ tx \in [Who -> {NoTx} \union Resolves \union Places]
    /\ rows \in Seq(Row)
    /\ placements \in SUBSET PlacementRec
    /\ past \in Seq([at : Nat, policy : Policy])

Placed(who) == tx[who].stage \in {"pin", "commit"}
Recording(who) == Placed(who) /\ tx[who].record

(* A process loads once at a time for a transaction, which waits for it.   *)
LoadsAwaited ==
    /\ \A l \in loads : l.who = "read" \/ Resolving(l.by, l.who)
    /\ \A l, m \in loads : l.by = m.by /\ l.who = m.who => l = m

(* The counters of what was placed and of the policies there were.         *)
Counted ==
    /\ \A p \in Process :
          /\ writing[p] \in 0..Len(past) /\ own[p] \in 1..Len(past)
          /\ writing[p] # 0 => own[p] <= writing[p]
          /\ cache[p] # NoCache => cache[p].at <= now
          /\ \A slot \in Slot :
                /\ decided[p][slot].carrier = "js" => slot[1] = "STREAM"
                /\ decided[p][slot].place <= places
    /\ \A who \in Who :
          /\ Placed(who) => tx[who].place \in 1..places
          /\ tx[who].stage # "none" => tx[who].row \in 0..Len(rows)
          /\ tx[who].stage = "resolve" => tx[who].own <= own[tx[who].by]
    /\ \A i \in DOMAIN rows : rows[i].place \in 1..places
    /\ \A d \in placements : d.place \in 1..places

(* What is known of the table is a policy that was in force then, and no   *)
(* older than the latest this process wrote.                               *)
InForce(h, n, policy, at, since) ==
    /\ n \in DOMAIN h /\ h[n].policy = policy /\ h[n].at <= at
    /\ n = Len(h) \/ h[n + 1].at >= since
Knows(h, known, wrote, at) ==
    known.ok => /\ InForce(h, known.of, BestMatch(known.rows), at, at)
                /\ known.passed \/ known.of >= wrote
PlacedBy(h, r, at) ==
    r.from.ok => /\ InForce(h, r.from.of, r.policy, at, at - Reload + 1)
                 /\ r.from.passed \/ r.from.of >= r.from.own
PoliciesKnown ==
    /\ past[Len(past)].policy = BestMatch(table)
    /\ \A n \in DOMAIN past : past[n].at <= now
    /\ \A p \in Process : cache[p] # NoCache => Knows(past, cache[p], own[p], cache[p].at)
    /\ \A l \in loads : Knows(past, l, own[l.by], now)
    /\ \A who \in Who : Placed(who) => PlacedBy(past, tx[who], now)
    /\ \A i \in DOMAIN rows : rows[i].at <= now /\ PlacedBy(past, rows[i], rows[i].at)

(* A delivery that is about to be put beside a backlog has its carrier,    *)
(* unless another was put beside it meanwhile.                             *)
PinHolds ==
    \A who \in Who : tx[who].stage = "commit" /\ ~tx[who].raced /\ tx[who].slot[2] # NoKey =>
       \A i \in Backlog(tx[who].slot[2]) : ~rows[i].apart /\ rows[i].carrier = tx[who].carrier

(* Each decision has a place of its own.                                   *)
PlacesApart ==
    /\ \A d, e \in placements : d.place = e.place => d = e
    /\ \A who \in Who : Placed(who) => \A d \in placements : d.place # tx[who].place
    /\ \A v, w \in Who : Placed(v) /\ Placed(w) /\ tx[v].place = tx[w].place => v = w

(* The places of the decisions of a process for a class and key that are   *)
(* recorded or about to be, of which none up to a place is later than at.  *)
Taken(recorded, under, by, slot) ==
    {e.place : e \in {d \in recorded : d.by = by /\ d.slot = slot}}
    \union {under[w].place : w \in {v \in Who : under[v].stage \in {"pin", "commit"} /\ under[v].record
                                                /\ under[v].by = by /\ under[v].slot = slot}}
LatestOf(taken, upto, at) == \A n \in taken : n <= upto => n <= at
ExplainedBy(recorded, under, r) ==
    \E d \in recorded :
       /\ d.by = r.by /\ d.slot = r.slot /\ d.carrier = r.decision /\ d.place <= r.place
       /\ LatestOf(Taken(recorded, under, r.by, r.slot), r.place, d.place)
Decisions ==
    /\ \A p \in Process, slot \in Slot :
          /\ decided[p][slot].carrier # "none" => LatestOf(Taken(placements, tx, p, slot), places, decided[p][slot].place)
          /\ decided[p][slot].stored =>
                [slot |-> slot, carrier |-> decided[p][slot].carrier, by |-> p, place |-> decided[p][slot].place] \in placements
    /\ \A who \in Who : Recording(who) /\ decided[tx[who].by][tx[who].slot].place = tx[who].place
                           => decided[tx[who].by][tx[who].slot].carrier = tx[who].decision
    /\ \A who \in Who : Placed(who) /\ tx[who].stored /\ ~tx[who].record => ExplainedBy(placements, tx, tx[who])
    /\ \A i \in DOMAIN rows : rows[i].stored => ExplainedBy(placements, tx, rows[i])

IInv ==
    /\ CarrierInv /\ Shape /\ LoadsAwaited /\ Counted /\ PoliciesKnown
    /\ PinHolds /\ OneCarrierPerBacklog /\ PlacesApart /\ Decisions

-----------------------------------------------------------------------------
(* Numbers, policies and plans.                                            *)

LEMMA SmallestOf ==
  ASSUME NEW S \in SUBSET Nat, S # {}
  PROVE  \E m \in S : \A n \in S : m <= n
  <1>1. PICK m \in S : \A n \in S : ~(<<n, m>> \in OpToRel(<, Nat))
    BY NatLessThanWellFounded, WFMin, Zenon
  <1>2. \A n \in S : m <= n
    <2> SUFFICES ASSUME NEW n \in S, ~(m <= n) PROVE FALSE
      OBVIOUS
    <2>1. n < m /\ n \in Nat /\ m \in Nat
      OBVIOUS
    <2> QED
      BY <1>1, <2>1 DEF OpToRel
  <1> QED
    BY <1>2

LEMMA LargestOf ==
  ASSUME NEW S \in SUBSET Nat, S # {}, NEW b \in Nat, \A n \in S : n <= b
  PROVE  \E m \in S : \A n \in S : n <= m
  <1> DEFINE T == {b - n : n \in S}
  <1>1. T \in SUBSET Nat
    <2> SUFFICES ASSUME NEW n \in S PROVE b - n \in Nat
      OBVIOUS
    <2>1. n \in Nat /\ n <= b
      OBVIOUS
    <2> QED
      BY <2>1
  <1>2. T # {}
    <2>1. PICK n \in S : TRUE
      OBVIOUS
    <2>2. b - n \in T
      OBVIOUS
    <2> QED
      BY <2>2
  <1>3. PICK k \in T : \A n \in T : k <= n
    <2> HIDE DEF T
    <2> QED
      BY <1>1, <1>2, SmallestOf
  <1>4. PICK m \in S : k = b - m
    OBVIOUS
  <1>5. ASSUME NEW n \in S PROVE n <= m
    <2>1. b - n \in T
      OBVIOUS
    <2>2. b - m <= b - n
      BY <1>3, <1>4, <2>1
    <2>3. n \in Nat /\ m \in Nat
      OBVIOUS
    <2> HIDE DEF T
    <2> QED
      BY <2>2, <2>3
  <1> QED
    BY <1>5

LEMMA FirstIn ==
  ASSUME NEW S \in SUBSET Nat, S # {}
  PROVE  First(S) \in S
  BY SmallestOf DEF First

(* The policy of a type is that of a pattern, or the default.              *)
LEMMA BestMatchShape ==
  ASSUME NEW t \in Table
  PROVE  BestMatch(t) \in Policy
  <1> DEFINE some == {i \in DOMAIN t : t[i] # NoPolicy}
  <1>1. CASE some = {}
    BY <1>1 DEF BestMatch, Default, Policy
  <1>2. CASE some # {}
    <2>1. DOMAIN t = 1..Patterns /\ Patterns \in Nat
      BY PlacementBounds DEF Table
    <2>2. some \in SUBSET Nat /\ \A i \in some : i <= Patterns
      BY <2>1
    <2>3. \E m \in some : \A n \in some : n <= m
      <3> HIDE DEF some
      <3> QED
        BY <1>2, <2>1, <2>2, LargestOf
    <2> DEFINE m == CHOOSE i \in some : \A j \in some : j <= i
    <2>4. m \in some
      BY <2>3
    <2>5. BestMatch(t) = t[m]
      BY <1>2 DEF BestMatch
    <2>6. t[m] # NoPolicy /\ t[m] \in Policy \union {NoPolicy}
      BY <2>1, <2>4 DEF Table
    <2> QED
      BY <2>5, <2>6
  <1> QED
    BY <1>1, <1>2

LEMMA SlotShape ==
  ASSUME NEW policy \in Policy
  PROVE  <<CarrierClass(policy), OrderingKey(policy)>> \in Slot
  <1>1. CarrierClass(policy) \in {"QUEUE", "STREAM", "TOPIC"}
    BY DEF CarrierClass
  <1>2. OrderingKey(policy) \in {ValueAt[path] : path \in DOMAIN ValueAt} \union {Subject, NoKey}
    <2>1. policy.ordering \in DOMAIN ValueAt \union {NoKey}
      BY DEF Policy
    <2>2. CASE policy.ordering = NoKey
      BY <2>2 DEF OrderingKey
    <2>3. CASE policy.ordering # NoKey /\ ValueAt[policy.ordering] = Missing
      BY <2>3 DEF OrderingKey
    <2>4. CASE policy.ordering # NoKey /\ ValueAt[policy.ordering] # Missing
      BY <2>1, <2>4 DEF OrderingKey
    <2> QED
      BY <2>2, <2>3, <2>4
  <1> QED
    BY <1>1, <1>2 DEF Slot

LEMMA SlotParts ==
  ASSUME NEW slot \in Slot
  PROVE  slot[1] \in {"QUEUE", "STREAM", "TOPIC"} /\ slot[2] \in Keys
  BY DEF Slot, Keys

Counts == {"fails", "rollbacks", "evictions", "timers", "settles", "outcomes", "ticks"}

LEMMA SpendShape ==
  ASSUME plan \in Plan, NEW what \in Counts, Spend(what)
  PROVE  plan' \in Plan
  <1>1. plan[what] \in Nat /\ plan[what] > 0
    BY DEF Plan, Counts, Spend
  <1>2. plan[what] - 1 \in Nat
    BY <1>1
  <1> QED
    BY <1>2 DEF Plan, Counts, Spend

LEMMA FollowShape ==
  ASSUME plan \in Plan, NEW what \in {"reads", "publish", "replay", "writes"}, NEW next, Follow(what, next)
  PROVE  plan' \in Plan /\ (what = "writes" => next \in Process \X (1..Patterns) \X (Policy \union {NoPolicy}))
  <1> DEFINE V == Process \X (1..Patterns) \X (Policy \union {NoPolicy})
             T == Tail(plan[what])
  <1>1. CASE what = "writes"
    <2>1. plan.writes \in Seq(V) /\ plan.writes # <<>>
      BY <1>1 DEF Plan, Follow
    <2>2. T \in Seq(V) /\ Head(plan.writes) \in V
      <3> HIDE DEF V
      <3> QED
        BY <1>1, <2>1
    <2> HIDE DEF T
    <2>3. plan' = [plan EXCEPT !.writes = T]
      BY <1>1 DEF Follow, T
    <2> QED
      BY <1>1, <2>2, <2>3 DEF Plan, Follow
  <1>2. CASE what # "writes"
    <2>1. plan[what] \in Seq(Process) /\ plan[what] # <<>>
      BY <1>2 DEF Plan, Follow
    <2>2. T \in Seq(Process)
      BY <2>1
    <2>3. plan' = [plan EXCEPT ![what] = T]
      BY DEF Follow
    <2> HIDE DEF T
    <2> QED
      BY <1>2, <2>2, <2>3 DEF Plan
  <1> QED
    BY <1>1, <1>2

(* A row and a transaction in progress, from their parts.                  *)
LEMMA RowFacts ==
  ASSUME Shape, NEW i \in DOMAIN rows
  PROVE  rows[i] \in Row /\ i \in 1..Len(rows) /\ Len(rows) \in Nat
  BY DEF Shape

LEMMA TxKinds ==
  ASSUME Shape, NEW who \in Who
  PROVE  /\ tx[who] \in {NoTx} \union Resolves \union Places
         /\ tx[who].stage \in {"none", "resolve", "pin", "commit"}
         /\ tx[who].stage = "none" <=> tx[who] = NoTx
         /\ tx[who].stage = "resolve" => tx[who] \in Resolves
         /\ Placed(who) => tx[who] \in Places
  BY DEF Shape, NoTx, Resolves, Places, Placed

(* place: the decision and the transaction that has it.                    *)
PlacedTx(p, who, c, carrier) ==
    LET policy == BestMatch(c.rows)
        slot == <<CarrierClass(policy), OrderingKey(policy)>>
        had == decided[p][slot]
    IN  [stage |-> "pin", by |-> p, row |-> tx[who].row, slot |-> slot,
         carrier |-> carrier, decision |-> carrier, record |-> Changes(had, carrier), place |-> places + 1,
         policy |-> policy, from |-> [of |-> c.of, ok |-> c.ok, passed |-> c.passed, own |-> tx[who].own],
         stored |-> had.stored \/ had.carrier # carrier, pinned |-> FALSE, raced |-> FALSE]

PlacesBy(p, who, c, x, y) ==
    /\ y.stage = "pin" /\ y.by = p /\ y.row = tx[who].row /\ y.slot \in Slot
    /\ y.decision = x /\ y.carrier = x /\ (x = "js" => y.slot[1] = "STREAM")
    /\ y.record = (decided[p][y.slot].carrier # x)
    /\ y.stored = (decided[p][y.slot].stored \/ decided[p][y.slot].carrier # x)
    /\ y.place = places + 1 /\ y.policy = BestMatch(c.rows)
    /\ y.from = [of |-> c.of, ok |-> c.ok, passed |-> c.passed, own |-> tx[who].own]
    /\ places' = places + 1 /\ tx' = [tx EXCEPT ![who] = y]
    /\ decided' = [decided EXCEPT ![p][y.slot] =
          IF decided[p][y.slot].carrier # x THEN [carrier |-> x, stored |-> FALSE, place |-> places + 1]
          ELSE decided[p][y.slot]]

LEMMA PlaceMeans ==
  ASSUME Shape, NEW p \in Process, NEW who \in Who, Resolving(p, who), NEW c \in CacheRec, Place(p, who, c)
  PROVE  \E carrier \in Chosen, t \in Places : PlacesBy(p, who, c, carrier, t)
  <1> DEFINE policy == BestMatch(c.rows)
             slot == <<CarrierClass(policy), OrderingKey(policy)>>
             had == decided[p][slot]
  <1>1. PICK carrier \in Eligible(p, slot[1]) :
          /\ places' = places + 1 /\ tx' = [tx EXCEPT ![who] = PlacedTx(p, who, c, carrier)]
          /\ decided' = [decided EXCEPT ![p][slot] =
                           [carrier |-> carrier, stored |-> ~Changes(had, carrier) /\ had.stored,
                            place |-> IF Changes(had, carrier) THEN places + 1 ELSE had.place]]
    <2>1. PICK carrier \in Eligible(p, slot[1]) :
            /\ places' = places + 1
            /\ tx' = [tx EXCEPT ![who] = [stage |-> "pin", by |-> p, row |-> tx[who].row, slot |-> slot,
                        carrier |-> carrier, decision |-> carrier, record |-> Changes(had, carrier), place |-> places',
                        policy |-> policy, from |-> [of |-> c.of, ok |-> c.ok, passed |-> c.passed, own |-> tx[who].own],
                        stored |-> had.stored \/ had.carrier # carrier, pinned |-> FALSE, raced |-> FALSE]]
            /\ decided' = [decided EXCEPT ![p][slot] =
                           [carrier |-> carrier, stored |-> ~Changes(had, carrier) /\ had.stored,
                            place |-> IF Changes(had, carrier) THEN places' ELSE had.place]]
      BY Zenon DEF Place
    <2>2. tx' = [tx EXCEPT ![who] = PlacedTx(p, who, c, carrier)]
      BY <2>1, Zenon DEF PlacedTx
    <2> HIDE DEF policy, slot, had
    <2> QED
      BY <2>1, <2>2, Zenon
  <1>2. policy \in Policy /\ slot \in Slot
    <2>1. c.rows \in Table
      BY DEF CacheRec
    <2> QED
      BY <2>1, BestMatchShape, SlotShape
  <1>3. carrier \in Chosen /\ (carrier = "js" => slot[1] = "STREAM")
    <2> HIDE DEF slot
    <2> QED
      BY <1>1 DEF Eligible, Chosen
  <1>4. had \in Decision /\ places \in Nat
    <2> HIDE DEF slot
    <2> QED
      BY <1>2 DEF Shape
  <1>5. tx[who].row \in Nat /\ tx[who].own \in Nat
    BY TxKinds DEF Resolving, Resolves
  <1>6. [of |-> c.of, ok |-> c.ok, passed |-> c.passed, own |-> tx[who].own] \in From
    BY <1>5 DEF CacheRec, From
  <1> DEFINE t == PlacedTx(p, who, c, carrier)
             record == had.carrier # carrier
             stored == had.stored \/ had.carrier # carrier
             from == [of |-> c.of, ok |-> c.ok, passed |-> c.passed, own |-> tx[who].own]
  <1>7. t = [stage |-> "pin", by |-> p, row |-> tx[who].row, slot |-> slot, carrier |-> carrier, decision |-> carrier,
             record |-> record, place |-> places + 1, policy |-> policy, from |-> from, stored |-> stored,
             pinned |-> FALSE, raced |-> FALSE]
    BY DEF PlacedTx, Changes
  <1>8. record \in BOOLEAN /\ stored \in BOOLEAN
    BY <1>4 DEF Decision
  <1>9. t \in Places
    <2> HIDE DEF slot, had, policy, record, stored, from, t
    <2> QED
      BY <1>2, <1>3, <1>4, <1>5, <1>6, <1>7, <1>8 DEF Places, from
  <1>10. /\ t.stage = "pin" /\ t.by = p /\ t.row = tx[who].row /\ t.slot = slot /\ t.decision = carrier /\ t.carrier = carrier
         /\ t.record = record /\ t.stored = stored /\ t.place = places + 1 /\ t.policy = policy /\ t.from = from
    <2> HIDE DEF slot, had, policy, record, stored, from, t
    <2> QED
      BY <1>7
  <1>11. decided' = [decided EXCEPT ![p][slot] =
                      IF had.carrier # carrier THEN [carrier |-> carrier, stored |-> FALSE, place |-> places + 1] ELSE had]
    <2>1. CASE had.carrier # carrier
      <3> HIDE DEF slot, had
      <3> QED
        BY <1>1, <2>1 DEF Changes
    <2>2. CASE had.carrier = carrier
      <3>1. had = [carrier |-> carrier, stored |-> had.stored, place |-> had.place]
        <4> HIDE DEF slot, had
        <4> QED
          BY <1>4, <2>2 DEF Decision
      <3> HIDE DEF slot, had
      <3>2. had.stored \in BOOLEAN /\ ~Changes(had, carrier)
        BY <1>4, <2>2 DEF Decision, Changes
      <3>3. [carrier |-> carrier, stored |-> ~Changes(had, carrier) /\ had.stored,
             place |-> IF Changes(had, carrier) THEN places + 1 ELSE had.place] = had
        BY <3>1, <3>2
      <3> QED
        BY <1>1, <2>2, <3>3
    <2> QED
      BY <2>1, <2>2
  <1> QED
    <2>1. t.slot = slot /\ decided[p][t.slot] = had
      BY <1>10
    <2>2. record = (decided[p][t.slot].carrier # carrier) /\ stored = (decided[p][t.slot].stored \/ decided[p][t.slot].carrier # carrier)
      BY <2>1
    <2>3. tx' = [tx EXCEPT ![who] = t] /\ places' = places + 1 /\ t.policy = BestMatch(c.rows) /\ t.from = from
      BY <1>1, <1>10
    <2>4. decided' = [decided EXCEPT ![p][t.slot] =
                  IF decided[p][t.slot].carrier # carrier THEN [carrier |-> carrier, stored |-> FALSE, place |-> places + 1]
                  ELSE decided[p][t.slot]]
      BY <1>11, <2>1
    <2>5. t.slot \in Slot /\ (carrier = "js" => t.slot[1] = "STREAM")
      BY <1>2, <1>3, <2>1
    <2>6. carrier \in Chosen
      BY <1>3
    <2> HIDE DEF t, slot, had, record, stored
    <2> QED
      <3>1. carrier \in Chosen /\ t \in Places
        BY <1>9, <2>6
      <3>2. PlacesBy(p, who, c, carrier, t)
        BY <1>10, <2>2, <2>3, <2>4, <2>5 DEF from, PlacesBy
      <3> QED
        BY <3>1, <3>2

(* A backlog is of rows, and its first is one of them.                     *)
LEMMA BacklogFacts ==
  ASSUME Shape, NEW key
  PROVE  /\ Backlog(key) \in SUBSET Nat /\ Backlog(key) \subseteq DOMAIN rows
         /\ \A i \in Backlog(key) : rows[i] \in Row
         /\ Backlog(key) # {} => First(Backlog(key)) \in Backlog(key)
  <1>1. Backlog(key) \in SUBSET Nat /\ Backlog(key) \subseteq DOMAIN rows
    BY DEF Backlog, Shape
  <1>2. \A i \in Backlog(key) : rows[i] \in Row
    BY <1>1, RowFacts
  <1> QED
    BY <1>1, <1>2, FirstIn

(* What a transaction says of its decision.                                *)
Same(t, u) ==
    /\ t.by = u.by /\ t.slot = u.slot /\ t.decision = u.decision /\ t.record = u.record /\ t.place = u.place
    /\ t.policy = u.policy /\ t.from = u.from /\ t.stored = u.stored /\ t.row = u.row

(* Pin: the carrier of the first of the backlog, if there is one.          *)
LEMMA PinMeans ==
  ASSUME Shape, NEW who \in Who, Pin(who)
  PROVE  \E u \in Places :
            /\ tx' = [tx EXCEPT ![who] = u] /\ u.stage = "commit" /\ Same(u, tx[who])
            /\ u.raced = \E i \in Backlog(u.slot[2]) : rows[i].apart
            /\ u.slot[2] # NoKey /\ Backlog(u.slot[2]) # {} => u.carrier = rows[First(Backlog(u.slot[2]))].carrier
  <1> DEFINE t == tx[who]
             b == Backlog(t.slot[2])
             v == Pinned(t)
             apart == \E i \in Backlog(v.slot[2]) : rows[i].apart
             u == [v EXCEPT !.stage = "commit", !.raced = apart]
  <1>1. t \in Places /\ t.stage = "pin"
    BY TxKinds DEF Pin, Placed
  <1>2. /\ v \in Places /\ Same(v, t)
        /\ t.slot[2] # NoKey /\ b # {} => v.carrier = rows[First(b)].carrier
    <2>1. CASE t.slot[2] = NoKey \/ b = {}
      <3>1. v = t
        BY <2>1 DEF Pinned
      <3> HIDE DEF v, t, b
      <3> QED
        BY <1>1, <2>1, <3>1 DEF Same
    <2>2. CASE t.slot[2] # NoKey /\ b # {}
      <3> DEFINE c == rows[First(b)].carrier
      <3>1. c \in Chosen
        BY <2>2, BacklogFacts DEF Row
      <3>2. v = [t EXCEPT !.carrier = c, !.pinned = TRUE]
        BY <2>2 DEF Pinned
      <3> HIDE DEF v, t, b, c
      <3>3. v \in Places /\ v.carrier = c
        BY <1>1, <3>1, <3>2 DEF Places
      <3>4. Same(v, t)
        BY <1>1, <3>2 DEF Places, Same
      <3> QED
        BY <3>3, <3>4 DEF c
    <2> QED
      BY <2>1, <2>2
  <1>3. v.slot = t.slot
    BY <1>2 DEF Same
  <1>4. apart \in BOOLEAN
    OBVIOUS
  <1>5. tx' = [tx EXCEPT ![who] = u]
    BY DEF Pin
  <1>6. u \in Places /\ u.stage = "commit" /\ u.raced = apart /\ u.carrier = v.carrier
    <2> HIDE DEF v, apart
    <2> QED
      BY <1>2, <1>4 DEF Places
  <1>7. Same(u, v)
    <2> HIDE DEF v, apart
    <2> QED
      BY <1>2, <1>4 DEF Places, Same
  <1>8. Same(u, t) /\ u.slot = t.slot
    <2> HIDE DEF u, v, t
    <2> QED
      BY <1>2, <1>7 DEF Same
  <1>9. u.raced = \E i \in Backlog(u.slot[2]) : rows[i].apart
    <2> HIDE DEF u
    <2> QED
      BY <1>3, <1>6, <1>8
  <1>10. u.slot[2] # NoKey /\ Backlog(u.slot[2]) # {} => u.carrier = rows[First(Backlog(u.slot[2]))].carrier
    <2> HIDE DEF u, v
    <2> QED
      BY <1>2, <1>3, <1>6, <1>8
  <1> HIDE DEF u
  <1> QED
    BY <1>5, <1>6, <1>8, <1>9, <1>10

LEMMA DeliveryShape ==
  ASSUME Shape, NEW t \in Places, t.row \in 0..Len(rows)
  PROVE  LET r == Delivery(t)
         IN  /\ r \in Row /\ r.open /\ r.carrier = t.carrier /\ r.slot = t.slot /\ r.decision = t.decision /\ r.by = t.by
             /\ r.place = t.place /\ r.policy = t.policy /\ r.at = now /\ r.from = t.from /\ r.stored = t.stored
             /\ r.key = (IF t.row = 0 THEN t.slot[2] ELSE rows[t.row].key)
             /\ r.apart = (t.raced \/ r.key # t.slot[2])
  <1> DEFINE key == IF t.row = 0 THEN t.slot[2] ELSE rows[t.row].key
             apart == t.raced \/ key # t.slot[2]
             r == Delivery(t)
  <1>1. t.slot \in Slot /\ t.raced \in BOOLEAN
    BY DEF Places
  <1>2. key \in Keys
    <2>1. CASE t.row = 0
      BY <1>1, <2>1, SlotParts
    <2>2. CASE t.row # 0
      <3>1. t.row \in DOMAIN rows
        BY <2>2 DEF Shape
      <3> QED
        BY <2>2, <3>1, RowFacts DEF Row
    <2> QED
      BY <2>1, <2>2
  <1>3. apart \in BOOLEAN
    BY <1>1
  <1>4. r = [open |-> TRUE, key |-> key, carrier |-> t.carrier, slot |-> t.slot, decision |-> t.decision, by |-> t.by,
             place |-> t.place, policy |-> t.policy, at |-> now, from |-> t.from, stored |-> t.stored, apart |-> apart]
    BY DEF Delivery
  <1>5. now \in Nat
    BY DEF Shape
  <1>6. r \in Row
    <2> HIDE DEF key, apart, r
    <2> QED
      BY <1>2, <1>3, <1>4, <1>5 DEF Row, Places
  <1>7. /\ r.open /\ r.carrier = t.carrier /\ r.slot = t.slot /\ r.decision = t.decision /\ r.by = t.by
        /\ r.place = t.place /\ r.policy = t.policy /\ r.at = now /\ r.from = t.from /\ r.stored = t.stored
        /\ r.key = key /\ r.apart = apart
    <2> HIDE DEF key, apart, r
    <2> QED
      BY <1>4
  <1> QED
    <2> HIDE DEF r
    <2> QED
      BY <1>6, <1>7 DEF r

(* What is decided changes what it says of being committed, and no more.   *)
LEMMA CommitMeans ==
  ASSUME Shape, Counted, NEW who \in Who, Commit(who)
  PROVE  /\ tx[who] \in Places /\ tx[who].stage = "commit" /\ tx[who].row \in 0..Len(rows)
         /\ tx' \in [Who -> {NoTx} \union Resolves \union Places] /\ tx'[who] = NoTx
         /\ \A w \in Who \ {who} :
               /\ tx[w].stage # "commit" => tx'[w] = tx[w]
               /\ tx[w].stage = "commit" => /\ tx'[w].stage = "commit" /\ tx'[w].raced /\ tx'[w].carrier = tx[w].carrier
                                            /\ Same(tx'[w], tx[w])
         /\ rows' = IF tx[who].row = 0 THEN Append(rows, Delivery(tx[who]))
                    ELSE [rows EXCEPT ![tx[who].row] = Delivery(tx[who])]
         /\ placements' = placements \union
               IF tx[who].record THEN {[slot |-> tx[who].slot, carrier |-> tx[who].decision, by |-> tx[who].by, place |-> tx[who].place]}
               ELSE {}
         /\ decided' \in [Process -> [Slot -> Decision]]
         /\ \A p \in Process, slot \in Slot :
               /\ decided'[p][slot].carrier = decided[p][slot].carrier /\ decided'[p][slot].place = decided[p][slot].place
               /\ decided'[p][slot].stored => \/ decided[p][slot].stored
                                              \/ /\ tx[who].record /\ tx[who].by = p /\ tx[who].slot = slot
                                                 /\ decided[p][slot].place = tx[who].place
  <1> DEFINE t == tx[who]
             other == CHOOSE w \in Who : w # who
  <1>1. t \in Places /\ t.stage = "commit"
    BY TxKinds DEF Commit, Placed
  <1>2. t.row \in 0..Len(rows)
    BY <1>1 DEF Counted
  <1>3. other \in Who /\ other # who /\ \A w \in Who : w = who \/ w = other
    BY DEF Who
  <1> DEFINE o == IF tx[other].stage = "commit" THEN [tx[other] EXCEPT !.raced = TRUE] ELSE tx[other]
  <1>4. tx' = [tx EXCEPT ![who] = NoTx, ![other] = o]
    <2>1. tx' = [tx EXCEPT ![who] = NoTx,
                        ![other] = IF @.stage = "commit" THEN [@ EXCEPT !.raced = TRUE] ELSE @]
      BY DEF Commit
    <2> HIDE DEF other
    <2> QED
      BY <1>3, <2>1 DEF Shape
  <1>5. /\ o \in {NoTx} \union Resolves \union Places
        /\ tx[other].stage # "commit" => o = tx[other]
        /\ tx[other].stage = "commit" => o.stage = "commit" /\ o.raced /\ o.carrier = tx[other].carrier /\ Same(o, tx[other])
    <2>1. CASE tx[other].stage # "commit"
      BY <1>3, <2>1 DEF Shape
    <2>2. CASE tx[other].stage = "commit"
      <3>1. tx[other] \in Places
        <4> HIDE DEF other
        <4> QED
          BY <1>3, <2>2, TxKinds DEF Placed
      <3>2. o = [tx[other] EXCEPT !.raced = TRUE]
        BY <2>2
      <3> HIDE DEF o, other
      <3>3. o \in Places /\ o.stage = "commit" /\ o.raced /\ o.carrier = tx[other].carrier
        BY <2>2, <3>1, <3>2 DEF Places
      <3>4. Same(o, tx[other])
        BY <3>1, <3>2 DEF Places, Same
      <3> QED
        BY <2>2, <3>3, <3>4
    <2> QED
      BY <2>1, <2>2
  <1> HIDE DEF o, other
  <1>6. /\ tx' \in [Who -> {NoTx} \union Resolves \union Places] /\ tx'[who] = NoTx
        /\ \A w \in Who \ {who} : tx'[w] = o /\ w = other
    BY <1>3, <1>4, <1>5 DEF Shape
  <1>7. decided' = [decided EXCEPT ![t.by][t.slot].stored = @ \/ (t.record /\ decided[t.by][t.slot].place = t.place)]
    BY DEF Commit
  <1>8. t.by \in Process /\ t.slot \in Slot /\ t.record \in BOOLEAN
    BY <1>1 DEF Places
  <1> DEFINE had == decided[t.by][t.slot]
             s == had.stored \/ (t.record /\ had.place = t.place)
             d == [had EXCEPT !.stored = s]
  <1>9. had \in Decision /\ s \in BOOLEAN
    <2>1. had \in Decision
      BY <1>8 DEF Shape
    <2> QED
      BY <1>8, <2>1 DEF Decision
  <1>10. d \in Decision /\ d.carrier = had.carrier /\ d.place = had.place /\ d.stored = s
    <2> HIDE DEF had, s
    <2> QED
      BY <1>9 DEF Decision
  <1>11. decided' = [decided EXCEPT ![t.by] = [decided[t.by] EXCEPT ![t.slot] = d]]
    BY <1>7, <1>8 DEF Shape
  <1>12. /\ decided' \in [Process -> [Slot -> Decision]] /\ decided'[t.by][t.slot] = d
         /\ \A p \in Process, slot \in Slot : p # t.by \/ slot # t.slot => decided'[p][slot] = decided[p][slot]
    <2> HIDE DEF d, had, s, t
    <2> QED
      BY <1>8, <1>10, <1>11 DEF Shape
  <1>13. \A p \in Process, slot \in Slot :
               /\ decided'[p][slot].carrier = decided[p][slot].carrier /\ decided'[p][slot].place = decided[p][slot].place
               /\ decided'[p][slot].stored => \/ decided[p][slot].stored
                                              \/ t.record /\ t.by = p /\ t.slot = slot /\ decided[p][slot].place = t.place
    <2> SUFFICES ASSUME NEW p \in Process, NEW slot \in Slot
                 PROVE  /\ decided'[p][slot].carrier = decided[p][slot].carrier
                        /\ decided'[p][slot].place = decided[p][slot].place
                        /\ decided'[p][slot].stored => \/ decided[p][slot].stored
                                                       \/ t.record /\ t.by = p /\ t.slot = slot /\ decided[p][slot].place = t.place
      OBVIOUS
    <2>1. CASE p = t.by /\ slot = t.slot
      <3>1. decided'[p][slot] = d /\ decided[p][slot] = had
        <4> HIDE DEF d, t
        <4> QED
          BY <1>12, <2>1
      <3>2. s => had.stored \/ (t.record /\ had.place = t.place)
        OBVIOUS
      <3> HIDE DEF d, s, had, t
      <3> QED
        BY <1>10, <2>1, <3>1, <3>2
    <2>2. CASE p # t.by \/ slot # t.slot
      <3> HIDE DEF d, t
      <3> QED
        BY <1>12, <2>2
    <2> QED
      BY <2>1, <2>2
  <1>14. /\ rows' = IF t.row = 0 THEN Append(rows, Delivery(t)) ELSE [rows EXCEPT ![t.row] = Delivery(t)]
         /\ placements' = placements \union
               IF t.record THEN {[slot |-> t.slot, carrier |-> t.decision, by |-> t.by, place |-> t.place]} ELSE {}
    BY DEF Commit
  <1> HIDE DEF d, s, had
  <1> QED
    BY <1>1, <1>2, <1>5, <1>6, <1>12, <1>13, <1>14

(* The rows after a commit.                                                *)
LEMMA CommitRows ==
  ASSUME Shape, Counted, NEW who \in Who, Commit(who)
  PROVE  \E n \in DOMAIN rows' :
            /\ rows' \in Seq(Row) /\ rows'[n] = Delivery(tx[who])
            /\ Len(rows) <= Len(rows') /\ Len(rows') \in Nat
            /\ \A i \in DOMAIN rows' \ {n} : i \in DOMAIN rows /\ rows'[i] = rows[i]
            /\ n \in DOMAIN rows => n = tx[who].row
            /\ tx[who].row # 0 => n = tx[who].row
  <1> DEFINE t == tx[who]
             r == Delivery(t)
  <1>1. /\ t \in Places /\ t.row \in 0..Len(rows)
        /\ rows' = IF t.row = 0 THEN Append(rows, r) ELSE [rows EXCEPT ![t.row] = r]
    BY CommitMeans
  <1>2. r \in Row
    BY <1>1, DeliveryShape
  <1>3. rows \in Seq(Row) /\ Len(rows) \in Nat /\ DOMAIN rows = 1..Len(rows)
    BY DEF Shape
  <1> HIDE DEF t, r
  <1>4. CASE t.row = 0
    <2>1. rows' = Append(rows, r)
      BY <1>1, <1>4
    <2>2. /\ rows' \in Seq(Row) /\ Len(rows') = Len(rows) + 1 /\ rows'[Len(rows) + 1] = r
          /\ \A i \in 1..Len(rows) : rows'[i] = rows[i]
          /\ DOMAIN rows' = 1..(Len(rows) + 1)
      BY <1>2, <1>3, <2>1
    <2> DEFINE n == Len(rows) + 1
    <2>3. n \in DOMAIN rows' /\ n \notin DOMAIN rows
      BY <1>3, <2>2
    <2> QED
      BY <1>3, <1>4, <2>2, <2>3 DEF t, r
  <1>5. CASE t.row # 0
    <2>1. rows' = [rows EXCEPT ![t.row] = r] /\ t.row \in 1..Len(rows)
      BY <1>1, <1>3, <1>5
    <2>2. /\ rows' \in Seq(Row) /\ Len(rows') = Len(rows) /\ rows'[t.row] = r
          /\ \A i \in 1..Len(rows) : i # t.row => rows'[i] = rows[i]
          /\ DOMAIN rows' = 1..Len(rows)
      BY <1>2, <1>3, <2>1
    <2> QED
      BY <1>3, <1>5, <2>1, <2>2 DEF t, r
  <1> QED
    BY <1>4, <1>5

-----------------------------------------------------------------------------
(* Every step keeps the shape.                                             *)
LEMMA LoadShape ==
  ASSUME Shape, NEW p \in Process, NEW who \in Who \union {"read"}, Select(p, who) \/ SelectFails(p, who)
  PROVE  /\ plan' \in Plan /\ UNCHANGED <<carrierVars, now, table, cache, writing, decided, tx, rows, placements, past, own, places>>
         /\ ~Loading(p, who) /\ (who = "read" \/ Resolving(p, who))
         /\ \E l \in LoadRec : /\ loads' = loads \union {l} /\ l.by = p /\ l.who = who
                               /\ l.ok => l.rows = table /\ l.of = Len(past)
  <1>1. table \in Table /\ Len(past) \in Nat /\ NoRows \in Table
    BY DEF Shape, NoRows, Table
  <1>2. CASE Select(p, who)
    <2>1. plan' \in Plan
      BY <1>2, FollowShape DEF Select, Shape
    <2> DEFINE l == [by |-> p, who |-> who, rows |-> table, ok |-> TRUE, of |-> Len(past), passed |-> FALSE]
    <2>2. l \in LoadRec
      BY <1>1 DEF LoadRec
    <2>3. loads' = loads \union {l}
      BY <1>2 DEF Select
    <2> QED
      BY <1>2, <2>1, <2>2, <2>3 DEF Select
  <1>3. CASE SelectFails(p, who)
    <2>1. plan' \in Plan
      BY <1>3, SpendShape DEF SelectFails, Shape, Counts
    <2> DEFINE l == [by |-> p, who |-> who, rows |-> NoRows, ok |-> FALSE, of |-> Len(past), passed |-> FALSE]
    <2>2. l \in LoadRec
      BY <1>1 DEF LoadRec
    <2>3. loads' = loads \union {l}
      BY <1>3 DEF SelectFails
    <2> QED
      BY <1>3, <2>1, <2>2, <2>3 DEF SelectFails
  <1> QED
    BY <1>2, <1>3

LEMMA ShapeLoads ==
  ASSUME Shape, NEW p \in Process, NEW who \in Who \union {"read"}, Select(p, who) \/ SelectFails(p, who)
  PROVE  Shape'
  <1>1. PICK l \in LoadRec : loads' = loads \union {l}
    BY LoadShape
  <1> QED
    BY <1>1, LoadShape DEF Shape

LEMMA WriteMeans ==
  ASSUME Shape, NEW p \in Process, NEW i \in 1..Patterns, NEW policy, Write(p, i, policy)
  PROVE  /\ plan' \in Plan /\ table' \in Table /\ writing[p] = 0
         /\ past' = Append(past, [at |-> now, policy |-> BestMatch(table')])
         /\ past' \in Seq([at : Nat, policy : Policy]) /\ Len(past') = Len(past) + 1
         /\ \A n \in DOMAIN past : past'[n] = past[n]
         /\ past'[Len(past) + 1] = [at |-> now, policy |-> BestMatch(table')]
         /\ writing' = [writing EXCEPT ![p] = Len(past) + 1]
         /\ UNCHANGED <<carrierVars, now, cache, loads, decided, tx, rows, placements, own, places>>
  <1>1. plan' \in Plan /\ <<p, i, policy>> \in Process \X (1..Patterns) \X (Policy \union {NoPolicy})
    BY FollowShape DEF Write, Shape
  <1>2. policy \in Policy \union {NoPolicy}
    BY <1>1
  <1>3. table' \in Table
    BY <1>2 DEF Write, Shape, Table
  <1>4. BestMatch(table') \in Policy
    BY <1>3, BestMatchShape
  <1> DEFINE e == [at |-> now, policy |-> BestMatch(table')]
  <1>5. e \in [at : Nat, policy : Policy]
    BY <1>4 DEF Shape
  <1>6. past' = Append(past, e)
    BY DEF Write
  <1>7. /\ past' \in Seq([at : Nat, policy : Policy]) /\ Len(past') = Len(past) + 1
        /\ \A n \in DOMAIN past : past'[n] = past[n]
        /\ past'[Len(past) + 1] = e
    <2> HIDE DEF e
    <2> QED
      BY <1>5, <1>6 DEF Shape
  <1> QED
    BY <1>1, <1>3, <1>6, <1>7 DEF Write

LEMMA ShapeWrite ==
  ASSUME Shape, NEW p \in Process, NEW i \in 1..Patterns, NEW policy, Write(p, i, policy)
  PROVE  Shape'
  <1>1. Len(past) + 1 \in Nat
    BY DEF Shape
  <1>2. writing' \in [Process -> Nat]
    BY <1>1, WriteMeans DEF Shape
  <1> QED
    BY <1>2, WriteMeans DEF Shape

LEMMA WrittenMeans ==
  ASSUME Shape, NEW p \in Process, Written(p)
  PROVE  /\ writing[p] # 0 /\ own' = [own EXCEPT ![p] = writing[p]] /\ writing' = [writing EXCEPT ![p] = 0]
         /\ cache' = [cache EXCEPT ![p] = NoCache] /\ loads' \in SUBSET LoadRec
         /\ \A m \in loads' : \E l \in loads :
               /\ m.by = l.by /\ m.who = l.who /\ m.ok = l.ok /\ m.rows = l.rows /\ m.of = l.of
               /\ m.passed = (l.passed \/ l.by = p)
         /\ UNCHANGED <<plan, carrierVars, now, table, decided, tx, rows, placements, past, places>>
  <1>1. \A m \in loads' : \E l \in loads : m = [l EXCEPT !.passed = l.passed \/ l.by = p]
    BY DEF Written
  <1>2. ASSUME NEW l \in loads
        PROVE  LET m == [l EXCEPT !.passed = l.passed \/ l.by = p]
               IN  /\ m \in LoadRec /\ m.by = l.by /\ m.who = l.who /\ m.ok = l.ok /\ m.rows = l.rows /\ m.of = l.of
                   /\ m.passed = (l.passed \/ l.by = p)
    <2> DEFINE b == l.passed \/ l.by = p
    <2>1. l \in LoadRec /\ b \in BOOLEAN
      BY DEF Shape, LoadRec
    <2> HIDE DEF b
    <2>2. LET m == [l EXCEPT !.passed = b]
          IN  /\ m \in LoadRec /\ m.by = l.by /\ m.who = l.who /\ m.ok = l.ok /\ m.rows = l.rows /\ m.of = l.of
              /\ m.passed = b
      BY <2>1 DEF LoadRec
    <2> QED
      BY <2>2 DEF b
  <1>3. \A m \in loads' : \E l \in loads :
               /\ m = [l EXCEPT !.passed = l.passed \/ l.by = p] /\ m \in LoadRec
               /\ m.by = l.by /\ m.who = l.who /\ m.ok = l.ok /\ m.rows = l.rows /\ m.of = l.of
               /\ m.passed = (l.passed \/ l.by = p)
    <2> SUFFICES ASSUME NEW m \in loads'
                 PROVE  \E l \in loads :
                           /\ m = [l EXCEPT !.passed = l.passed \/ l.by = p] /\ m \in LoadRec
                           /\ m.by = l.by /\ m.who = l.who /\ m.ok = l.ok /\ m.rows = l.rows /\ m.of = l.of
                           /\ m.passed = (l.passed \/ l.by = p)
      OBVIOUS
    <2>1. PICK l \in loads : m = [l EXCEPT !.passed = l.passed \/ l.by = p]
      BY <1>1
    <2> QED
      BY <1>2, <2>1, Zenon
  <1>4. loads' \in SUBSET LoadRec
    BY <1>3
  <1> QED
    BY <1>3, <1>4, Zenon DEF Written, DroppedCache

LEMMA ShapeWritten ==
  ASSUME Shape, NEW p \in Process, Written(p) \/ Timer(p)
  PROVE  Shape'
  <1>1. CASE Written(p)
    <2>1. own' \in [Process -> Nat] /\ writing' \in [Process -> Nat]
      <3>1. own' = [own EXCEPT ![p] = writing[p]] /\ writing' = [writing EXCEPT ![p] = 0]
        BY <1>1, WrittenMeans
      <3> QED
        BY <3>1 DEF Shape
    <2>2. cache' \in [Process -> {NoCache} \union CacheRec]
      <3>1. cache' = [cache EXCEPT ![p] = NoCache]
        BY <1>1, WrittenMeans
      <3> QED
        BY <3>1 DEF Shape
    <2> QED
      BY <1>1, <2>1, <2>2, WrittenMeans DEF Shape
  <1>2. CASE Timer(p)
    <2>1. plan' \in Plan
      BY <1>2, SpendShape DEF Timer, Shape, Counts
    <2>2. cache' \in [Process -> {NoCache} \union CacheRec]
      BY <1>2 DEF Shape, Timer
    <2> QED
      BY <1>2, <2>1, <2>2 DEF Shape, Timer
  <1> QED
    BY <1>1, <1>2

LEMMA ShapePlace ==
  ASSUME Shape, NEW p \in Process, NEW who \in Who, Resolving(p, who), NEW c \in CacheRec, Place(p, who, c)
  PROVE  /\ tx' \in [Who -> {NoTx} \union Resolves \union Places] /\ places' \in Nat
         /\ decided' \in [Process -> [Slot -> Decision]]
  <1>1. PICK carrier \in Chosen, t \in Places : PlacesBy(p, who, c, carrier, t)
    BY PlaceMeans
  <1> DEFINE d == IF decided[p][t.slot].carrier # carrier THEN [carrier |-> carrier, stored |-> FALSE, place |-> places + 1]
                  ELSE decided[p][t.slot]
  <1>2. d \in Decision
    <2>1. decided[p][t.slot] \in Decision /\ places \in Nat
      BY <1>1 DEF Shape, PlacesBy
    <2>2. [carrier |-> carrier, stored |-> FALSE, place |-> places + 1] \in Decision
      BY <2>1 DEF Decision, Chosen
    <2> QED
      BY <2>1, <2>2
  <1> HIDE DEF d
  <1>3. decided' = [decided EXCEPT ![p][t.slot] = d]
    BY <1>1 DEF d, PlacesBy
  <1>4. tx' = [tx EXCEPT ![who] = t] /\ places' = places + 1 /\ t.slot \in Slot
    BY <1>1 DEF PlacesBy
  <1> QED
    BY <1>2, <1>3, <1>4 DEF Shape

(* The load that ends, put in the cache.                                   *)
LEMMA LoadedShape ==
  ASSUME Shape, NEW l \in loads
  PROVE  /\ l \in LoadRec /\ Loaded(l) \in CacheRec
         /\ Loaded(l).rows = l.rows /\ Loaded(l).at = now /\ Loaded(l).ok = l.ok /\ Loaded(l).of = l.of
         /\ Loaded(l).passed = l.passed /\ Loaded(l) # NoCache
  <1>1. l \in LoadRec /\ now \in Nat
    BY DEF Shape
  <1>2. /\ Loaded(l) \in CacheRec
        /\ Loaded(l).rows = l.rows /\ Loaded(l).at = now /\ Loaded(l).ok = l.ok /\ Loaded(l).of = l.of
        /\ Loaded(l).passed = l.passed
    BY <1>1 DEF Loaded, LoadRec, CacheRec
  <1>3. NoCache.at = -1 /\ Loaded(l).at >= 0
    BY <1>1, <1>2 DEF NoCache, Closed
  <1> QED
    BY <1>1, <1>2, <1>3

(* A place of a policy that is loaded, or just was.                        *)
LEMMA PlaceSteps ==
  ASSUME Shape, NEW p \in Process, NEW who \in Who, PlaceFresh(p, who)
  PROVE  /\ Resolving(p, who) /\ cache[p] # NoCache /\ cache[p] \in CacheRec /\ now - cache[p].at < Reload
         /\ ~Loading(p, who) /\ Place(p, who, cache[p])
         /\ UNCHANGED <<plan, carrierVars, now, table, cache, loads, writing, rows, placements, past, own>>
  BY DEF PlaceFresh, Fresh, Shape

LEMMA ShapePlaceFresh ==
  ASSUME Shape, NEW p \in Process, NEW who \in Who, PlaceFresh(p, who)
  PROVE  Shape'
  <1>1. /\ tx' \in [Who -> {NoTx} \union Resolves \union Places] /\ places' \in Nat
        /\ decided' \in [Process -> [Slot -> Decision]]
    BY PlaceSteps, ShapePlace
  <1> QED
    BY <1>1, PlaceSteps DEF Shape

LEMMA ShapeLoadEnds ==
  ASSUME Shape, NEW l \in loads, LoadEnds(l)
  PROVE  Shape'
  <1>1. l \in LoadRec /\ l.by \in Process /\ Loaded(l) \in CacheRec
    BY LoadedShape DEF LoadRec
  <1>2. loads' \in SUBSET LoadRec /\ cache' \in [Process -> {NoCache} \union CacheRec]
    <2>1. loads' = loads \ {l} /\ cache' = [cache EXCEPT ![l.by] = Loaded(l)]
      BY DEF LoadEnds
    <2> QED
      BY <1>1, <2>1 DEF Shape
  <1>3. /\ tx' \in [Who -> {NoTx} \union Resolves \union Places] /\ places' \in Nat
        /\ decided' \in [Process -> [Slot -> Decision]]
    <2>1. CASE Resolving(l.by, l.who)
      <3>1. Place(l.by, l.who, Loaded(l)) /\ l.who \in Who
        BY <2>1 DEF LoadEnds, Resolving
      <3> QED
        BY <1>1, <2>1, <3>1, ShapePlace
    <2>2. CASE ~Resolving(l.by, l.who)
      BY <2>2 DEF LoadEnds, Shape
    <2> QED
      BY <2>1, <2>2
  <1> QED
    BY <1>2, <1>3 DEF LoadEnds, Shape

LEMMA BeginsMeans ==
  ASSUME Shape, NEW p \in Process, Publish(p) \/ Requeue(p)
  PROVE  /\ plan' \in Plan
         /\ UNCHANGED <<carrierVars, now, table, cache, loads, writing, decided, rows, placements, past, own, places>>
         /\ \E who \in Who, t \in Resolves :
               /\ tx[who] = NoTx /\ tx' = [tx EXCEPT ![who] = t]
               /\ t.stage = "resolve" /\ t.by = p /\ t.row \in 0..Len(rows) /\ t.own = own[p]
  <1>1. PICK who \in Who, row \in 0..Len(rows) : Begins(p, who, row) /\ who \in {"publish", "replay"}
    BY DEF Publish, Requeue, Who, Shape
  <1>2. plan' \in Plan
    BY <1>1, FollowShape DEF Begins, Shape
  <1> DEFINE t == [stage |-> "resolve", by |-> p, row |-> row, own |-> own[p]]
  <1>3. t \in Resolves /\ t.stage = "resolve" /\ t.by = p /\ t.row \in 0..Len(rows) /\ t.own = own[p]
    BY <1>1 DEF Resolves, Shape
  <1>4. tx[who] = NoTx /\ tx' = [tx EXCEPT ![who] = t]
    BY <1>1 DEF Begins
  <1>5. UNCHANGED <<carrierVars, now, table, cache, loads, writing, decided, rows, placements, past, own, places>>
    BY <1>1 DEF Begins
  <1> HIDE DEF t
  <1> QED
    BY <1>2, <1>3, <1>4, <1>5

LEMMA ShapeBegins ==
  ASSUME Shape, NEW p \in Process, Publish(p) \/ Requeue(p)
  PROVE  Shape'
  <1>1. PICK who \in Who, t \in Resolves : tx' = [tx EXCEPT ![who] = t]
    BY BeginsMeans
  <1>2. tx' \in [Who -> {NoTx} \union Resolves \union Places]
    BY <1>1 DEF Shape
  <1> QED
    BY <1>2, BeginsMeans DEF Shape

LEMMA ShapePin ==
  ASSUME Shape, NEW who \in Who, Pin(who)
  PROVE  Shape'
  <1>1. PICK u \in Places : tx' = [tx EXCEPT ![who] = u]
    BY PinMeans
  <1>2. tx' \in [Who -> {NoTx} \union Resolves \union Places]
    BY <1>1 DEF Shape
  <1> QED
    BY <1>2 DEF Pin, Shape

LEMMA ShapeCommit ==
  ASSUME Shape, Counted, NEW who \in Who, Commit(who)
  PROVE  Shape'
  <1> DEFINE d == [slot |-> tx[who].slot, carrier |-> tx[who].decision, by |-> tx[who].by, place |-> tx[who].place]
  <1>1. d \in PlacementRec
    BY CommitMeans DEF Places, PlacementRec
  <1>2. placements' \in SUBSET PlacementRec
    <2>1. placements' \subseteq placements \union {d}
      BY CommitMeans
    <2> HIDE DEF d
    <2> QED
      BY <1>1, <2>1 DEF Shape
  <1>3. rows' \in Seq(Row)
    BY CommitRows
  <1>4. decided' \in [Process -> [Slot -> Decision]] /\ tx' \in [Who -> {NoTx} \union Resolves \union Places]
    BY CommitMeans
  <1> QED
    BY <1>2, <1>3, <1>4 DEF Commit, Shape

LEMMA SettleMeans ==
  ASSUME Shape, NEW i \in DOMAIN rows, Settle(i)
  PROVE  /\ plan' \in Plan /\ rows' \in Seq(Row) /\ DOMAIN rows' = DOMAIN rows /\ Len(rows') = Len(rows)
         /\ \A j \in DOMAIN rows :
               /\ rows'[j].key = rows[j].key /\ rows'[j].carrier = rows[j].carrier /\ rows'[j].slot = rows[j].slot
               /\ rows'[j].decision = rows[j].decision /\ rows'[j].by = rows[j].by /\ rows'[j].place = rows[j].place
               /\ rows'[j].policy = rows[j].policy /\ rows'[j].at = rows[j].at /\ rows'[j].from = rows[j].from
               /\ rows'[j].stored = rows[j].stored /\ rows'[j].apart = rows[j].apart
               /\ rows'[j].open => rows[j].open
         /\ UNCHANGED <<carrierVars, now, table, cache, loads, writing, decided, tx, placements, past, own, places>>
  <1>1. plan' \in Plan
    BY SpendShape DEF Settle, Shape, Counts
  <1> DEFINE r == [rows[i] EXCEPT !.open = FALSE]
  <1>2. rows[i] \in Row /\ DOMAIN rows = 1..Len(rows)
    BY RowFacts DEF Shape
  <1>3. /\ r \in Row /\ r.open = FALSE
        /\ r.key = rows[i].key /\ r.carrier = rows[i].carrier /\ r.slot = rows[i].slot
        /\ r.decision = rows[i].decision /\ r.by = rows[i].by /\ r.place = rows[i].place
        /\ r.policy = rows[i].policy /\ r.at = rows[i].at /\ r.from = rows[i].from
        /\ r.stored = rows[i].stored /\ r.apart = rows[i].apart
    BY <1>2 DEF Row
  <1>4. rows' = [rows EXCEPT ![i] = r]
    BY DEF Settle
  <1> HIDE DEF r
  <1>5. /\ rows' \in Seq(Row) /\ DOMAIN rows' = DOMAIN rows /\ Len(rows') = Len(rows)
        /\ \A j \in DOMAIN rows : rows'[j] = IF j = i THEN r ELSE rows[j]
    BY <1>2, <1>3, <1>4 DEF Shape
  <1> QED
    BY <1>1, <1>3, <1>5 DEF Settle

LEMMA ShapeRest ==
  ASSUME Shape, \/ \E who \in Who : Rollback(who)
                \/ \E i \in DOMAIN rows : Settle(i)
                \/ \E p \in Process, slot \in Slot : Evict(p, slot)
                \/ Tick \/ Links \/ Signals
  PROVE  Shape'
  <1>1. ASSUME NEW who \in Who, Rollback(who) PROVE Shape'
    <2>1. plan' \in Plan
      BY <1>1, SpendShape DEF Rollback, Shape, Counts
    <2> QED
      BY <1>1, <2>1 DEF Rollback, Shape
  <1>2. ASSUME NEW i \in DOMAIN rows, Settle(i) PROVE Shape'
    BY <1>2, SettleMeans DEF Shape
  <1>3. ASSUME NEW p \in Process, NEW slot \in Slot, Evict(p, slot) PROVE Shape'
    <2>1. plan' \in Plan
      BY <1>3, SpendShape DEF Evict, Shape, Counts
    <2>2. Undecided \in Decision
      BY DEF Undecided, Decision
    <2>3. decided' \in [Process -> [Slot -> Decision]]
      BY <1>3, <2>2 DEF Evict, Shape
    <2> QED
      BY <1>3, <2>1, <2>3 DEF Evict, Shape
  <1>4. CASE Tick
    <2>1. plan' \in Plan
      BY <1>4, SpendShape DEF Tick, Shape, Counts
    <2> QED
      BY <1>4, <2>1 DEF Tick, Shape
  <1>5. CASE Links
    BY <1>5 DEF Links, placementVars, Shape
  <1>6. CASE Signals
    <2>1. plan' \in Plan
      BY <1>6, SpendShape DEF Signals, Shape, Counts
    <2> QED
      BY <1>6, <2>1 DEF Signals, placementVars, Shape
  <1> QED
    BY <1>1, <1>2, <1>3, <1>4, <1>5, <1>6

LEMMA ShapeStarts == Init => Shape
  <1> SUFFICES ASSUME Init PROVE Shape
    OBVIOUS
  <1>1. plan \in Plan /\ table \in Table /\ table = plan.table
    BY PlansShape DEF Init, Plan
  <1>2. past \in Seq([at : Nat, policy : Policy])
    <2>1. BestMatch(plan.table) \in Policy
      BY <1>1, BestMatchShape
    <2> DEFINE e == [at |-> 0, policy |-> BestMatch(plan.table)]
    <2>2. e \in [at : Nat, policy : Policy] /\ past = <<e>>
      BY <2>1 DEF Init
    <2> HIDE DEF e
    <2> QED
      BY <2>2
  <1>3. Undecided \in Decision
    BY DEF Undecided, Decision
  <1> QED
    BY <1>1, <1>2, <1>3 DEF Init, Shape

-----------------------------------------------------------------------------
(* LoadsAwaited.                                                           *)
LEMMA AwaitedStill ==
  ASSUME LoadsAwaited, loads' \subseteq loads,
         \A l \in loads' : l.who \in Who /\ tx[l.who].stage = "resolve" /\ tx[l.who].by = l.by => tx'[l.who] = tx[l.who]
  PROVE  LoadsAwaited'
  BY DEF LoadsAwaited, Resolving

LEMMA AwaitedLoads ==
  ASSUME Shape, LoadsAwaited, NEW p \in Process, NEW who \in Who \union {"read"}, Select(p, who) \/ SelectFails(p, who)
  PROVE  LoadsAwaited'
  <1>1. PICK l \in LoadRec : loads' = loads \union {l} /\ l.by = p /\ l.who = who
    BY LoadShape
  <1>2. /\ tx' = tx /\ (who = "read" \/ Resolving(p, who))
        /\ \A m \in loads : m.by # p \/ m.who # who
    BY LoadShape DEF Loading
  <1>3. \A m \in loads' : m.who = "read" \/ Resolving(m.by, m.who)'
    <2> SUFFICES ASSUME NEW m \in loads' PROVE m.who = "read" \/ Resolving(m.by, m.who)'
      OBVIOUS
    <2>1. m.who = "read" \/ Resolving(m.by, m.who)
      BY <1>1, <1>2 DEF LoadsAwaited
    <2> QED
      BY <1>2, <2>1 DEF Resolving
  <1>4. \A m, n \in loads' : m.by = n.by /\ m.who = n.who => m = n
    BY <1>1, <1>2 DEF LoadsAwaited
  <1> QED
    BY <1>3, <1>4 DEF LoadsAwaited

LEMMA AwaitedWritten ==
  ASSUME Shape, LoadsAwaited, NEW p \in Process, Written(p)
  PROVE  LoadsAwaited'
  <1>1. /\ tx' = tx /\ loads' \subseteq LoadRec
        /\ \A m \in loads' : \E l \in loads :
               /\ m.by = l.by /\ m.who = l.who /\ m.ok = l.ok /\ m.rows = l.rows /\ m.of = l.of
               /\ m.passed = (l.passed \/ l.by = p)
    BY WrittenMeans
  <1>2. \A m \in loads' : m.who = "read" \/ Resolving(m.by, m.who)'
    <2> SUFFICES ASSUME NEW m \in loads' PROVE m.who = "read" \/ Resolving(m.by, m.who)'
      OBVIOUS
    <2>1. PICK l \in loads : m.by = l.by /\ m.who = l.who
      BY <1>1
    <2>2. l.who = "read" \/ Resolving(l.by, l.who)
      BY DEF LoadsAwaited
    <2> QED
      BY <1>1, <2>1, <2>2 DEF Resolving
  <1>3. ASSUME NEW m \in loads', NEW n \in loads', m.by = n.by, m.who = n.who
        PROVE  m = n
    <2>1. PICK l \in loads :
               /\ m.by = l.by /\ m.who = l.who /\ m.ok = l.ok /\ m.rows = l.rows /\ m.of = l.of
               /\ m.passed = (l.passed \/ l.by = p)
      BY <1>1
    <2>2. PICK k \in loads :
               /\ n.by = k.by /\ n.who = k.who /\ n.ok = k.ok /\ n.rows = k.rows /\ n.of = k.of
               /\ n.passed = (k.passed \/ k.by = p)
      BY <1>1
    <2>3. l = k
      BY <1>3, <2>1, <2>2 DEF LoadsAwaited
    <2>4. m \in LoadRec /\ n \in LoadRec
      BY <1>1
    <2> QED
      BY <2>1, <2>2, <2>3, <2>4 DEF LoadRec
  <1> QED
    BY <1>2, <1>3 DEF LoadsAwaited

LEMMA AwaitedLoadEnds ==
  ASSUME Shape, LoadsAwaited, NEW l \in loads, LoadEnds(l)
  PROVE  LoadsAwaited'
  <1>1. loads' = loads \ {l}
    BY DEF LoadEnds
  <1>2. ASSUME NEW m \in loads', m.who \in Who, tx[m.who].stage = "resolve", tx[m.who].by = m.by
        PROVE  tx'[m.who] = tx[m.who]
    <2>1. CASE ~Resolving(l.by, l.who)
      BY <2>1 DEF LoadEnds
    <2>2. CASE Resolving(l.by, l.who)
      <3>1. l.who \in Who /\ tx[l.who].by = l.by
        BY <2>2 DEF Resolving
      <3>2. m.who # l.who
        BY <1>1, <1>2, <3>1 DEF LoadsAwaited
      <3>3. Place(l.by, l.who, Loaded(l)) /\ l.by \in Process /\ Loaded(l) \in CacheRec
        BY <2>2, LoadedShape DEF LoadEnds, LoadRec
      <3>4. PICK carrier \in Chosen, t \in Places : PlacesBy(l.by, l.who, Loaded(l), carrier, t)
        BY <2>2, <3>1, <3>3, PlaceMeans
      <3>5. tx' = [tx EXCEPT ![l.who] = t]
        BY <3>4 DEF PlacesBy
      <3> QED
        BY <1>2, <3>1, <3>2, <3>5 DEF Shape
    <2> QED
      BY <2>1, <2>2
  <1> QED
    BY <1>1, <1>2, AwaitedStill

LEMMA AwaitedTx ==
  ASSUME Shape, Counted, LoadsAwaited,
         \/ \E p \in Process, who \in Who : PlaceFresh(p, who)
         \/ \E p \in Process : Publish(p) \/ Requeue(p)
         \/ \E who \in Who : Pin(who) \/ Commit(who) \/ Rollback(who)
  PROVE  LoadsAwaited'
  <1>1. ASSUME NEW p \in Process, NEW who \in Who, PlaceFresh(p, who) PROVE LoadsAwaited'
    <2>1. PICK carrier \in Chosen, t \in Places : PlacesBy(p, who, cache[p], carrier, t)
      BY <1>1, PlaceSteps, PlaceMeans
    <2>2. tx' = [tx EXCEPT ![who] = t]
      BY <2>1 DEF PlacesBy
    <2>3. loads' = loads /\ tx[who].by = p /\ \A m \in loads : m.by # p \/ m.who # who
      BY <1>1, PlaceSteps DEF Loading, Resolving
    <2>4. \A m \in loads : m.who \in Who /\ tx[m.who].by = m.by => tx'[m.who] = tx[m.who]
      BY <2>2, <2>3 DEF Shape
    <2> QED
      BY <2>3, <2>4, AwaitedStill
  <1>2. ASSUME NEW p \in Process, Publish(p) \/ Requeue(p) PROVE LoadsAwaited'
    <2>1. PICK who \in Who, t \in Resolves : tx[who] = NoTx /\ tx' = [tx EXCEPT ![who] = t]
      BY <1>2, BeginsMeans
    <2>2. loads' = loads /\ tx[who].stage = "none"
      BY <1>2, <2>1, BeginsMeans DEF NoTx
    <2>3. \A m \in loads : m.who \in Who /\ tx[m.who].stage = "resolve" => tx'[m.who] = tx[m.who]
      BY <2>1, <2>2 DEF Shape
    <2> QED
      BY <2>2, <2>3, AwaitedStill
  <1>3. ASSUME NEW who \in Who, Pin(who) PROVE LoadsAwaited'
    <2>1. PICK u \in Places : tx' = [tx EXCEPT ![who] = u]
      BY <1>3, PinMeans
    <2>2. loads' = loads /\ tx[who].stage = "pin"
      BY <1>3 DEF Pin
    <2>3. \A m \in loads : m.who \in Who /\ tx[m.who].stage = "resolve" => tx'[m.who] = tx[m.who]
      BY <2>1, <2>2 DEF Shape
    <2> QED
      BY <2>2, <2>3, AwaitedStill
  <1>4. ASSUME NEW who \in Who, Commit(who) PROVE LoadsAwaited'
    <2>1. /\ loads' = loads /\ tx[who].stage = "commit"
          /\ \A w \in Who \ {who} : tx[w].stage # "commit" => tx'[w] = tx[w]
      BY <1>4, CommitMeans DEF Commit
    <2>2. \A m \in loads : m.who \in Who /\ tx[m.who].stage = "resolve" => tx'[m.who] = tx[m.who]
      BY <2>1
    <2> QED
      BY <2>1, <2>2, AwaitedStill
  <1>5. ASSUME NEW who \in Who, Rollback(who) PROVE LoadsAwaited'
    <2>1. /\ loads' = loads /\ tx' = [tx EXCEPT ![who] = NoTx]
          /\ \A m \in loads : m.by # tx[who].by \/ m.who # who
      BY <1>5 DEF Rollback, Loading
    <2>2. \A m \in loads : m.who \in Who /\ tx[m.who].by = m.by => tx'[m.who] = tx[m.who]
      BY <2>1 DEF Shape
    <2> QED
      BY <2>1, <2>2, AwaitedStill
  <1> QED
    BY <1>1, <1>2, <1>3, <1>4, <1>5

-----------------------------------------------------------------------------
(* Counted.                                                                *)
LEMMA CountedPolicies ==
  ASSUME Shape, Counted,
         \/ \E p \in Process, who \in Who \union {"read"} : Select(p, who) \/ SelectFails(p, who)
         \/ \E p \in Process : Written(p) \/ Timer(p)
         \/ \E p \in Process, i \in 1..Patterns, n \in DOMAIN plan.writes : Write(p, i, plan.writes[n][3])
  PROVE  Counted'
  <1>1. ASSUME NEW p \in Process, NEW who \in Who \union {"read"}, Select(p, who) \/ SelectFails(p, who) PROVE Counted'
    <2>1. UNCHANGED <<now, cache, writing, decided, tx, rows, placements, past, own, places>>
      BY <1>1 DEF Select, SelectFails
    <2> QED
      BY <2>1 DEF Counted, Placed
  <1>2. ASSUME NEW p \in Process, Written(p) PROVE Counted'
    <2>1. /\ own' = [own EXCEPT ![p] = writing[p]] /\ writing' = [writing EXCEPT ![p] = 0]
          /\ cache' = [cache EXCEPT ![p] = NoCache] /\ writing[p] # 0
          /\ UNCHANGED <<now, decided, tx, rows, placements, past, places>>
      BY <1>2, WrittenMeans
    <2>2. writing[p] \in 0..Len(past) /\ own[p] \in 1..Len(past) /\ own[p] <= writing[p] /\ Len(past) \in Nat
      BY <2>1 DEF Counted, Shape
    <2>3. \A q \in Process :
             /\ own'[q] \in 1..Len(past) /\ own'[q] >= own[q]
             /\ writing'[q] \in 0..Len(past) /\ (writing'[q] # 0 => own'[q] <= writing'[q])
             /\ cache'[q] # NoCache => cache'[q].at <= now
      BY <2>1, <2>2, SMTT(30) DEF Counted, Shape
    <2>4. \A who \in Who : tx[who].stage = "resolve" => tx[who].own <= own'[tx[who].by]
      <3> SUFFICES ASSUME NEW who \in Who, tx[who].stage = "resolve" PROVE tx[who].own <= own'[tx[who].by]
        OBVIOUS
      <3>1. tx[who].by \in Process /\ tx[who].own \in Nat /\ tx[who].own <= own[tx[who].by] /\ own[tx[who].by] \in Nat
        BY TxKinds DEF Resolves, Counted, Shape
      <3>2. own'[tx[who].by] >= own[tx[who].by] /\ own'[tx[who].by] \in Nat
        BY <2>3, <3>1
      <3> QED
        BY <3>1, <3>2
    <2> QED
      BY <2>1, <2>3, <2>4 DEF Counted, Placed
  <1>3. ASSUME NEW p \in Process, Timer(p) PROVE Counted'
    <2>1. \A q \in Process : cache'[q] # NoCache => cache'[q] = cache[q]
      BY <1>3 DEF Timer, Shape
    <2>2. UNCHANGED <<now, writing, decided, tx, rows, placements, past, own, places>>
      BY <1>3 DEF Timer
    <2> QED
      BY <2>1, <2>2 DEF Counted, Placed
  <1>4. ASSUME NEW p \in Process, NEW i \in 1..Patterns, NEW policy, Write(p, i, policy) PROVE Counted'
    <2>1. /\ Len(past') = Len(past) + 1 /\ writing' = [writing EXCEPT ![p] = Len(past) + 1] /\ Len(past) \in Nat
          /\ UNCHANGED <<now, cache, decided, tx, rows, placements, own, places>>
      BY <1>4, WriteMeans DEF Shape
    <2>2. ASSUME NEW q \in Process
          PROVE  /\ own[q] \in 1..Len(past') /\ writing'[q] \in 0..Len(past')
                 /\ (writing'[q] # 0 => own[q] <= writing'[q])
      <3>1. own[q] \in 1..Len(past) /\ writing[q] \in 0..Len(past) /\ (writing[q] # 0 => own[q] <= writing[q])
        BY DEF Counted
      <3>2. writing'[q] = (IF q = p THEN Len(past) + 1 ELSE writing[q])
        BY <2>1 DEF Shape
      <3> QED
        BY <2>1, <3>1, <3>2
    <2> QED
      BY <2>1, <2>2 DEF Counted, Placed
  <1> QED
    BY <1>1, <1>2, <1>3, <1>4

LEMMA CountedPlaces ==
  ASSUME Shape, Counted, NEW p \in Process, NEW who \in Who, Resolving(p, who), NEW c, NEW carrier \in Chosen, NEW t \in Places,
         PlacesBy(p, who, c, carrier, t), UNCHANGED <<now, writing, rows, placements, past, own>>,
         \A q \in Process : cache'[q] # NoCache => cache'[q].at <= now
  PROVE  Counted'
  <1>1. /\ t.stage = "pin" /\ t.row = tx[who].row /\ t.slot \in Slot /\ t.place = places + 1
        /\ (carrier = "js" => t.slot[1] = "STREAM") /\ places' = places + 1 /\ tx' = [tx EXCEPT ![who] = t]
        /\ decided' = [decided EXCEPT ![p][t.slot] =
              IF decided[p][t.slot].carrier # carrier THEN [carrier |-> carrier, stored |-> FALSE, place |-> places + 1]
              ELSE decided[p][t.slot]]
    BY DEF PlacesBy
  <1>2. places \in Nat /\ Len(rows) \in Nat
    BY DEF Shape
  <1>3. \A q \in Process, slot \in Slot :
           /\ decided'[q][slot].carrier = "js" => slot[1] = "STREAM"
           /\ decided'[q][slot].place <= places + 1
    <2> SUFFICES ASSUME NEW q \in Process, NEW slot \in Slot
                 PROVE  /\ decided'[q][slot].carrier = "js" => slot[1] = "STREAM"
                        /\ decided'[q][slot].place <= places + 1
      OBVIOUS
    <2>1. /\ decided[q][slot].carrier = "js" => slot[1] = "STREAM"
          /\ decided[q][slot].place <= places /\ decided[q][slot].place \in Nat
      BY DEF Counted, Shape, Decision
    <2>2. CASE q = p /\ slot = t.slot /\ decided[p][t.slot].carrier # carrier
      <3>1. decided'[q][slot] = [carrier |-> carrier, stored |-> FALSE, place |-> places + 1]
        BY <1>1, <2>2 DEF Shape
      <3> QED
        BY <1>1, <1>2, <2>2, <3>1
    <2>3. CASE ~(q = p /\ slot = t.slot /\ decided[p][t.slot].carrier # carrier)
      <3>1. decided'[q][slot] = decided[q][slot]
        BY <1>1, <2>3 DEF Shape
      <3> QED
        BY <1>2, <2>1, <3>1
    <2> QED
      BY <2>2, <2>3
  <1>4. \A w \in Who :
           /\ tx'[w].stage \in {"pin", "commit"} => tx'[w].place \in 1..(places + 1)
           /\ tx'[w].stage # "none" => tx'[w].row \in 0..Len(rows)
           /\ tx'[w].stage = "resolve" => tx'[w].own <= own[tx'[w].by]
    <2> SUFFICES ASSUME NEW w \in Who
                 PROVE  /\ tx'[w].stage \in {"pin", "commit"} => tx'[w].place \in 1..(places + 1)
                        /\ tx'[w].stage # "none" => tx'[w].row \in 0..Len(rows)
                        /\ tx'[w].stage = "resolve" => tx'[w].own <= own[tx'[w].by]
      OBVIOUS
    <2>1. CASE w = who
      <3>1. tx'[w] = t /\ tx[who].row \in 0..Len(rows)
        BY <1>1, <2>1 DEF Counted, Resolving, Shape
      <3> QED
        BY <1>1, <1>2, <3>1
    <2>2. CASE w # who
      <3>1. tx'[w] = tx[w]
        BY <1>1, <2>2 DEF Shape
      <3> QED
        BY <1>2, <3>1 DEF Counted, Placed
    <2> QED
      BY <2>1, <2>2
  <1>5. /\ \A i \in DOMAIN rows : rows[i].place \in 1..(places + 1)
        /\ \A d \in placements : d.place \in 1..(places + 1)
    BY <1>2 DEF Counted
  <1> QED
    BY <1>1, <1>3, <1>4, <1>5 DEF Counted, Placed

LEMMA CountedTx ==
  ASSUME Shape, Counted, PoliciesKnown,
         \/ \E p \in Process, who \in Who : PlaceFresh(p, who)
         \/ \E l \in loads : LoadEnds(l)
         \/ \E p \in Process : Publish(p) \/ Requeue(p)
         \/ \E who \in Who : Pin(who) \/ Commit(who) \/ Rollback(who)
  PROVE  Counted'
  <1>1. ASSUME NEW p \in Process, NEW who \in Who, PlaceFresh(p, who) PROVE Counted'
    <2>1. PICK carrier \in Chosen, t \in Places : PlacesBy(p, who, cache[p], carrier, t)
      BY <1>1, PlaceSteps, PlaceMeans
    <2>2. Resolving(p, who) /\ UNCHANGED <<now, writing, rows, placements, past, own, cache>>
      BY <1>1, PlaceSteps
    <2>3. \A q \in Process : cache'[q] # NoCache => cache'[q].at <= now
      BY <2>2 DEF Counted
    <2> QED
      BY <2>1, <2>2, <2>3, CountedPlaces
  <1>2. ASSUME NEW l \in loads, LoadEnds(l) PROVE Counted'
    <2>1. /\ l.by \in Process /\ Loaded(l) \in CacheRec /\ Loaded(l).at = now
          /\ cache' = [cache EXCEPT ![l.by] = Loaded(l)]
          /\ UNCHANGED <<now, writing, rows, placements, past, own>> /\ now \in Nat
      BY <1>2, LoadedShape DEF LoadEnds, LoadRec, Shape
    <2>2. \A q \in Process : cache'[q] # NoCache => cache'[q].at <= now
      BY <2>1 DEF Counted, Shape
    <2>3. CASE Resolving(l.by, l.who)
      <3>1. l.who \in Who /\ Place(l.by, l.who, Loaded(l))
        BY <1>2, <2>3 DEF LoadEnds, Resolving
      <3>2. PICK carrier \in Chosen, t \in Places : PlacesBy(l.by, l.who, Loaded(l), carrier, t)
        BY <2>1, <2>3, <3>1, PlaceMeans
      <3> QED
        BY <2>1, <2>2, <2>3, <3>1, <3>2, CountedPlaces
    <2>4. CASE ~Resolving(l.by, l.who)
      <3>1. UNCHANGED <<tx, decided, places>>
        BY <1>2, <2>4 DEF LoadEnds
      <3> QED
        BY <2>1, <2>2, <3>1 DEF Counted, Placed
    <2> QED
      BY <2>3, <2>4
  <1>3. ASSUME NEW p \in Process, Publish(p) \/ Requeue(p) PROVE Counted'
    <2>1. PICK who \in Who, t \in Resolves :
             /\ tx[who] = NoTx /\ tx' = [tx EXCEPT ![who] = t]
             /\ t.stage = "resolve" /\ t.by = p /\ t.row \in 0..Len(rows) /\ t.own = own[p]
      BY <1>3, BeginsMeans
    <2>2. UNCHANGED <<now, cache, writing, decided, rows, placements, past, own, places>>
      BY <1>3, BeginsMeans
    <2>3. own[p] \in Nat
      BY DEF Shape
    <2>4. \A w \in Who : tx'[w] = IF w = who THEN t ELSE tx[w]
      BY <2>1 DEF Shape
    <2> QED
      BY <2>1, <2>2, <2>3, <2>4 DEF Counted, Placed
  <1>4. ASSUME NEW who \in Who, Pin(who) PROVE Counted'
    <2>1. PICK u \in Places : tx' = [tx EXCEPT ![who] = u] /\ u.stage = "commit" /\ Same(u, tx[who])
      BY <1>4, PinMeans
    <2>2. UNCHANGED <<now, cache, writing, decided, rows, placements, past, own, places>> /\ tx[who].stage = "pin"
      BY <1>4 DEF Pin
    <2>3. u.place = tx[who].place /\ u.row = tx[who].row
      BY <2>1 DEF Same
    <2>4. \A w \in Who : tx'[w] = IF w = who THEN u ELSE tx[w]
      BY <2>1 DEF Shape
    <2> QED
      BY <2>1, <2>2, <2>3, <2>4 DEF Counted, Placed
  <1>5. ASSUME NEW who \in Who, Rollback(who) PROVE Counted'
    <2>1. UNCHANGED <<now, cache, writing, decided, rows, placements, past, own, places>> /\ tx' = [tx EXCEPT ![who] = NoTx]
      BY <1>5 DEF Rollback
    <2>2. \A w \in Who : tx'[w] = IF w = who THEN NoTx ELSE tx[w]
      BY <2>1 DEF Shape
    <2>3. NoTx.stage = "none"
      BY DEF NoTx
    <2> QED
      BY <2>1, <2>2, <2>3 DEF Counted, Placed
  <1>6. ASSUME NEW who \in Who, Commit(who) PROVE Counted'
    <2> DEFINE t == tx[who]
    <2>1. /\ t \in Places /\ t.stage = "commit" /\ t.row \in 0..Len(rows) /\ tx'[who] = NoTx
          /\ UNCHANGED <<now, cache, writing, past, own, places>>
      BY <1>6, CommitMeans DEF Commit
    <2>2. t.place \in 1..places
      BY <2>1 DEF Counted, Placed
    <2>3. \A p \in Process, slot \in Slot :
             decided'[p][slot].carrier = decided[p][slot].carrier /\ decided'[p][slot].place = decided[p][slot].place
      BY <1>6, CommitMeans
    <2>4. PICK n \in DOMAIN rows' :
             /\ rows'[n] = Delivery(t) /\ Len(rows) <= Len(rows') /\ Len(rows') \in Nat /\ Len(rows) \in Nat
             /\ \A i \in DOMAIN rows' \ {n} : i \in DOMAIN rows /\ rows'[i] = rows[i]
      BY <1>6, CommitRows DEF Shape
    <2>5. Delivery(t).place = t.place
      BY <2>1, DeliveryShape
    <2>6. \A i \in DOMAIN rows' : rows'[i].place \in 1..places
      BY <2>2, <2>4, <2>5 DEF Counted
    <2>7. \A d \in placements' : d.place \in 1..places
      <3>1. placements' \subseteq placements \union {[slot |-> t.slot, carrier |-> t.decision, by |-> t.by, place |-> t.place]}
        BY <1>6, CommitMeans
      <3> QED
        BY <2>2, <3>1 DEF Counted
    <2>8. \A w \in Who \ {who} :
             /\ tx[w].stage # "commit" => tx'[w] = tx[w]
             /\ tx[w].stage = "commit" => tx'[w].stage = "commit" /\ tx'[w].place = tx[w].place /\ tx'[w].row = tx[w].row
      BY <1>6, CommitMeans DEF Same
    <2>9. \A w \in Who :
           /\ tx'[w].stage \in {"pin", "commit"} => tx'[w].place \in 1..places
           /\ tx'[w].stage # "none" => tx'[w].row \in 0..Len(rows')
           /\ tx'[w].stage = "resolve" => tx'[w].own <= own[tx'[w].by]
      <3> SUFFICES ASSUME NEW w \in Who
                   PROVE  /\ tx'[w].stage \in {"pin", "commit"} => tx'[w].place \in 1..places
                          /\ tx'[w].stage # "none" => tx'[w].row \in 0..Len(rows')
                          /\ tx'[w].stage = "resolve" => tx'[w].own <= own[tx'[w].by]
        OBVIOUS
      <3>1. CASE w = who
        BY <2>1, <3>1 DEF NoTx
      <3>2. CASE w # who /\ tx[w].stage = "commit"
        BY <2>4, <2>8, <3>2 DEF Counted, Placed
      <3>3. CASE w # who /\ tx[w].stage # "commit"
        BY <2>4, <2>8, <3>3 DEF Counted, Placed
      <3> QED
        BY <3>1, <3>2, <3>3
    <2> HIDE DEF t
    <2> QED
      BY <2>1, <2>3, <2>6, <2>7, <2>9 DEF Counted, Placed
  <1> QED
    BY <1>1, <1>2, <1>3, <1>4, <1>5, <1>6

LEMMA CountedRest ==
  ASSUME Shape, Counted,
         \/ \E i \in DOMAIN rows : Settle(i)
         \/ \E p \in Process, slot \in Slot : Evict(p, slot)
         \/ Tick \/ Links \/ Signals \/ UNCHANGED vars
  PROVE  Counted'
  <1>1. ASSUME NEW i \in DOMAIN rows, Settle(i) PROVE Counted'
    <2>1. /\ DOMAIN rows' = DOMAIN rows /\ Len(rows') = Len(rows) /\ \A j \in DOMAIN rows : rows'[j].place = rows[j].place
          /\ UNCHANGED <<now, cache, writing, decided, tx, placements, past, own, places>>
      BY <1>1, SettleMeans
    <2> QED
      BY <2>1 DEF Counted, Placed
  <1>2. ASSUME NEW p \in Process, NEW slot \in Slot, Evict(p, slot) PROVE Counted'
    <2>1. /\ decided' = [decided EXCEPT ![p][slot] = Undecided]
          /\ UNCHANGED <<now, cache, writing, rows, tx, placements, past, own, places>>
      BY <1>2 DEF Evict
    <2>2. \A q \in Process, s \in Slot : decided'[q][s] = Undecided \/ decided'[q][s] = decided[q][s]
      BY <2>1 DEF Shape
    <2>3. Undecided.carrier = "none" /\ Undecided.place = 0 /\ places \in Nat
      BY DEF Undecided, Shape
    <2>4. \A q \in Process, s \in Slot :
             /\ decided'[q][s].carrier = "js" => s[1] = "STREAM"
             /\ decided'[q][s].place <= places
      <3> SUFFICES ASSUME NEW q \in Process, NEW s \in Slot
                   PROVE  /\ decided'[q][s].carrier = "js" => s[1] = "STREAM"
                          /\ decided'[q][s].place <= places
        OBVIOUS
      <3>1. CASE decided'[q][s] = Undecided
        BY <2>3, <3>1
      <3>2. CASE decided'[q][s] = decided[q][s]
        BY <3>2 DEF Counted
      <3> QED
        BY <2>2, <3>1, <3>2
    <2> QED
      BY <2>1, <2>4 DEF Counted, Placed
  <1>3. CASE Tick
    <2>1. /\ now' = now + 1 /\ now \in Nat
          /\ UNCHANGED <<cache, writing, decided, rows, tx, placements, past, own, places>>
      BY <1>3 DEF Tick, Shape
    <2>2. \A p \in Process : cache'[p] # NoCache => cache'[p].at <= now'
      <3> SUFFICES ASSUME NEW p \in Process, cache[p] # NoCache PROVE cache[p].at <= now + 1
        BY <2>1
      <3>1. cache[p].at <= now /\ cache[p].at \in Nat
        BY DEF Counted, Shape, CacheRec
      <3> QED
        BY <2>1, <3>1
    <2> QED
      BY <2>1, <2>2 DEF Counted, Placed
  <1>4. CASE Links \/ Signals \/ UNCHANGED vars
    <2>1. UNCHANGED placementVars
      BY <1>4 DEF Links, Signals, vars
    <2> QED
      BY <2>1 DEF placementVars, Counted, Placed
  <1> QED
    BY <1>1, <1>2, <1>3, <1>4

-----------------------------------------------------------------------------
(* PoliciesKnown.                                                          *)
LEMMA KnownStill ==
  ASSUME Shape, PoliciesKnown, UNCHANGED <<past, table, now, own>>,
         \A p \in Process : cache'[p] # NoCache => cache'[p] = cache[p],
         loads' \subseteq loads,
         \A who \in Who : tx'[who].stage \in {"pin", "commit"} =>
            Placed(who) /\ tx'[who].policy = tx[who].policy /\ tx'[who].from = tx[who].from,
         DOMAIN rows' = DOMAIN rows,
         \A i \in DOMAIN rows : rows'[i].at = rows[i].at /\ rows'[i].policy = rows[i].policy /\ rows'[i].from = rows[i].from
  PROVE  PoliciesKnown'
  <1>1. \A p \in Process : cache'[p] # NoCache => Knows(past, cache'[p], own[p], cache'[p].at)
    BY DEF PoliciesKnown
  <1>2. \A l \in loads' : Knows(past, l, own[l.by], now)
    BY DEF PoliciesKnown
  <1>3. \A who \in Who : tx'[who].stage \in {"pin", "commit"} => PlacedBy(past, tx'[who], now)
    BY DEF PoliciesKnown, PlacedBy
  <1>4. \A i \in DOMAIN rows : rows'[i].at <= now /\ PlacedBy(past, rows'[i], rows'[i].at)
    BY DEF PoliciesKnown, PlacedBy
  <1> QED
    BY <1>1, <1>2, <1>3, <1>4 DEF PoliciesKnown, Placed

(* What the latest policies give.                                          *)
LEMMA PastFacts ==
  ASSUME Shape, Counted, PoliciesKnown
  PROVE  /\ Len(past) \in Nat /\ DOMAIN past = 1..Len(past) /\ now \in Nat /\ Reload \in Nat \ {0}
         /\ \A n \in DOMAIN past : past[n].at \in Nat /\ past[n].at <= now
         /\ \A p \in Process : Len(past) \in DOMAIN past /\ own[p] \in 1..Len(past)
  <1>1. Len(past) \in Nat /\ DOMAIN past = 1..Len(past) /\ now \in Nat /\ Reload \in Nat \ {0}
    BY PlacementBounds DEF Shape
  <1>2. \A n \in DOMAIN past : past[n] \in [at : Nat, policy : Policy]
    <2> DEFINE S == [at : Nat, policy : Policy]
    <2>1. past \in Seq(S)
      BY DEF Shape
    <2> HIDE DEF S
    <2>2. \A n \in DOMAIN past : past[n] \in S
      BY <2>1
    <2> QED
      BY <2>2 DEF S
  <1>3. \A n \in DOMAIN past : past[n].at \in Nat /\ past[n].at <= now
    BY <1>2 DEF PoliciesKnown
  <1>4. \A p \in Process : own[p] \in 1..Len(past)
    BY DEF Counted
  <1> QED
    BY <1>1, <1>3, <1>4

LEMMA KnownLoads ==
  ASSUME Shape, Counted, PoliciesKnown,
         NEW p \in Process, NEW who \in Who \union {"read"}, Select(p, who) \/ SelectFails(p, who)
  PROVE  PoliciesKnown'
  <1>1. PICK l \in LoadRec : loads' = loads \union {l} /\ l.by = p /\ (l.ok => l.rows = table /\ l.of = Len(past))
    BY LoadShape
  <1>2. UNCHANGED <<past, table, now, own, cache, tx, rows>>
    BY LoadShape
  <1>3. Knows(past, l, own[p], now)
    BY <1>1, PastFacts DEF Knows, InForce, PoliciesKnown
  <1>4. \A m \in loads' : Knows(past, m, own[m.by], now)
    BY <1>1, <1>3 DEF PoliciesKnown
  <1> QED
    BY <1>2, <1>4 DEF PoliciesKnown, Placed

(* A policy more, now, takes nothing from what was in force before.        *)
LEMMA InForceStill ==
  ASSUME NEW h \in Seq([at : Nat, policy : Policy]), NEW e \in [at : Nat, policy : Policy],
         NEW n, NEW policy, NEW at, NEW since \in Int, since <= e.at, InForce(h, n, policy, at, since)
  PROVE  InForce(Append(h, e), n, policy, at, since)
  <1>1. n \in 1..Len(h) /\ Len(h) \in Nat /\ DOMAIN h = 1..Len(h)
    BY DEF InForce
  <1> DEFINE g == Append(h, e)
  <1>2. Len(g) = Len(h) + 1 /\ DOMAIN g = 1..(Len(h) + 1) /\ g[Len(h) + 1] = e /\ \A m \in 1..Len(h) : g[m] = h[m]
    OBVIOUS
  <1> HIDE DEF g
  <1>3. CASE n = Len(h)
    <2>1. g[n] = h[n] /\ g[n + 1] = e /\ n \in DOMAIN g
      BY <1>1, <1>2, <1>3
    <2>2. h[n].policy = policy /\ h[n].at <= at
      BY DEF InForce
    <2> QED
      BY <2>1, <2>2 DEF InForce
  <1>4. CASE n # Len(h)
    <2>1. n + 1 \in 1..Len(h) /\ h[n + 1].at >= since
      BY <1>1, <1>4 DEF InForce
    <2> QED
      BY <1>1, <1>2, <2>1 DEF InForce
  <1> QED
    BY <1>3, <1>4 DEF g

LEMMA KnownWrite ==
  ASSUME Shape, Counted, PoliciesKnown, NEW p \in Process, NEW i \in 1..Patterns, NEW w, Write(p, i, w)
  PROVE  PoliciesKnown'
  <1> DEFINE e == [at |-> now, policy |-> BestMatch(table')]
  <1>1. /\ Len(past') = Len(past) + 1 /\ \A n \in DOMAIN past : past'[n] = past[n]
        /\ past'[Len(past) + 1] = e /\ past' = Append(past, e)
        /\ UNCHANGED <<now, cache, loads, tx, rows, own>>
    BY WriteMeans
  <1>2. e \in [at : Nat, policy : Policy] /\ e.at = now /\ e.policy = BestMatch(table') /\ now \in Nat
        /\ past \in Seq([at : Nat, policy : Policy])
    BY WriteMeans, BestMatchShape DEF Shape
  <1> HIDE DEF e
  <1>3. past'[Len(past')].policy = BestMatch(table') /\ \A n \in DOMAIN past' : past'[n].at <= now
    <2>1. Len(past) \in Nat /\ DOMAIN past = 1..Len(past) /\ DOMAIN past' = 1..(Len(past) + 1)
      BY <1>1, <1>2
    <2>2. \A n \in DOMAIN past' : n \in DOMAIN past \/ n = Len(past) + 1
      BY <2>1
    <2> QED
      BY <1>1, <1>2, <2>1, <2>2 DEF PoliciesKnown
  <1>4. ASSUME NEW k, NEW o, NEW at \in Int, at <= now, Knows(past, k, o, at)
        PROVE  Knows(past', k, o, at)
    <2> SUFFICES ASSUME k.ok PROVE InForce(past', k.of, BestMatch(k.rows), at, at) /\ (k.passed \/ k.of >= o)
      BY DEF Knows
    <2>1. InForce(past, k.of, BestMatch(k.rows), at, at) /\ (k.passed \/ k.of >= o)
      BY <1>4 DEF Knows
    <2>2. InForce(Append(past, e), k.of, BestMatch(k.rows), at, at)
      BY <1>2, <1>4, <2>1, InForceStill
    <2> QED
      BY <1>1, <2>1, <2>2
  <1>5. ASSUME NEW r, NEW at \in Int, at <= now, PlacedBy(past, r, at)
        PROVE  PlacedBy(past', r, at)
    <2>1. at - Reload + 1 \in Int /\ at - Reload + 1 <= now
      BY <1>2, <1>5, PastFacts
    <2> DEFINE since == at - Reload + 1
    <2> SUFFICES ASSUME r.from.ok
                 PROVE  InForce(past', r.from.of, r.policy, at, since) /\ (r.from.passed \/ r.from.of >= r.from.own)
      BY DEF PlacedBy
    <2>2. InForce(past, r.from.of, r.policy, at, since) /\ (r.from.passed \/ r.from.of >= r.from.own)
      BY <1>5 DEF PlacedBy
    <2>3. since \in Int /\ since <= e.at
      BY <1>2, <2>1
    <2> HIDE DEF since
    <2>4. InForce(Append(past, e), r.from.of, r.policy, at, since)
      BY <1>2, <2>2, <2>3, InForceStill
    <2> QED
      BY <1>1, <2>2, <2>4
  <1>6. \A q \in Process : cache[q] # NoCache => Knows(past', cache[q], own[q], cache[q].at)
    <2> SUFFICES ASSUME NEW q \in Process, cache[q] # NoCache PROVE Knows(past', cache[q], own[q], cache[q].at)
      OBVIOUS
    <2>1. cache[q].at \in Int /\ cache[q].at <= now /\ Knows(past, cache[q], own[q], cache[q].at)
      BY DEF Shape, CacheRec, Counted, PoliciesKnown
    <2> QED
      BY <1>4, <2>1
  <1>7. \A l \in loads : Knows(past', l, own[l.by], now)
    BY <1>2, <1>4 DEF PoliciesKnown
  <1>8. \A who \in Who : Placed(who) => PlacedBy(past', tx[who], now)
    BY <1>2, <1>5 DEF PoliciesKnown
  <1>9. \A r \in DOMAIN rows : rows[r].at <= now /\ PlacedBy(past', rows[r], rows[r].at)
    <2> SUFFICES ASSUME NEW r \in DOMAIN rows PROVE rows[r].at <= now /\ PlacedBy(past', rows[r], rows[r].at)
      OBVIOUS
    <2>1. rows[r].at \in Int /\ rows[r].at <= now /\ PlacedBy(past, rows[r], rows[r].at)
      BY RowFacts DEF Row, PoliciesKnown
    <2> QED
      BY <1>5, <2>1
  <1> QED
    BY <1>1, <1>3, <1>6, <1>7, <1>8, <1>9 DEF PoliciesKnown, Placed

LEMMA KnownWritten ==
  ASSUME Shape, Counted, PoliciesKnown, NEW p \in Process, Written(p)
  PROVE  PoliciesKnown'
  <1>1. /\ own' = [own EXCEPT ![p] = writing[p]] /\ cache' = [cache EXCEPT ![p] = NoCache]
        /\ UNCHANGED <<now, table, tx, rows, past>>
    BY WrittenMeans
  <1>2. \A q \in Process : cache'[q] # NoCache => Knows(past, cache'[q], own'[q], cache'[q].at)
    BY <1>1 DEF PoliciesKnown, Shape
  <1>3. \A m \in loads' : Knows(past, m, own'[m.by], now)
    <2> SUFFICES ASSUME NEW m \in loads' PROVE Knows(past, m, own'[m.by], now)
      OBVIOUS
    <2>1. PICK l \in loads : /\ m.by = l.by /\ m.who = l.who /\ m.ok = l.ok /\ m.rows = l.rows /\ m.of = l.of
                             /\ m.passed = (l.passed \/ l.by = p)
      BY WrittenMeans
    <2>2. Knows(past, l, own[l.by], now) /\ l.by \in Process
      BY DEF PoliciesKnown, Shape, LoadRec
    <2>3. l.by # p => own'[l.by] = own[l.by]
      BY <1>1, <2>2 DEF Shape
    <2> QED
      BY <2>1, <2>2, <2>3 DEF Knows
  <1> QED
    BY <1>1, <1>2, <1>3 DEF PoliciesKnown, Placed

(* A placement by what is known of the table.                              *)
LEMMA KnownPlaces ==
  ASSUME Shape, Counted, PoliciesKnown,
         NEW p \in Process, NEW who \in Who, Resolving(p, who), NEW c \in CacheRec, NEW carrier \in Chosen, NEW t \in Places,
         PlacesBy(p, who, c, carrier, t), Knows(past, c, own[p], c.at), c.at <= now, now - c.at < Reload,
         UNCHANGED <<now, table, rows, past, own>>,
         \A q \in Process : cache'[q] # NoCache => Knows(past, cache'[q], own[q], cache'[q].at),
         loads' \subseteq loads
  PROVE  PoliciesKnown'
  <1>1. /\ t.policy = BestMatch(c.rows) /\ tx' = [tx EXCEPT ![who] = t]
        /\ t.from.of = c.of /\ t.from.ok = c.ok /\ t.from.passed = c.passed /\ t.from.own = tx[who].own
    BY DEF PlacesBy
  <1>2. c.at \in Nat /\ c.of \in Nat /\ tx[who].own \in Nat /\ own[p] \in Nat /\ tx[who].own <= own[p]
    BY TxKinds DEF CacheRec, Resolves, Resolving, Counted, Shape
  <1>3. PlacedBy(past, t, now)
    <2> SUFFICES ASSUME c.ok
                 PROVE  InForce(past, c.of, t.policy, now, now - Reload + 1) /\ (c.passed \/ c.of >= tx[who].own)
      BY <1>1 DEF PlacedBy
    <2>1. InForce(past, c.of, t.policy, c.at, c.at) /\ (c.passed \/ c.of >= own[p])
      BY <1>1 DEF Knows
    <2>2. /\ now \in Nat /\ Reload \in Nat /\ DOMAIN past = 1..Len(past) /\ Len(past) \in Nat
          /\ \A n \in DOMAIN past : past[n].at \in Nat
      BY PastFacts
    <2>3. InForce(past, c.of, t.policy, now, now - Reload + 1)
      BY <1>2, <2>1, <2>2, SMTT(30) DEF InForce
    <2> QED
      BY <1>2, <2>1, <2>3
  <1>4. \A w \in Who : tx'[w].stage \in {"pin", "commit"} => PlacedBy(past, tx'[w], now)
    <2> SUFFICES ASSUME NEW w \in Who, tx'[w].stage \in {"pin", "commit"} PROVE PlacedBy(past, tx'[w], now)
      OBVIOUS
    <2>1. CASE w = who
      BY <1>1, <1>3, <2>1 DEF Shape
    <2>2. CASE w # who
      <3>1. tx'[w] = tx[w]
        BY <1>1, <2>2 DEF Shape
      <3> QED
        BY <3>1 DEF PoliciesKnown, Placed
    <2> QED
      BY <2>1, <2>2
  <1> QED
    BY <1>4 DEF PoliciesKnown, Placed

LEMMA KnownTx ==
  ASSUME Shape, Counted, PoliciesKnown,
         \/ \E p \in Process, who \in Who : PlaceFresh(p, who)
         \/ \E l \in loads : LoadEnds(l)
         \/ \E p \in Process : Publish(p) \/ Requeue(p)
         \/ \E who \in Who : Pin(who) \/ Commit(who) \/ Rollback(who)
  PROVE  PoliciesKnown'
  <1>1. ASSUME NEW p \in Process, NEW who \in Who, PlaceFresh(p, who) PROVE PoliciesKnown'
    <2>1. PICK carrier \in Chosen, t \in Places : PlacesBy(p, who, cache[p], carrier, t)
      BY <1>1, PlaceSteps, PlaceMeans
    <2>2. /\ Resolving(p, who) /\ cache[p] \in CacheRec /\ cache[p] # NoCache /\ now - cache[p].at < Reload
          /\ UNCHANGED <<now, table, cache, loads, rows, past, own>>
      BY <1>1, PlaceSteps
    <2>3. Knows(past, cache[p], own[p], cache[p].at) /\ cache[p].at <= now
      BY <2>2 DEF PoliciesKnown, Counted
    <2>4. \A q \in Process : cache'[q] # NoCache => Knows(past, cache'[q], own[q], cache'[q].at)
      BY <2>2 DEF PoliciesKnown
    <2> QED
      BY <2>1, <2>2, <2>3, <2>4, KnownPlaces
  <1>2. ASSUME NEW l \in loads, LoadEnds(l) PROVE PoliciesKnown'
    <2> DEFINE c == Loaded(l)
    <2>1. /\ l.by \in Process /\ c \in CacheRec /\ c.at = now /\ c.ok = l.ok /\ c.of = l.of /\ c.rows = l.rows
          /\ c.passed = l.passed /\ now \in Nat /\ Reload \in Nat \ {0}
      BY LoadedShape, PlacementBounds DEF LoadRec, Shape
    <2>2. /\ cache' = [cache EXCEPT ![l.by] = c] /\ loads' \subseteq loads
          /\ UNCHANGED <<now, table, rows, past, own>>
      BY <1>2 DEF LoadEnds
    <2>3. Resolving(l.by, l.who) => l.who \in Who /\ Place(l.by, l.who, c)
      BY <1>2 DEF LoadEnds, Resolving
    <2> HIDE DEF c
    <2>4. Knows(past, c, own[l.by], c.at)
      <3>1. Knows(past, l, own[l.by], now)
        BY DEF PoliciesKnown
      <3> QED
        BY <2>1, <3>1 DEF Knows
    <2>5. \A q \in Process : cache'[q] # NoCache => Knows(past, cache'[q], own[q], cache'[q].at)
      <3> SUFFICES ASSUME NEW q \in Process, cache'[q] # NoCache PROVE Knows(past, cache'[q], own[q], cache'[q].at)
        OBVIOUS
      <3>1. CASE q = l.by
        <4>1. cache'[q] = c
          BY <2>2, <3>1 DEF Shape
        <4> QED
          BY <2>4, <3>1, <4>1
      <3>2. CASE q # l.by
        <4>1. cache'[q] = cache[q]
          BY <2>2, <3>2 DEF Shape
        <4> QED
          BY <4>1 DEF PoliciesKnown
      <3> QED
        BY <3>1, <3>2
    <2>6. CASE Resolving(l.by, l.who)
      <3>1. PICK carrier \in Chosen, t \in Places : PlacesBy(l.by, l.who, c, carrier, t)
        BY <2>1, <2>3, <2>6, PlaceMeans
      <3> QED
        BY <2>1, <2>2, <2>3, <2>4, <2>5, <2>6, <3>1, KnownPlaces
    <2>7. CASE ~Resolving(l.by, l.who)
      <3>1. UNCHANGED tx
        BY <1>2, <2>7 DEF LoadEnds
      <3>2. \A m \in loads' : Knows(past, m, own[m.by], now)
        BY <2>2 DEF PoliciesKnown
      <3> QED
        BY <2>2, <2>5, <3>1, <3>2 DEF PoliciesKnown, Placed
    <2> QED
      BY <2>6, <2>7
  <1>3. ASSUME NEW p \in Process, Publish(p) \/ Requeue(p) PROVE PoliciesKnown'
    <2>1. PICK who \in Who, t \in Resolves : tx' = [tx EXCEPT ![who] = t] /\ t.stage = "resolve"
      BY <1>3, BeginsMeans
    <2>2. UNCHANGED <<past, table, now, own, cache, loads, rows>>
      BY <1>3, BeginsMeans
    <2>3. \A w \in Who : tx'[w].stage \in {"pin", "commit"} => Placed(w) /\ tx'[w] = tx[w]
      BY <2>1 DEF Shape, Placed
    <2> QED
      BY <2>2, <2>3, KnownStill
  <1>4. ASSUME NEW who \in Who, Pin(who) PROVE PoliciesKnown'
    <2>1. PICK u \in Places : tx' = [tx EXCEPT ![who] = u] /\ Same(u, tx[who])
      BY <1>4, PinMeans
    <2>2. UNCHANGED <<past, table, now, own, cache, loads, rows>> /\ Placed(who)
      BY <1>4 DEF Pin, Placed
    <2>3. \A w \in Who : tx'[w].stage \in {"pin", "commit"} =>
             Placed(w) /\ tx'[w].policy = tx[w].policy /\ tx'[w].from = tx[w].from
      BY <2>1, <2>2 DEF Shape, Placed, Same
    <2> QED
      BY <2>2, <2>3, KnownStill
  <1>5. ASSUME NEW who \in Who, Rollback(who) PROVE PoliciesKnown'
    <2>1. UNCHANGED <<past, table, now, own, cache, loads, rows>> /\ tx' = [tx EXCEPT ![who] = NoTx]
      BY <1>5 DEF Rollback
    <2>2. \A w \in Who : tx'[w].stage \in {"pin", "commit"} => Placed(w) /\ tx'[w] = tx[w]
      BY <2>1 DEF Shape, Placed, NoTx
    <2> QED
      BY <2>1, <2>2, KnownStill
  <1>6. ASSUME NEW who \in Who, Commit(who) PROVE PoliciesKnown'
    <2> DEFINE t == tx[who]
    <2>1. t \in Places /\ Placed(who) /\ t.row \in 0..Len(rows) /\ tx'[who] = NoTx
      BY <1>6, CommitMeans DEF Placed
    <2>2. UNCHANGED <<past, table, now, own, cache, loads>>
      BY <1>6 DEF Commit
    <2>3. \A w \in Who : tx'[w].stage \in {"pin", "commit"} => PlacedBy(past, tx'[w], now)
      <3> SUFFICES ASSUME NEW w \in Who, tx'[w].stage \in {"pin", "commit"} PROVE PlacedBy(past, tx'[w], now)
        OBVIOUS
      <3>1. w # who
        BY <2>1 DEF NoTx
      <3>2. CASE tx[w].stage = "commit"
        <4>1. Same(tx'[w], tx[w])
          BY <1>6, <3>1, <3>2, CommitMeans
        <4> QED
          BY <3>2, <4>1 DEF PoliciesKnown, Placed, PlacedBy, Same
      <3>3. CASE tx[w].stage # "commit"
        <4>1. tx'[w] = tx[w]
          BY <1>6, <3>1, <3>3, CommitMeans
        <4> QED
          BY <4>1 DEF PoliciesKnown, Placed
      <3> QED
        BY <3>2, <3>3
    <2>4. PICK n \in DOMAIN rows' :
             /\ rows'[n] = Delivery(t)
             /\ \A i \in DOMAIN rows' \ {n} : i \in DOMAIN rows /\ rows'[i] = rows[i]
      BY <1>6, CommitRows
    <2>5. Delivery(t).at = now /\ Delivery(t).policy = t.policy /\ Delivery(t).from = t.from /\ now \in Nat
      BY <2>1, DeliveryShape DEF Shape
    <2>6. PlacedBy(past, Delivery(t), now)
      <3>1. PlacedBy(past, t, now)
        BY <2>1 DEF PoliciesKnown
      <3> HIDE DEF t
      <3> QED
        BY <2>5, <3>1 DEF PlacedBy
    <2>7. \A i \in DOMAIN rows' : rows'[i].at <= now /\ PlacedBy(past, rows'[i], rows'[i].at)
      <3> SUFFICES ASSUME NEW i \in DOMAIN rows' PROVE rows'[i].at <= now /\ PlacedBy(past, rows'[i], rows'[i].at)
        OBVIOUS
      <3> HIDE DEF t
      <3>1. CASE i = n
        BY <2>4, <2>5, <2>6, <3>1
      <3>2. CASE i # n
        <4>1. i \in DOMAIN rows /\ rows'[i] = rows[i]
          BY <2>4, <3>2
        <4> QED
          BY <4>1 DEF PoliciesKnown
      <3> QED
        BY <3>1, <3>2
    <2> QED
      BY <2>2, <2>3, <2>7 DEF PoliciesKnown, Placed
  <1> QED
    BY <1>1, <1>2, <1>3, <1>4, <1>5, <1>6

LEMMA KnownRest ==
  ASSUME Shape, Counted, PoliciesKnown,
         \/ \E p \in Process : Timer(p)
         \/ \E i \in DOMAIN rows : Settle(i)
         \/ \E p \in Process, slot \in Slot : Evict(p, slot)
         \/ Tick \/ Links \/ Signals \/ UNCHANGED vars
  PROVE  PoliciesKnown'
  <1>1. ASSUME NEW p \in Process, Timer(p) PROVE PoliciesKnown'
    <2>1. UNCHANGED <<past, table, now, own, loads, tx, rows>> /\ cache' = [cache EXCEPT ![p] = NoCache]
      BY <1>1 DEF Timer
    <2>2. \A q \in Process : cache'[q] # NoCache => cache'[q] = cache[q]
      BY <2>1 DEF Shape
    <2> QED
      BY <2>1, <2>2, KnownStill DEF Placed
  <1>2. ASSUME NEW i \in DOMAIN rows, Settle(i) PROVE PoliciesKnown'
    <2>1. /\ DOMAIN rows' = DOMAIN rows /\ UNCHANGED <<past, table, now, own, loads, tx, cache>>
          /\ \A j \in DOMAIN rows : rows'[j].at = rows[j].at /\ rows'[j].policy = rows[j].policy /\ rows'[j].from = rows[j].from
      BY <1>2, SettleMeans
    <2> QED
      BY <2>1, KnownStill DEF Placed
  <1>3. CASE (\E p \in Process, slot \in Slot : Evict(p, slot)) \/ Links \/ Signals \/ UNCHANGED vars
    <2>1. UNCHANGED <<past, table, now, own, loads, tx, cache, rows>>
      BY <1>3 DEF Evict, Links, Signals, vars, placementVars
    <2> QED
      BY <2>1, KnownStill DEF Placed
  <1>4. CASE Tick
    <2>1. /\ now' = now + 1 /\ now \in Nat /\ loads = {} /\ (\A w \in Who : tx[w] = NoTx)
          /\ UNCHANGED <<past, table, own, loads, tx, cache, rows>>
      BY <1>4 DEF Tick, Shape
    <2>2. \A n \in DOMAIN past : past[n].at <= now + 1
      <3> SUFFICES ASSUME NEW n \in DOMAIN past PROVE past[n].at <= now + 1
        OBVIOUS
      <3>1. past[n].at \in Nat /\ past[n].at <= now
        BY PastFacts
      <3> QED
        BY <2>1, <3>1
    <2>3. \A i \in DOMAIN rows : rows[i].at <= now + 1
      <3> SUFFICES ASSUME NEW i \in DOMAIN rows PROVE rows[i].at <= now + 1
        OBVIOUS
      <3>1. rows[i].at \in Nat /\ rows[i].at <= now
        BY RowFacts DEF Row, PoliciesKnown
      <3> QED
        BY <2>1, <3>1
    <2>4. \A w \in Who : tx[w].stage = "none"
      BY <2>1 DEF NoTx
    <2> QED
      BY <2>1, <2>2, <2>3, <2>4 DEF PoliciesKnown, Placed
  <1> QED
    BY <1>1, <1>2, <1>3, <1>4

-----------------------------------------------------------------------------
(* PinHolds and OneCarrierPerBacklog.                                      *)
LEMMA PinsStill ==
  ASSUME PinHolds, OneCarrierPerBacklog, DOMAIN rows' = DOMAIN rows,
         \A i \in DOMAIN rows : /\ rows'[i].key = rows[i].key /\ rows'[i].carrier = rows[i].carrier
                                /\ rows'[i].apart = rows[i].apart /\ (rows'[i].open => rows[i].open),
         \A w \in Who : tx'[w].stage = "commit" => /\ tx[w].stage = "commit" /\ tx'[w].raced = tx[w].raced
                                                   /\ tx'[w].slot = tx[w].slot /\ tx'[w].carrier = tx[w].carrier
  PROVE  PinHolds' /\ OneCarrierPerBacklog'
  <1>1. PinHolds'
    <2> SUFFICES ASSUME NEW w \in Who, tx'[w].stage = "commit", ~tx'[w].raced, tx'[w].slot[2] # NoKey,
                        NEW i \in DOMAIN rows', rows'[i].open, rows'[i].key = tx'[w].slot[2]
                 PROVE  ~rows'[i].apart /\ rows'[i].carrier = tx'[w].carrier
      BY DEF PinHolds, Backlog
    <2>1. /\ tx[w].stage = "commit" /\ ~tx[w].raced /\ tx[w].slot[2] # NoKey
          /\ i \in DOMAIN rows /\ rows[i].open /\ rows[i].key = tx[w].slot[2]
      OBVIOUS
    <2> QED
      BY <2>1 DEF PinHolds, Backlog
  <1>2. OneCarrierPerBacklog'
    BY DEF OneCarrierPerBacklog
  <1> QED
    BY <1>1, <1>2

LEMMA PinsPin ==
  ASSUME Shape, PinHolds, OneCarrierPerBacklog, NEW who \in Who, Pin(who)
  PROVE  PinHolds' /\ OneCarrierPerBacklog'
  <1>1. PICK u \in Places :
            /\ tx' = [tx EXCEPT ![who] = u] /\ u.stage = "commit"
            /\ u.raced = \E i \in Backlog(u.slot[2]) : rows[i].apart
            /\ u.slot[2] # NoKey /\ Backlog(u.slot[2]) # {} => u.carrier = rows[First(Backlog(u.slot[2]))].carrier
    BY PinMeans
  <1>2. rows' = rows
    BY DEF Pin
  <1>3. OneCarrierPerBacklog'
    BY <1>2 DEF OneCarrierPerBacklog
  <1>4. ASSUME ~u.raced, u.slot[2] # NoKey, NEW i \in Backlog(u.slot[2])
        PROVE  ~rows[i].apart /\ rows[i].carrier = u.carrier
    <2> DEFINE f == First(Backlog(u.slot[2]))
    <2>1. f \in Backlog(u.slot[2])
      BY BacklogFacts
    <2>2. u.carrier = rows[f].carrier /\ ~rows[f].apart /\ ~rows[i].apart
      BY <1>1, <1>4, <2>1
    <2> HIDE DEF f
    <2> QED
      BY <1>4, <2>1, <2>2 DEF OneCarrierPerBacklog, Backlog
  <1>5. PinHolds'
    <2> SUFFICES ASSUME NEW w \in Who, tx'[w].stage = "commit", ~tx'[w].raced, tx'[w].slot[2] # NoKey,
                        NEW i \in Backlog(tx'[w].slot[2])
                 PROVE  ~rows[i].apart /\ rows[i].carrier = tx'[w].carrier
      BY <1>2 DEF PinHolds, Backlog
    <2>1. CASE w = who
      <3>1. tx'[w] = u
        BY <1>1, <2>1 DEF Shape
      <3> QED
        BY <1>4, <3>1
    <2>2. CASE w # who
      <3>1. tx'[w] = tx[w]
        BY <1>1, <2>2 DEF Shape
      <3> QED
        BY <3>1 DEF PinHolds
    <2> QED
      BY <2>1, <2>2
  <1> QED
    BY <1>3, <1>5

LEMMA PinsCommit ==
  ASSUME Shape, Counted, PinHolds, OneCarrierPerBacklog, NEW who \in Who, Commit(who)
  PROVE  PinHolds' /\ OneCarrierPerBacklog'
  <1> DEFINE t == tx[who]
  <1>1. t \in Places /\ t.stage = "commit" /\ t.row \in 0..Len(rows) /\ tx'[who].stage = "none"
    BY CommitMeans DEF NoTx
  <1>2. PICK n \in DOMAIN rows' :
             /\ rows'[n] = Delivery(t)
             /\ \A i \in DOMAIN rows' \ {n} : i \in DOMAIN rows /\ rows'[i] = rows[i]
    BY CommitRows
  <1>3. /\ Delivery(t).carrier = t.carrier
        /\ Delivery(t).apart = (t.raced \/ Delivery(t).key # t.slot[2])
    BY <1>1, DeliveryShape
  <1>4. ASSUME NEW i \in DOMAIN rows', i # n, rows'[i].open, rows'[i].key = rows'[n].key, rows'[n].key # NoKey,
               ~rows'[n].apart
        PROVE  rows'[i].carrier = rows'[n].carrier
    <2>1. i \in DOMAIN rows /\ rows'[i] = rows[i]
      BY <1>2, <1>4
    <2>2. ~t.raced /\ rows'[n].key = t.slot[2]
      BY <1>2, <1>3, <1>4
    <2>3. i \in Backlog(t.slot[2]) /\ t.slot[2] # NoKey
      BY <1>4, <2>1, <2>2 DEF Backlog
    <2>4. rows[i].carrier = t.carrier
      BY <1>1, <2>2, <2>3 DEF PinHolds
    <2> QED
      BY <1>2, <1>3, <2>1, <2>4
  <1> HIDE DEF t
  <1>5. OneCarrierPerBacklog'
    <2> SUFFICES ASSUME NEW i \in DOMAIN rows', NEW j \in DOMAIN rows',
                        rows'[i].open, rows'[j].open, rows'[i].key = rows'[j].key, rows'[i].key # NoKey,
                        ~rows'[i].apart, ~rows'[j].apart
                 PROVE  rows'[i].carrier = rows'[j].carrier
      BY DEF OneCarrierPerBacklog
    <2>1. CASE i = n /\ j # n
      BY <1>4, <2>1
    <2>2. CASE j = n /\ i # n
      BY <1>4, <2>2
    <2>3. CASE i # n /\ j # n
      <3>1. i \in DOMAIN rows /\ rows'[i] = rows[i] /\ j \in DOMAIN rows /\ rows'[j] = rows[j]
        BY <1>2, <2>3
      <3> QED
        BY <3>1 DEF OneCarrierPerBacklog
    <2> QED
      BY <2>1, <2>2, <2>3
  <1>6. ASSUME NEW w \in Who, tx'[w].stage = "commit"
        PROVE  tx'[w].raced
    <2>1. w # who
      BY <1>1, <1>6
    <2> QED
      BY <1>6, <2>1, CommitMeans
  <1>7. PinHolds'
    BY <1>6 DEF PinHolds
  <1> QED
    BY <1>5, <1>7

-----------------------------------------------------------------------------
(* PlacesApart and Decisions.                                              *)

LEMMA TakenBounded ==
  ASSUME Shape, Counted, NEW by, NEW slot
  PROVE  Taken(placements, tx, by, slot) \subseteq 1..places
  <1>1. \A d \in placements : d.place \in 1..places
    BY DEF Counted
  <1>2. \A w \in Who : tx[w].stage \in {"pin", "commit"} => tx[w].place \in 1..places
    BY DEF Counted, Placed
  <1> QED
    BY <1>1, <1>2 DEF Taken

(* What explained a delivery still does, when what is taken anew is later. *)
Grows(recorded, under) ==
    \A by, slot : Taken(recorded, under, by, slot) \subseteq Taken(placements, tx, by, slot) \union {n \in Nat : n > places}

LEMMA ExplainedStill ==
  ASSUME Shape, NEW recorded, NEW under, placements \subseteq recorded, Grows(recorded, under),
         NEW r, NEW q, q.by = r.by, q.slot = r.slot, q.decision = r.decision, q.place = r.place,
         r.place \in Nat, r.place <= places, ExplainedBy(placements, tx, r)
  PROVE  ExplainedBy(recorded, under, q)
  <1>1. PICK d \in placements :
           /\ d.by = r.by /\ d.slot = r.slot /\ d.carrier = r.decision /\ d.place <= r.place
           /\ LatestOf(Taken(placements, tx, r.by, r.slot), r.place, d.place)
    BY DEF ExplainedBy
  <1>2. Taken(recorded, under, r.by, r.slot) \subseteq Taken(placements, tx, r.by, r.slot) \union {n \in Nat : n > places}
    BY DEF Grows
  <1>3. places \in Nat
    BY DEF Shape
  <1>4. LatestOf(Taken(recorded, under, r.by, r.slot), r.place, d.place)
    BY <1>1, <1>2, <1>3 DEF LatestOf
  <1> QED
    BY <1>1, <1>4 DEF ExplainedBy

(* Nothing is placed, recorded or decided anew.                            *)
LEMMA DecidedStill ==
  ASSUME Shape, Counted, PlacesApart, Decisions, UNCHANGED <<placements, places>>,
         \A p \in Process, slot \in Slot : decided'[p][slot] = decided[p][slot] \/ decided'[p][slot] = Undecided,
         \A w \in Who : tx'[w].stage \in {"pin", "commit"} => Placed(w) /\ Same(tx'[w], tx[w]),
         DOMAIN rows' = DOMAIN rows,
         \A i \in DOMAIN rows : /\ rows'[i].slot = rows[i].slot /\ rows'[i].decision = rows[i].decision /\ rows'[i].by = rows[i].by
                                /\ rows'[i].place = rows[i].place /\ rows'[i].stored = rows[i].stored
  PROVE  PlacesApart' /\ Decisions'
  <1>1. PlacesApart'
    BY DEF PlacesApart, Placed, Same
  <1>2. \A by, slot : Taken(placements, tx', by, slot) \subseteq Taken(placements, tx, by, slot)
    <2> SUFFICES ASSUME NEW by, NEW slot, NEW n \in Taken(placements, tx', by, slot)
                 PROVE  n \in Taken(placements, tx, by, slot)
      OBVIOUS
    <2>1. CASE \E d \in placements : d.by = by /\ d.slot = slot /\ n = d.place
      BY <2>1 DEF Taken
    <2>2. CASE \E w \in Who : /\ tx'[w].stage \in {"pin", "commit"} /\ tx'[w].record
                            /\ tx'[w].by = by /\ tx'[w].slot = slot /\ n = tx'[w].place
      <3>1. PICK w \in Who : /\ tx'[w].stage \in {"pin", "commit"} /\ tx'[w].record
                            /\ tx'[w].by = by /\ tx'[w].slot = slot /\ n = tx'[w].place
        BY <2>2
      <3>2. /\ tx[w].stage \in {"pin", "commit"} /\ tx[w].record
            /\ tx[w].by = by /\ tx[w].slot = slot /\ n = tx[w].place
        BY <3>1 DEF Same, Placed
      <3> QED
        BY <3>2 DEF Taken
    <2> QED
      BY <2>1, <2>2 DEF Taken
  <1>3. Grows(placements, tx')
    BY <1>2 DEF Grows
  <1>4. \A p \in Process, slot \in Slot :
          /\ decided'[p][slot].carrier # "none" => LatestOf(Taken(placements, tx', p, slot), places, decided'[p][slot].place)
          /\ decided'[p][slot].stored =>
                [slot |-> slot, carrier |-> decided'[p][slot].carrier, by |-> p, place |-> decided'[p][slot].place] \in placements
    <2> SUFFICES ASSUME NEW p \in Process, NEW slot \in Slot
                 PROVE  /\ decided'[p][slot].carrier # "none" =>
                              LatestOf(Taken(placements, tx', p, slot), places, decided'[p][slot].place)
                        /\ decided'[p][slot].stored =>
                              [slot |-> slot, carrier |-> decided'[p][slot].carrier, by |-> p, place |-> decided'[p][slot].place]
                              \in placements
      OBVIOUS
    <2>1. CASE decided'[p][slot] = Undecided
      BY <2>1 DEF Undecided
    <2>2. CASE decided'[p][slot] = decided[p][slot]
      BY <2>2, <1>2 DEF Decisions, LatestOf
    <2> QED
      BY <2>1, <2>2
  <1>5. ASSUME NEW w \in Who, tx'[w].stage \in {"pin", "commit"}
        PROVE  /\ Placed(w) /\ tx[w] \in Places /\ tx[w].place \in Nat /\ tx[w].place <= places
               /\ tx'[w].by = tx[w].by /\ tx'[w].slot = tx[w].slot /\ tx'[w].decision = tx[w].decision
               /\ tx'[w].place = tx[w].place /\ tx'[w].record = tx[w].record /\ tx'[w].stored = tx[w].stored
    BY <1>5, TxKinds DEF Same, Counted, Shape
  <1>6. \A w \in Who : tx'[w].stage \in {"pin", "commit"} /\ tx'[w].record /\ decided'[tx'[w].by][tx'[w].slot].place = tx'[w].place
                           => decided'[tx'[w].by][tx'[w].slot].carrier = tx'[w].decision
    <2> SUFFICES ASSUME NEW w \in Who, tx'[w].stage \in {"pin", "commit"}, tx'[w].record,
                        decided'[tx'[w].by][tx'[w].slot].place = tx'[w].place
                 PROVE  decided'[tx'[w].by][tx'[w].slot].carrier = tx'[w].decision
      OBVIOUS
    <2> DEFINE by == tx[w].by
               slot == tx[w].slot
    <2>1. /\ tx'[w].by = by /\ tx'[w].slot = slot /\ by \in Process /\ slot \in Slot /\ Recording(w)
          /\ tx[w].place \in 1..places /\ tx'[w].place = tx[w].place /\ tx'[w].decision = tx[w].decision
      BY <1>5 DEF Places, Recording, Counted
    <2> HIDE DEF by, slot
    <2>2. decided'[by][slot] # Undecided
      <3>1. Undecided.place = 0 /\ decided'[by][slot].place = tx[w].place
        BY <2>1 DEF Undecided
      <3> QED
        BY <2>1, <3>1
    <2>3. decided'[by][slot] = decided[by][slot]
      BY <2>1, <2>2
    <2>4. Recording(w) /\ decided[tx[w].by][tx[w].slot].place = tx[w].place
      BY <2>1, <2>3 DEF by, slot
    <2>5. decided[tx[w].by][tx[w].slot].carrier = tx[w].decision
      BY <2>4 DEF Decisions
    <2> QED
      BY <2>1, <2>3, <2>5 DEF by, slot
  <1>7. \A w \in Who : tx'[w].stage \in {"pin", "commit"} /\ tx'[w].stored /\ ~tx'[w].record => ExplainedBy(placements, tx', tx'[w])
    <2> SUFFICES ASSUME NEW w \in Who, tx'[w].stage \in {"pin", "commit"}, tx'[w].stored, ~tx'[w].record
                 PROVE  ExplainedBy(placements, tx', tx'[w])
      OBVIOUS
    <2>1. ExplainedBy(placements, tx, tx[w])
      BY <1>5 DEF Decisions
    <2> QED
      BY <1>3, <1>5, <2>1, ExplainedStill
  <1>8. \A i \in DOMAIN rows : rows'[i].stored => ExplainedBy(placements, tx', rows'[i])
    <2> SUFFICES ASSUME NEW i \in DOMAIN rows, rows'[i].stored PROVE ExplainedBy(placements, tx', rows'[i])
      OBVIOUS
    <2>1. rows[i].place \in 1..places /\ places \in Nat
      BY DEF Counted, Shape
    <2>2. rows[i].stored => ExplainedBy(placements, tx, rows[i])
      BY DEF Decisions
    <2>3. rows[i].place \in Nat /\ rows[i].place <= places
      BY <2>1
    <2> QED
      BY <1>3, <2>2, <2>3, ExplainedStill
  <1> QED
    BY <1>1, <1>4, <1>6, <1>7, <1>8 DEF Decisions, Recording, Placed

(* A decision is taken: it is later than every other.                      *)
LEMMA DecidedPlaces ==
  ASSUME Shape, Counted, PlacesApart, Decisions,
         NEW p \in Process, NEW who \in Who, Resolving(p, who), NEW c, NEW carrier \in Chosen, NEW t \in Places,
         PlacesBy(p, who, c, carrier, t), UNCHANGED <<rows, placements>>
  PROVE  PlacesApart' /\ Decisions'
  <1> DEFINE s == t.slot
  <1>1. /\ tx[who].stage = "resolve" /\ tx'[who] = t /\ \A w \in Who \ {who} : tx'[w] = tx[w]
        /\ places \in Nat /\ places' = places + 1
        /\ t.stage = "pin" /\ t.by = p /\ s \in Slot /\ t.decision = carrier /\ t.place = places + 1
    BY DEF PlacesBy, Resolving, Shape
  <1>2. /\ t.record = (decided[p][s].carrier # carrier)
        /\ t.stored = (decided[p][s].stored \/ decided[p][s].carrier # carrier)
    BY DEF PlacesBy
  <1>3. \A q \in Process, slot \in Slot :
          decided'[q][slot] = IF q = p /\ slot = s /\ t.record THEN [carrier |-> carrier, stored |-> FALSE, place |-> places + 1]
                              ELSE decided[q][slot]
    <2> DEFINE new == IF decided[p][s].carrier # carrier THEN [carrier |-> carrier, stored |-> FALSE, place |-> places + 1]
                      ELSE decided[p][s]
    <2>1. decided' = [decided EXCEPT ![p][s] = new] /\ decided \in [Process -> [Slot -> Decision]]
      BY DEF PlacesBy, Shape
    <2>2. new = IF t.record THEN [carrier |-> carrier, stored |-> FALSE, place |-> places + 1] ELSE decided[p][s]
      BY <1>2
    <2> HIDE DEF new, s
    <2>3. \A q \in Process, slot \in Slot : decided'[q][slot] = IF q = p /\ slot = s THEN new ELSE decided[q][slot]
      BY <1>1, <2>1
    <2> QED
      BY <2>2, <2>3
  <1>4. \A w \in Who \ {who} : /\ tx'[w].stage \in {"pin", "commit"} => Placed(w)
                               /\ Placed(w) => tx[w] \in Places /\ tx[w].place \in 1..places
    BY <1>1, TxKinds DEF Placed, Counted
  <1>5. \A d \in placements : d.place \in 1..places
    BY DEF Counted
  <1> HIDE DEF s
  <1>6. PlacesApart'
    <2>1. \A w \in Who : Placed(w)' => \A d \in placements' : d.place # tx'[w].place
      <3> SUFFICES ASSUME NEW w \in Who, tx'[w].stage \in {"pin", "commit"}, NEW d \in placements
                   PROVE  d.place # tx'[w].place
        BY DEF Placed
      <3>1. CASE w = who
        BY <1>1, <1>5, <3>1
      <3>2. CASE w # who
        BY <1>1, <1>4, <3>2 DEF PlacesApart
      <3> QED
        BY <3>1, <3>2
    <2>2. \A v, w \in Who : Placed(v)' /\ Placed(w)' /\ tx'[v].place = tx'[w].place => v = w
      <3> SUFFICES ASSUME NEW v \in Who, NEW w \in Who, tx'[v].stage \in {"pin", "commit"}, tx'[w].stage \in {"pin", "commit"},
                          tx'[v].place = tx'[w].place, v # w
                   PROVE  FALSE
        BY DEF Placed
      <3>1. CASE v = who
        BY <1>1, <1>4, <3>1
      <3>2. CASE w = who
        BY <1>1, <1>4, <3>2
      <3>3. CASE v # who /\ w # who
        BY <1>1, <1>4, <3>3 DEF PlacesApart
      <3> QED
        BY <3>1, <3>2, <3>3
    <2> QED
      BY <2>1, <2>2 DEF PlacesApart
  <1>7. \A q, slot : Taken(placements, tx', q, slot) \subseteq
            Taken(placements, tx, q, slot) \union (IF t.record /\ q = p /\ slot = s THEN {places + 1} ELSE {})
    <2> SUFFICES ASSUME NEW q, NEW slot, NEW n \in Taken(placements, tx', q, slot), n \notin Taken(placements, tx, q, slot)
                 PROVE  t.record /\ q = p /\ slot = s /\ n = places + 1
      OBVIOUS
    <2>1. ~ \E d \in placements : d.by = q /\ d.slot = slot /\ n = d.place
      BY DEF Taken
    <2>2. PICK w \in Who : /\ tx'[w].stage \in {"pin", "commit"} /\ tx'[w].record
                          /\ tx'[w].by = q /\ tx'[w].slot = slot /\ n = tx'[w].place
      BY <2>1 DEF Taken
    <2>3. CASE w # who
      <3>1. /\ tx[w].stage \in {"pin", "commit"} /\ tx[w].record
            /\ tx[w].by = q /\ tx[w].slot = slot /\ n = tx[w].place
        BY <1>1, <2>2, <2>3
      <3> QED
        BY <3>1 DEF Taken
    <2>4. CASE w = who
      BY <1>1, <2>2, <2>4 DEF s
    <2> QED
      BY <2>3, <2>4
  <1>8. Grows(placements, tx')
    BY <1>1, <1>7 DEF Grows
  <1>9. \A q, slot : ~(t.record /\ q = p /\ slot = s) =>
            Taken(placements, tx', q, slot) \subseteq Taken(placements, tx, q, slot) /\ Taken(placements, tx', q, slot) \subseteq 1..places
    BY <1>7, TakenBounded
  <1>10. ASSUME NEW q \in Process, NEW slot \in Slot
         PROVE  /\ decided'[q][slot].carrier # "none" => LatestOf(Taken(placements, tx', q, slot), places + 1, decided'[q][slot].place)
                /\ decided'[q][slot].stored =>
                      [slot |-> slot, carrier |-> decided'[q][slot].carrier, by |-> q, place |-> decided'[q][slot].place] \in placements
    <2>1. CASE t.record /\ q = p /\ slot = s
      <3>1. decided'[q][slot] = [carrier |-> carrier, stored |-> FALSE, place |-> places + 1]
        BY <1>3, <2>1
      <3> QED
        BY <3>1 DEF LatestOf
    <2>2. CASE ~(t.record /\ q = p /\ slot = s)
      <3>1. decided'[q][slot] = decided[q][slot]
        BY <1>3, <2>2
      <3>2. Taken(placements, tx', q, slot) \subseteq Taken(placements, tx, q, slot) /\ Taken(placements, tx', q, slot) \subseteq 1..places
        BY <1>9, <2>2
      <3>3. /\ decided[q][slot].carrier # "none" => LatestOf(Taken(placements, tx, q, slot), places, decided[q][slot].place)
            /\ decided[q][slot].stored =>
                  [slot |-> slot, carrier |-> decided[q][slot].carrier, by |-> q, place |-> decided[q][slot].place] \in placements
        BY DEF Decisions
      <3> QED
        BY <1>1, <3>1, <3>2, <3>3 DEF LatestOf
    <2> QED
      BY <2>1, <2>2
  <1>11. ASSUME NEW w \in Who, tx'[w].stage \in {"pin", "commit"}, tx'[w].record,
                decided'[tx'[w].by][tx'[w].slot].place = tx'[w].place
         PROVE  decided'[tx'[w].by][tx'[w].slot].carrier = tx'[w].decision
    <2>1. CASE w = who
      <3>1. tx'[w] = t /\ t.record
        BY <1>1, <1>11, <2>1
      <3>2. decided'[p][s] = [carrier |-> carrier, stored |-> FALSE, place |-> places + 1]
        BY <1>1, <1>3, <3>1
      <3> QED
        BY <1>1, <3>1, <3>2 DEF s
    <2>2. CASE w # who
      <3> DEFINE b == tx[w].by
                 z == tx[w].slot
      <3>1. /\ tx'[w] = tx[w] /\ b \in Process /\ z \in Slot /\ Recording(w) /\ tx[w].place \in 1..places
        BY <1>1, <1>4, <1>11, <2>2 DEF Recording, Places
      <3> HIDE DEF b, z
      <3>2. decided'[b][z].place = tx[w].place
        BY <1>11, <3>1 DEF b, z
      <3>3. decided'[b][z] = decided[b][z]
        BY <1>1, <1>3, <3>1, <3>2
      <3> QED
        BY <3>1, <3>2, <3>3 DEF Decisions, b, z
    <2> QED
      BY <2>1, <2>2
  <1>12. ASSUME NEW w \in Who, tx'[w].stage \in {"pin", "commit"}, tx'[w].stored, ~tx'[w].record
         PROVE  ExplainedBy(placements, tx', tx'[w])
    <2>1. CASE w = who
      <3> DEFINE d == [slot |-> s, carrier |-> carrier, by |-> p, place |-> decided[p][s].place]
      <3>1. tx'[w] = t /\ ~t.record /\ t.stored
        BY <1>1, <1>12, <2>1
      <3>2. decided[p][s].carrier = carrier /\ decided[p][s].stored
        BY <1>2, <3>1
      <3>3. d \in placements /\ carrier # "none" /\ LatestOf(Taken(placements, tx, p, s), places, decided[p][s].place)
        BY <1>1, <3>2 DEF Decisions, Chosen
      <3>4. /\ d.by = p /\ d.slot = s /\ d.carrier = carrier /\ d.place = decided[p][s].place
        OBVIOUS
      <3> HIDE DEF d
      <3>5. Taken(placements, tx', p, s) \subseteq Taken(placements, tx, p, s) /\ Taken(placements, tx', p, s) \subseteq 1..places
        BY <1>9, <3>1
      <3>6. LatestOf(Taken(placements, tx', p, s), places + 1, d.place)
        BY <1>1, <3>3, <3>4, <3>5 DEF LatestOf
      <3>7. d.place <= places + 1
        BY <1>1, <1>5, <3>3
      <3> QED
        BY <1>1, <3>1, <3>3, <3>4, <3>6, <3>7 DEF ExplainedBy, s
    <2>2. CASE w # who
      <3>1. tx'[w] = tx[w] /\ Placed(w) /\ tx[w].place \in Nat /\ tx[w].place <= places
        BY <1>1, <1>4, <1>12, <2>2
      <3>2. ExplainedBy(placements, tx, tx[w])
        BY <1>12, <3>1 DEF Decisions
      <3> QED
        BY <1>8, <3>1, <3>2, ExplainedStill
    <2> QED
      BY <2>1, <2>2
  <1>13. ASSUME NEW i \in DOMAIN rows, rows[i].stored
         PROVE  ExplainedBy(placements, tx', rows[i])
    <2>1. rows[i].place \in 1..places
      BY DEF Counted
    <2>2. ExplainedBy(placements, tx, rows[i])
      BY <1>13 DEF Decisions
    <2>3. rows[i].place \in Nat /\ rows[i].place <= places
      BY <1>1, <2>1
    <2> QED
      BY <1>8, <2>2, <2>3, ExplainedStill
  <1>14. Decisions'
    BY <1>1, <1>10, <1>11, <1>12, <1>13 DEF Decisions, Recording, Placed
  <1> QED
    BY <1>6, <1>14

(* A commit: a decision it records is one the transaction had taken.       *)
LEMMA DecidedCommit ==
  ASSUME Shape, Counted, PlacesApart, Decisions, NEW who \in Who, Commit(who)
  PROVE  PlacesApart' /\ Decisions'
  <1> DEFINE t == tx[who]
             new == [slot |-> t.slot, carrier |-> t.decision, by |-> t.by, place |-> t.place]
  <1>1. t \in Places /\ Placed(who) /\ t.row \in 0..Len(rows) /\ t.place \in 1..places /\ places \in Nat /\ places' = places
    BY CommitMeans DEF Placed, Counted, Commit, Shape
  <1>2. \A w \in Who : tx'[w].stage \in {"pin", "commit"} =>
          /\ w # who /\ Placed(w) /\ Same(tx'[w], tx[w]) /\ tx[w] \in Places /\ tx[w].place \in 1..places
    <2> SUFFICES ASSUME NEW w \in Who, tx'[w].stage \in {"pin", "commit"}
                 PROVE  w # who /\ Placed(w) /\ Same(tx'[w], tx[w]) /\ tx[w] \in Places /\ tx[w].place \in 1..places
      OBVIOUS
    <2>1. w # who
      BY CommitMeans DEF NoTx
    <2>2. Placed(w) /\ Same(tx'[w], tx[w])
      BY <2>1, CommitMeans DEF Placed, Same
    <2> QED
      BY <2>1, <2>2, TxKinds DEF Counted
  <1>3. /\ new.slot = t.slot /\ new.carrier = t.decision /\ new.by = t.by /\ new.place = t.place
        /\ placements' = placements \union (IF t.record THEN {new} ELSE {})
    BY CommitMeans
  <1> HIDE DEF new
  <1>4. PlacesApart'
    <2>1. \A d, e \in placements' : d.place = e.place => d = e
      BY <1>1, <1>3 DEF PlacesApart
    <2>2. \A w \in Who : Placed(w)' => \A d \in placements' : d.place # tx'[w].place
      <3> SUFFICES ASSUME NEW w \in Who, tx'[w].stage \in {"pin", "commit"}, NEW d \in placements'
                   PROVE  d.place # tx'[w].place
        BY DEF Placed
      <3>1. w # who /\ Placed(w) /\ tx'[w].place = tx[w].place
        BY <1>2 DEF Same
      <3>2. CASE d \in placements
        BY <3>1, <3>2 DEF PlacesApart
      <3>3. CASE d = new
        BY <1>1, <1>3, <3>1, <3>3 DEF PlacesApart
      <3> QED
        BY <1>3, <3>2, <3>3
    <2>3. \A v, w \in Who : Placed(v)' /\ Placed(w)' /\ tx'[v].place = tx'[w].place => v = w
      BY <1>2 DEF Placed, PlacesApart, Same
    <2> QED
      BY <2>1, <2>2, <2>3 DEF PlacesApart
  <1>5. \A q, slot : Taken(placements', tx', q, slot) \subseteq Taken(placements, tx, q, slot)
    <2> SUFFICES ASSUME NEW q, NEW slot, NEW n \in Taken(placements', tx', q, slot)
                 PROVE  n \in Taken(placements, tx, q, slot)
      OBVIOUS
    <2>1. CASE \E d \in placements' : d.by = q /\ d.slot = slot /\ n = d.place
      <3>1. PICK d \in placements' : d.by = q /\ d.slot = slot /\ n = d.place
        BY <2>1
      <3>2. CASE d \in placements
        BY <3>1, <3>2 DEF Taken
      <3>3. CASE d = new /\ t.record
        BY <1>1, <1>3, <3>1, <3>3 DEF Taken, Placed
      <3> QED
        BY <1>3, <3>2, <3>3
    <2>2. CASE \E w \in Who : /\ tx'[w].stage \in {"pin", "commit"} /\ tx'[w].record
                            /\ tx'[w].by = q /\ tx'[w].slot = slot /\ n = tx'[w].place
      <3>1. PICK w \in Who : /\ tx'[w].stage \in {"pin", "commit"} /\ tx'[w].record
                            /\ tx'[w].by = q /\ tx'[w].slot = slot /\ n = tx'[w].place
        BY <2>2
      <3>2. /\ tx[w].stage \in {"pin", "commit"} /\ tx[w].record
            /\ tx[w].by = q /\ tx[w].slot = slot /\ n = tx[w].place
        BY <1>2, <3>1 DEF Same, Placed
      <3> QED
        BY <3>2 DEF Taken
    <2> QED
      BY <2>1, <2>2 DEF Taken
  <1>6. Grows(placements', tx') /\ placements \subseteq placements'
    BY <1>3, <1>5 DEF Grows
  <1>7. ASSUME NEW p \in Process, NEW slot \in Slot
        PROVE  /\ decided'[p][slot].carrier # "none" => LatestOf(Taken(placements', tx', p, slot), places, decided'[p][slot].place)
               /\ decided'[p][slot].stored =>
                     [slot |-> slot, carrier |-> decided'[p][slot].carrier, by |-> p, place |-> decided'[p][slot].place] \in placements'
    <2>1. /\ decided'[p][slot].carrier = decided[p][slot].carrier /\ decided'[p][slot].place = decided[p][slot].place
          /\ decided'[p][slot].stored => \/ decided[p][slot].stored
                                         \/ t.record /\ t.by = p /\ t.slot = slot /\ decided[p][slot].place = t.place
      BY CommitMeans
    <2>2. /\ decided[p][slot].carrier # "none" => LatestOf(Taken(placements, tx, p, slot), places, decided[p][slot].place)
          /\ decided[p][slot].stored =>
                [slot |-> slot, carrier |-> decided[p][slot].carrier, by |-> p, place |-> decided[p][slot].place] \in placements
      BY DEF Decisions
    <2>3. decided'[p][slot].carrier # "none" => LatestOf(Taken(placements', tx', p, slot), places, decided'[p][slot].place)
      BY <1>5, <2>1, <2>2 DEF LatestOf
    <2>4. CASE decided[p][slot].stored
      BY <1>6, <2>1, <2>2, <2>3, <2>4
    <2>5. CASE t.record /\ t.by = p /\ t.slot = slot /\ decided[p][slot].place = t.place
      <3>1. decided[p][slot].carrier = t.decision
        BY <1>1, <2>5 DEF Decisions, Recording
      <3>2. [slot |-> slot, carrier |-> decided'[p][slot].carrier, by |-> p, place |-> decided'[p][slot].place] = new
        BY <2>1, <2>5, <3>1 DEF new
      <3> QED
        BY <1>3, <2>3, <2>5, <3>2
    <2> QED
      BY <2>1, <2>3, <2>4, <2>5
  <1>8. ASSUME NEW w \in Who, tx'[w].stage \in {"pin", "commit"}, tx'[w].record,
               decided'[tx'[w].by][tx'[w].slot].place = tx'[w].place
        PROVE  decided'[tx'[w].by][tx'[w].slot].carrier = tx'[w].decision
    <2> DEFINE b == tx[w].by
               z == tx[w].slot
    <2>1. /\ tx'[w].by = b /\ tx'[w].slot = z /\ b \in Process /\ z \in Slot /\ Recording(w)
          /\ tx'[w].place = tx[w].place /\ tx'[w].decision = tx[w].decision
      BY <1>2, <1>8 DEF Same, Recording, Places
    <2> HIDE DEF b, z
    <2>2. decided'[b][z].carrier = decided[b][z].carrier /\ decided'[b][z].place = decided[b][z].place
      BY <2>1, CommitMeans
    <2> QED
      BY <1>8, <2>1, <2>2 DEF Decisions, b, z
  <1>9. ASSUME NEW w \in Who, tx'[w].stage \in {"pin", "commit"}, tx'[w].stored, ~tx'[w].record
        PROVE  ExplainedBy(placements', tx', tx'[w])
    <2>1. /\ Placed(w) /\ tx[w].place \in Nat /\ tx[w].place <= places
          /\ tx'[w].by = tx[w].by /\ tx'[w].slot = tx[w].slot /\ tx'[w].decision = tx[w].decision
          /\ tx'[w].place = tx[w].place /\ tx[w].stored /\ ~tx[w].record
      BY <1>1, <1>2, <1>9 DEF Same
    <2>2. ExplainedBy(placements, tx, tx[w])
      BY <2>1 DEF Decisions
    <2> QED
      BY <1>6, <2>1, <2>2, ExplainedStill
  <1>10. PICK n \in DOMAIN rows' :
            /\ rows'[n] = Delivery(t) /\ \A i \in DOMAIN rows' \ {n} : i \in DOMAIN rows /\ rows'[i] = rows[i]
    BY CommitRows
  <1>11. ASSUME NEW i \in DOMAIN rows', rows'[i].stored
         PROVE  ExplainedBy(placements', tx', rows'[i])
    <2>1. CASE i # n
      <3>1. i \in DOMAIN rows /\ rows'[i] = rows[i]
        BY <1>10, <2>1
      <3>2. rows[i].place \in 1..places /\ ExplainedBy(placements, tx, rows[i])
        BY <1>11, <3>1 DEF Counted, Decisions
      <3>3. rows[i].place \in Nat /\ rows[i].place <= places
        BY <1>1, <3>2
      <3> QED
        BY <1>6, <3>1, <3>2, <3>3, ExplainedStill
    <2>2. CASE i = n
      <3> DEFINE r == Delivery(t)
      <3>1. rows'[i] = r /\ r.slot = t.slot /\ r.decision = t.decision /\ r.by = t.by /\ r.place = t.place /\ r.stored = t.stored
        BY <1>1, <1>10, <2>2, DeliveryShape
      <3> HIDE DEF r
      <3>2. CASE t.record
        <4>1. new \in placements'
          BY <1>3, <3>2
        <4>2. new.place <= r.place /\ LatestOf(Taken(placements', tx', r.by, r.slot), r.place, new.place)
          BY <1>1, <1>3, <3>1 DEF LatestOf
        <4> QED
          BY <1>3, <3>1, <4>1, <4>2 DEF ExplainedBy
      <3>3. CASE ~t.record
        <4>1. ExplainedBy(placements, tx, t)
          BY <1>1, <1>11, <3>1, <3>3 DEF Decisions
        <4>2. t.place \in Nat /\ t.place <= places
          BY <1>1
        <4> HIDE DEF t
        <4> QED
          BY <1>6, <3>1, <4>1, <4>2, ExplainedStill
      <3> QED
        BY <3>2, <3>3
    <2> QED
      BY <2>1, <2>2
  <1>12. Decisions'
    BY <1>1, <1>7, <1>8, <1>9, <1>11 DEF Decisions, Recording, Placed
  <1> QED
    BY <1>4, <1>12

-----------------------------------------------------------------------------
(* The steps together.                                                     *)

(* What touches neither a transaction nor what was placed.                 *)
LEMMA Undisturbed ==
  ASSUME Shape,
         \/ \E p \in Process, who \in Who \union {"read"} : Select(p, who) \/ SelectFails(p, who)
         \/ \E p \in Process : Written(p) \/ Timer(p)
         \/ \E p \in Process, i \in 1..Patterns, n \in DOMAIN plan.writes : Write(p, i, plan.writes[n][3])
         \/ Tick \/ Links \/ Signals \/ UNCHANGED vars
  PROVE  UNCHANGED <<decided, tx, rows, placements, places>>
  <1>1. ASSUME NEW p \in Process, NEW who, Select(p, who) \/ SelectFails(p, who)
        PROVE  UNCHANGED <<decided, tx, rows, placements, places>>
    BY <1>1 DEF Select, SelectFails
  <1>2. ASSUME NEW p \in Process, Written(p) \/ Timer(p)
        PROVE  UNCHANGED <<decided, tx, rows, placements, places>>
    BY <1>2 DEF Written, Timer
  <1>3. ASSUME NEW p \in Process, NEW i, NEW w, Write(p, i, w)
        PROVE  UNCHANGED <<decided, tx, rows, placements, places>>
    BY <1>3 DEF Write
  <1>4. CASE Tick
    BY <1>4 DEF Tick
  <1>5. CASE Links \/ Signals \/ UNCHANGED vars
    BY <1>5 DEF Links, Signals, vars, placementVars
  <1> QED
    BY <1>1, <1>2, <1>3, <1>4, <1>5

(* A transaction that begins or is rolled back has no place.               *)
LEMMA OneUnplaced ==
  ASSUME Shape, \/ \E p \in Process : Publish(p) \/ Requeue(p)
                \/ \E who \in Who : Rollback(who)
  PROVE  /\ UNCHANGED <<loads, decided, rows, placements, places>>
         /\ \A w \in Who : tx'[w].stage \in {"pin", "commit"} => tx'[w] = tx[w]
  <1>1. ASSUME NEW p \in Process, Publish(p) \/ Requeue(p)
        PROVE  /\ UNCHANGED <<loads, decided, rows, placements, places>>
               /\ \A w \in Who : tx'[w].stage \in {"pin", "commit"} => tx'[w] = tx[w]
    <2>1. PICK who \in Who, t \in Resolves : tx' = [tx EXCEPT ![who] = t] /\ t.stage = "resolve"
      BY <1>1, BeginsMeans
    <2>2. UNCHANGED <<loads, decided, rows, placements, places>>
      BY <1>1, BeginsMeans
    <2> QED
      BY <2>1, <2>2 DEF Shape
  <1>2. ASSUME NEW who \in Who, Rollback(who)
        PROVE  /\ UNCHANGED <<loads, decided, rows, placements, places>>
               /\ \A w \in Who : tx'[w].stage \in {"pin", "commit"} => tx'[w] = tx[w]
    BY <1>2 DEF Rollback, Shape, NoTx
  <1> QED
    BY <1>1, <1>2

(* A load that ends, or a fresh cache: a decision is taken, or nothing is. *)
Deciding(p, who) ==
    \E c \in CacheRec, carrier \in Chosen, t \in Places :
       Resolving(p, who) /\ who \in Who /\ p \in Process /\ PlacesBy(p, who, c, carrier, t)

LEMMA OnePlaces ==
  ASSUME Shape, \/ \E p \in Process, who \in Who : PlaceFresh(p, who)
                \/ \E l \in loads : LoadEnds(l)
  PROVE  /\ UNCHANGED <<rows, placements>>
         /\ \/ \E p, who : Deciding(p, who)
            \/ UNCHANGED <<decided, tx, places>>
  <1>1. ASSUME NEW p \in Process, NEW who \in Who, PlaceFresh(p, who)
        PROVE  UNCHANGED <<rows, placements>> /\ Deciding(p, who)
    <2>1. Resolving(p, who) /\ cache[p] \in CacheRec /\ Place(p, who, cache[p]) /\ UNCHANGED <<rows, placements>>
      BY <1>1, PlaceSteps
    <2>2. PICK carrier \in Chosen, t \in Places : PlacesBy(p, who, cache[p], carrier, t)
      BY <2>1, PlaceMeans
    <2> QED
      BY <2>1, <2>2 DEF Deciding
  <1>2. ASSUME NEW l \in loads, LoadEnds(l)
        PROVE  UNCHANGED <<rows, placements>> /\ (Deciding(l.by, l.who) \/ UNCHANGED <<decided, tx, places>>)
    <2>1. l \in LoadRec /\ Loaded(l) \in CacheRec
      BY LoadedShape
    <2>2. l.by \in Process
      BY <2>1 DEF LoadRec
    <2>3. UNCHANGED <<rows, placements>>
      BY <1>2 DEF LoadEnds
    <2>4. CASE Resolving(l.by, l.who)
      <3>1. l.who \in Who /\ Place(l.by, l.who, Loaded(l))
        BY <1>2, <2>4 DEF LoadEnds, Resolving
      <3>2. PICK carrier \in Chosen, t \in Places : PlacesBy(l.by, l.who, Loaded(l), carrier, t)
        BY <2>1, <2>2, <2>4, <3>1, PlaceMeans
      <3> QED
        BY <2>1, <2>2, <2>3, <2>4, <3>1, <3>2 DEF Deciding
    <2>5. CASE ~Resolving(l.by, l.who)
      BY <1>2, <2>3, <2>5 DEF LoadEnds
    <2> QED
      BY <2>4, <2>5
  <1> QED
    BY <1>1, <1>2

LEMMA PinsStep ==
  ASSUME Shape, Counted, PinHolds, OneCarrierPerBacklog, [Next]_vars
  PROVE  PinHolds' /\ OneCarrierPerBacklog'
  <1>1. CASE \/ \E p \in Process, who \in Who \union {"read"} : Select(p, who) \/ SelectFails(p, who)
             \/ \E p \in Process : Written(p) \/ Timer(p)
             \/ \E p \in Process, i \in 1..Patterns, n \in DOMAIN plan.writes : Write(p, i, plan.writes[n][3])
             \/ Tick \/ Links \/ Signals \/ UNCHANGED vars
    <2>1. UNCHANGED <<tx, rows>>
      BY <1>1, Undisturbed
    <2> QED
      BY <2>1, PinsStill
  <1>2. CASE \/ \E p \in Process : Publish(p) \/ Requeue(p)
             \/ \E who \in Who : Rollback(who)
    <2>1. UNCHANGED rows /\ \A w \in Who : tx'[w].stage \in {"pin", "commit"} => tx'[w] = tx[w]
      BY <1>2, OneUnplaced
    <2> QED
      BY <2>1, PinsStill
  <1>3. CASE \/ \E p \in Process, who \in Who : PlaceFresh(p, who)
             \/ \E l \in loads : LoadEnds(l)
    <2>1. UNCHANGED rows
      BY <1>3, OnePlaces
    <2>2. CASE \E p, who : Deciding(p, who)
      <3>1. PICK p, who : Deciding(p, who)
        BY <2>2
      <3>2. PICK c \in CacheRec, carrier \in Chosen, t \in Places : who \in Who /\ PlacesBy(p, who, c, carrier, t)
        BY <3>1 DEF Deciding
      <3>3. t.stage = "pin" /\ tx' = [tx EXCEPT ![who] = t] /\ who \in Who
        BY <3>2 DEF PlacesBy
      <3>4. \A w \in Who : tx'[w].stage = "commit" => tx'[w] = tx[w]
        BY <3>3 DEF Shape
      <3> QED
        BY <2>1, <3>4, PinsStill
    <2>3. CASE UNCHANGED <<decided, tx, places>>
      BY <2>1, <2>3, PinsStill
    <2> QED
      BY <1>3, <2>2, <2>3, OnePlaces
  <1>4. ASSUME NEW who \in Who, Pin(who) \/ Commit(who)
        PROVE  PinHolds' /\ OneCarrierPerBacklog'
    BY <1>4, PinsPin, PinsCommit
  <1>5. ASSUME NEW i \in DOMAIN rows, Settle(i)
        PROVE  PinHolds' /\ OneCarrierPerBacklog'
    <2>1. /\ DOMAIN rows' = DOMAIN rows /\ UNCHANGED tx
          /\ \A j \in DOMAIN rows : /\ rows'[j].key = rows[j].key /\ rows'[j].carrier = rows[j].carrier
                                    /\ rows'[j].apart = rows[j].apart /\ (rows'[j].open => rows[j].open)
      BY <1>5, SettleMeans
    <2> QED
      BY <2>1, PinsStill
  <1>6. ASSUME NEW p \in Process, NEW slot \in Slot, Evict(p, slot)
        PROVE  PinHolds' /\ OneCarrierPerBacklog'
    <2>1. UNCHANGED <<tx, rows>>
      BY <1>6 DEF Evict
    <2> QED
      BY <2>1, PinsStill
  <1> QED
    BY <1>1, <1>2, <1>3, <1>4, <1>5, <1>6 DEF Next, Policies, Transactions

LEMMA DecidedStep ==
  ASSUME Shape, Counted, PlacesApart, Decisions, [Next]_vars
  PROVE  PlacesApart' /\ Decisions'
  <1>1. CASE \/ \E p \in Process, who \in Who \union {"read"} : Select(p, who) \/ SelectFails(p, who)
             \/ \E p \in Process : Written(p) \/ Timer(p)
             \/ \E p \in Process, i \in 1..Patterns, n \in DOMAIN plan.writes : Write(p, i, plan.writes[n][3])
             \/ Tick \/ Links \/ Signals \/ UNCHANGED vars
    <2>1. UNCHANGED <<decided, tx, rows, placements, places>>
      BY <1>1, Undisturbed
    <2> QED
      BY <2>1, DecidedStill DEF Same, Placed
  <1>2. CASE \/ \E p \in Process : Publish(p) \/ Requeue(p)
             \/ \E who \in Who : Rollback(who)
    <2>1. /\ UNCHANGED <<decided, rows, placements, places>>
          /\ \A w \in Who : tx'[w].stage \in {"pin", "commit"} => tx'[w] = tx[w]
      BY <1>2, OneUnplaced
    <2> QED
      BY <2>1, DecidedStill DEF Same, Placed
  <1>3. CASE \/ \E p \in Process, who \in Who : PlaceFresh(p, who)
             \/ \E l \in loads : LoadEnds(l)
    <2>1. UNCHANGED <<rows, placements>>
      BY <1>3, OnePlaces
    <2>2. CASE \E p, who : Deciding(p, who)
      <3>1. PICK p, who : Deciding(p, who)
        BY <2>2
      <3>2. PICK c \in CacheRec, carrier \in Chosen, t \in Places :
                 Resolving(p, who) /\ who \in Who /\ p \in Process /\ PlacesBy(p, who, c, carrier, t)
        BY <3>1 DEF Deciding
      <3> QED
        BY <2>1, <3>2, DecidedPlaces
    <2>3. CASE UNCHANGED <<decided, tx, places>>
      BY <2>1, <2>3, DecidedStill DEF Same, Placed
    <2> QED
      BY <1>3, <2>2, <2>3, OnePlaces
  <1>4. ASSUME NEW who \in Who, Pin(who)
        PROVE  PlacesApart' /\ Decisions'
    <2>1. PICK u \in Places : tx' = [tx EXCEPT ![who] = u] /\ Same(u, tx[who])
      BY <1>4, PinMeans
    <2>2. UNCHANGED <<decided, rows, placements, places>> /\ Placed(who)
      BY <1>4 DEF Pin, Placed
    <2>3. \A w \in Who : tx'[w].stage \in {"pin", "commit"} => Placed(w) /\ Same(tx'[w], tx[w])
      BY <2>1, <2>2 DEF Same, Placed, Shape
    <2> QED
      BY <2>2, <2>3, DecidedStill
  <1>5. ASSUME NEW who \in Who, Commit(who)
        PROVE  PlacesApart' /\ Decisions'
    BY <1>5, DecidedCommit
  <1>6. ASSUME NEW i \in DOMAIN rows, Settle(i)
        PROVE  PlacesApart' /\ Decisions'
    <2>1. /\ DOMAIN rows' = DOMAIN rows /\ UNCHANGED <<decided, tx, placements, places>>
          /\ \A j \in DOMAIN rows :
                /\ rows'[j].slot = rows[j].slot /\ rows'[j].decision = rows[j].decision /\ rows'[j].by = rows[j].by
                /\ rows'[j].place = rows[j].place /\ rows'[j].stored = rows[j].stored
      BY <1>6, SettleMeans
    <2> QED
      BY <2>1, DecidedStill DEF Same, Placed
  <1>7. ASSUME NEW p \in Process, NEW slot \in Slot, Evict(p, slot)
        PROVE  PlacesApart' /\ Decisions'
    <2>1. UNCHANGED <<tx, rows, placements, places>>
      BY <1>7 DEF Evict
    <2>2. \A q \in Process, z \in Slot : decided'[q][z] = decided[q][z] \/ decided'[q][z] = Undecided
      <3>1. decided' = [decided EXCEPT ![p][slot] = Undecided] /\ decided \in [Process -> [Slot -> Decision]]
        BY <1>7 DEF Evict, Shape
      <3> QED
        BY <3>1
    <2> QED
      BY <2>1, <2>2, DecidedStill DEF Same, Placed
  <1> QED
    BY <1>1, <1>2, <1>3, <1>4, <1>5, <1>6, <1>7 DEF Next, Policies, Transactions

LEMMA ShapeStep ==
  ASSUME Shape, Counted, [Next]_vars
  PROVE  Shape'
  <1>1. CASE UNCHANGED vars
    BY <1>1 DEF vars, placementVars, Shape
  <1> QED
    BY <1>1, ShapeLoads, ShapeWrite, ShapeWritten, ShapePlaceFresh, ShapeLoadEnds, ShapeBegins, ShapePin, ShapeCommit, ShapeRest
       DEF Next, Policies, Transactions

LEMMA AwaitedStep ==
  ASSUME Shape, Counted, LoadsAwaited, [Next]_vars
  PROVE  LoadsAwaited'
  <1>1. CASE \/ \E p \in Process : Timer(p)
             \/ \E p \in Process, i \in 1..Patterns, n \in DOMAIN plan.writes : Write(p, i, plan.writes[n][3])
             \/ Tick \/ Links \/ Signals \/ UNCHANGED vars
    <2>1. UNCHANGED tx
      BY <1>1, Undisturbed
    <2>2. UNCHANGED loads
      BY <1>1 DEF Timer, Write, Tick, Links, Signals, vars, placementVars
    <2> QED
      BY <2>1, <2>2, AwaitedStill
  <1>2. ASSUME \/ \E i \in DOMAIN rows : Settle(i)
               \/ \E p \in Process, slot \in Slot : Evict(p, slot)
        PROVE  LoadsAwaited'
    <2>1. UNCHANGED <<tx, loads>>
      BY <1>2 DEF Settle, Evict
    <2> QED
      BY <2>1, AwaitedStill
  <1>3. ASSUME \/ \E p \in Process, who \in Who : PlaceFresh(p, who)
               \/ \E p \in Process : Publish(p) \/ Requeue(p)
               \/ \E who \in Who : Pin(who) \/ Commit(who) \/ Rollback(who)
        PROVE  LoadsAwaited'
    BY <1>3, AwaitedTx
  <1>4. ASSUME \/ \E p \in Process, who \in Who \union {"read"} : Select(p, who) \/ SelectFails(p, who)
               \/ \E p \in Process : Written(p)
               \/ \E l \in loads : LoadEnds(l)
        PROVE  LoadsAwaited'
    BY <1>4, AwaitedLoads, AwaitedWritten, AwaitedLoadEnds
  <1> QED
    BY <1>1, <1>2, <1>3, <1>4 DEF Next, Policies, Transactions

LEMMA CountedStep ==
  ASSUME Shape, Counted, PoliciesKnown, [Next]_vars
  PROVE  Counted'
  BY CountedPolicies, CountedTx, CountedRest DEF Next, Policies, Transactions

LEMMA KnownStep ==
  ASSUME Shape, Counted, PoliciesKnown, [Next]_vars
  PROVE  PoliciesKnown'
  BY KnownLoads, KnownWrite, KnownWritten, KnownTx, KnownRest DEF Next, Policies, Transactions

(* Of the steps that place, only a commit reaches the carrier: it signals. *)
LEMMA CarrierStep ==
  ASSUME Shape, CarrierInv, [Next]_vars
  PROVE  CarrierInv'
  <1>1. CASE UNCHANGED carrierVars
    BY <1>1 DEF carrierVars, CarrierInv
  <1>2. ASSUME NEW p \in Process, NEW who, Select(p, who) \/ SelectFails(p, who)
        PROVE  UNCHANGED carrierVars
    BY <1>2 DEF Select, SelectFails
  <1>3. ASSUME NEW p \in Process, Written(p) \/ Timer(p)
        PROVE  UNCHANGED carrierVars
    BY <1>3 DEF Written, Timer
  <1>4. ASSUME NEW p \in Process, NEW i, NEW w, Write(p, i, w)
        PROVE  UNCHANGED carrierVars
    BY <1>4 DEF Write
  <1>5. ASSUME NEW l \in loads, LoadEnds(l)
        PROVE  UNCHANGED carrierVars
    BY <1>5 DEF LoadEnds
  <1>6. ASSUME NEW p \in Process, Publish(p) \/ Requeue(p)
        PROVE  UNCHANGED carrierVars
    BY <1>6 DEF Publish, Requeue, Begins
  <1>7. ASSUME NEW who \in Who, Pin(who) \/ Rollback(who)
        PROVE  UNCHANGED carrierVars
    BY <1>7 DEF Pin, Rollback
  <1>8. ASSUME NEW p \in Process, NEW who \in Who, PlaceFresh(p, who)
        PROVE  UNCHANGED carrierVars
    BY <1>8 DEF PlaceFresh
  <1>9. ASSUME NEW i \in DOMAIN rows, Settle(i)
        PROVE  UNCHANGED carrierVars
    BY <1>9 DEF Settle
  <1>10. ASSUME NEW p \in Process, NEW slot \in Slot, Evict(p, slot)
         PROVE  UNCHANGED carrierVars
    BY <1>10 DEF Evict
  <1>11. ASSUME NEW who \in Who, Commit(who)
         PROVE  CarrierInv'
    <2>1. UNCHANGED <<broker, link, breaker>>
      BY <1>11 DEF Commit
    <2>2. signals' = [signals EXCEPT ![tx[who].by] = @ + 1] \/ signals' = signals
      BY <1>11 DEF Commit
    <2>3. signals' \in [Process -> Nat]
      BY <2>2 DEF CarrierInv
    <2> QED
      BY <2>1, <2>3 DEF CarrierInv
  <1>12. CASE Tick
    BY <1>12, BreakerTicksStep DEF Tick
  <1>13. CASE Links
    BY <1>13, LinkNextStep DEF Links
  <1>14. CASE Signals
    BY <1>14, SignalStep DEF Signals
  <1>15. CASE UNCHANGED vars
    BY <1>1, <1>15 DEF vars
  <1> QED
    BY <1>1, <1>2, <1>3, <1>4, <1>5, <1>6, <1>7, <1>8, <1>9, <1>10, <1>11, <1>12, <1>13, <1>14, <1>15
       DEF Next, Policies, Transactions

LEMMA Starts == Init => IInv
  <1> SUFFICES ASSUME Init PROVE IInv
    OBVIOUS
  <1>1. Shape
    BY ShapeStarts
  <1>2. CarrierInv
    BY <1>1, CarrierStarts DEF Init, Shape
  <1>3. \A w \in Who : tx[w].stage = "none"
    BY DEF Init, NoTx
  <1>4. LoadsAwaited
    BY DEF Init, LoadsAwaited
  <1>5. /\ Len(past) = 1 /\ DOMAIN past = {1} /\ past[1] = [at |-> 0, policy |-> BestMatch(table)]
        /\ now = 0 /\ places = 0 /\ rows = <<>> /\ DOMAIN rows = {} /\ placements = {} /\ loads = {} /\ Len(rows) = 0
    BY DEF Init
  <1>6. ASSUME NEW p \in Process
        PROVE  /\ writing[p] = 0 /\ own[p] = 1 /\ cache[p] = NoCache
               /\ \A slot \in Slot : decided[p][slot] = Undecided
    BY DEF Init
  <1>7. Counted
    <2>1. ASSUME NEW p \in Process
          PROVE  /\ writing[p] \in 0..Len(past) /\ own[p] \in 1..Len(past)
                 /\ writing[p] # 0 => own[p] <= writing[p]
                 /\ cache[p] # NoCache => cache[p].at <= now
                 /\ \A slot \in Slot : /\ decided[p][slot].carrier = "js" => slot[1] = "STREAM"
                                       /\ decided[p][slot].place <= places
      BY <1>5, <1>6 DEF Undecided
    <2> QED
      BY <1>3, <1>5, <2>1 DEF Counted, Placed
  <1>8. PoliciesKnown
    BY <1>3, <1>5, <1>6 DEF PoliciesKnown, Placed
  <1>9. PinHolds /\ OneCarrierPerBacklog
    BY <1>3, <1>5 DEF PinHolds, OneCarrierPerBacklog
  <1>10. PlacesApart
    BY <1>3, <1>5 DEF PlacesApart, Placed
  <1>11. Decisions
    BY <1>3, <1>5, <1>6 DEF Decisions, Placed, Recording, Undecided
  <1> QED
    BY <1>1, <1>2, <1>4, <1>7, <1>8, <1>9, <1>10, <1>11 DEF IInv

LEMMA Steps == IInv /\ [Next]_vars => IInv'
  BY ShapeStep, CarrierStep, AwaitedStep, CountedStep, KnownStep, PinsStep, DecidedStep DEF IInv

(* The parts of the invariant hold together in every state.                *)
THEOREM Invariance == Spec => []IInv
  BY Starts, Steps, PTL DEF Spec

-----------------------------------------------------------------------------
(* What the invariant says of the program.                                 *)

(* The largest place of what was recorded for a slot, up to a place.       *)
LEMMA LatestRecorded ==
  ASSUME Shape, Counted, NEW i \in DOMAIN rows, Before(rows[i]) # {}
  PROVE  \E d \in Before(rows[i]) : \A e \in Before(rows[i]) : e.place <= d.place
  <1> DEFINE S == {d.place : d \in Before(rows[i])}
  <1>1. places \in Nat /\ \A d \in placements : d.place \in 1..places
    BY DEF Shape, Counted
  <1>2. S \in SUBSET Nat /\ S # {} /\ \A n \in S : n <= places
    BY <1>1 DEF Before
  <1>3. PICK m \in S : \A n \in S : n <= m
    <2> HIDE DEF S
    <2> QED
      BY <1>1, <1>2, LargestOf
  <1> QED
    BY <1>3

LEMMA ExplainedSafe == IInv => Explained
  <1> SUFFICES ASSUME IInv, NEW i \in DOMAIN rows, rows[i].stored
               PROVE  \E d \in Before(rows[i]) :
                         /\ \A e \in Before(rows[i]) : e.place <= d.place
                         /\ d.by = rows[i].by => d.carrier = rows[i].decision
    BY DEF Explained
  <1> DEFINE r == rows[i]
  <1>1. PICK x \in placements :
           /\ x.by = r.by /\ x.slot = r.slot /\ x.carrier = r.decision /\ x.place <= r.place
           /\ LatestOf(Taken(placements, tx, r.by, r.slot), r.place, x.place)
    BY DEF IInv, Decisions, ExplainedBy
  <1>2. x \in Before(r)
    BY <1>1 DEF Before
  <1>3. PICK d \in Before(r) : \A e \in Before(r) : e.place <= d.place
    BY <1>2, LatestRecorded DEF IInv
  <1>4. ASSUME d.by = r.by
        PROVE  d.carrier = r.decision
    <2>1. d \in placements /\ d.slot = r.slot /\ d.place <= r.place
      BY <1>3 DEF Before
    <2>2. d.place \in Taken(placements, tx, r.by, r.slot)
      BY <1>4, <2>1 DEF Taken
    <2>3. d.place <= x.place /\ x.place <= d.place
      BY <1>1, <1>2, <1>3, <2>1, <2>2 DEF LatestOf
    <2>4. d.place \in Nat /\ x.place \in Nat
      BY <1>1, <2>1 DEF IInv, Shape, PlacementRec
    <2>5. d = x
      BY <1>1, <2>1, <2>3, <2>4 DEF IInv, PlacesApart
    <2> QED
      BY <1>1, <2>5
  <1> QED
    BY <1>3, <1>4

LEMMA PoliciesSafe == IInv => PoliciesInForce
  <1> SUFFICES ASSUME IInv PROVE PoliciesInForce
    OBVIOUS
  <1>1. RecentPolicy
    <2> SUFFICES ASSUME NEW i \in DOMAIN rows, rows[i].from.ok
                 PROVE  \E n \in DOMAIN past :
                           /\ past[n].policy = rows[i].policy /\ past[n].at <= rows[i].at
                           /\ n = Len(past) \/ past[n + 1].at > rows[i].at - Reload
      BY DEF RecentPolicy
    <2>1. InForce(past, rows[i].from.of, rows[i].policy, rows[i].at, rows[i].at - Reload + 1)
      BY DEF IInv, PoliciesKnown, PlacedBy
    <2> DEFINE n == rows[i].from.of
    <2>2. /\ n \in DOMAIN past /\ past[n].policy = rows[i].policy /\ past[n].at <= rows[i].at
          /\ n = Len(past) \/ past[n + 1].at >= rows[i].at - Reload + 1
      BY <2>1 DEF InForce
    <2>3. rows[i].at \in Nat /\ Reload \in Nat /\ past \in Seq([at : Nat, policy : Policy])
      BY RowFacts, PlacementBounds DEF IInv, Row, Shape
    <2> HIDE DEF n
    <2>4. n = Len(past) \/ past[n + 1].at \in Nat
      <3>1. DOMAIN past = 1..Len(past) /\ Len(past) \in Nat /\ \A m \in DOMAIN past : past[m].at \in Nat
        BY PastFacts DEF IInv
      <3>2. n # Len(past) => n + 1 \in DOMAIN past
        BY <2>2, <3>1
      <3> QED
        BY <3>1, <3>2
    <2>5. n = Len(past) \/ past[n + 1].at > rows[i].at - Reload
      BY <2>2, <2>3, <2>4
    <2> QED
      BY <2>2, <2>5
  <1>2. OwnWritesSeen
    BY DEF IInv, PoliciesKnown, PlacedBy, OwnWritesSeen
  <1>3. TypeOK
    <2>1. now \in Nat /\ table \in Table
      BY DEF IInv, Shape
    <2>2. ASSUME NEW p \in Process
          PROVE  /\ cache[p] # NoCache => cache[p].rows \in Table /\ cache[p].at \in 0..now
                 /\ writing[p] \in 0..Len(past) /\ own[p] \in 1..Len(past)
      <3>1. cache[p] # NoCache => cache[p] \in CacheRec /\ cache[p].at <= now
        BY DEF IInv, Shape, Counted
      <3>2. cache[p] # NoCache => cache[p].rows \in Table /\ cache[p].at \in Nat
        BY <3>1 DEF CacheRec
      <3>3. writing[p] \in 0..Len(past) /\ own[p] \in 1..Len(past)
        BY DEF IInv, Counted
      <3> QED
        BY <2>1, <3>1, <3>2, <3>3
    <2>3. ASSUME NEW p \in Process, NEW slot \in Slot
          PROVE  decided[p][slot].carrier \in {"none", "pg"} \union (IF slot[1] = "STREAM" THEN {"js"} ELSE {})
      <3>1. decided[p][slot] \in Decision
        BY DEF IInv, Shape
      <3>2. decided[p][slot].carrier = "js" => slot[1] = "STREAM"
        BY DEF IInv, Counted
      <3> QED
        BY <3>1, <3>2 DEF Decision, Chosen
    <2>4. \A who \in Who : tx[who].stage \in {"none", "resolve", "pin", "commit"}
      BY TxKinds DEF IInv
    <2>5. \A l \in loads : l.who = "read" \/ Resolving(l.by, l.who)
      BY DEF IInv, LoadsAwaited
    <2>6. \A i \in DOMAIN rows : rows[i].carrier \in {"pg", "js"} /\ rows[i].place \in 1..places
      <3> SUFFICES ASSUME NEW i \in DOMAIN rows PROVE rows[i].carrier \in {"pg", "js"} /\ rows[i].place \in 1..places
        OBVIOUS
      <3>1. rows[i] \in Row /\ rows[i].place \in 1..places
        BY RowFacts DEF IInv, Counted
      <3> QED
        BY <3>1 DEF Row, Chosen
    <2>7. \A d \in placements : d.slot \in Slot /\ d.place \in 1..places
      BY DEF IInv, Shape, PlacementRec, Counted
    <2> QED
      BY <2>1, <2>2, <2>3, <2>4, <2>5, <2>6, <2>7 DEF TypeOK
  <1> QED
    BY <1>1, <1>2, <1>3 DEF PoliciesInForce

(* A delivery is placed by a policy that was in force less than a reload   *)
(* interval before, and by no older one than the process answered a write  *)
(* of: all, put, remove and the timer of policy.js, for every number of    *)
(* processes, patterns, policies and transactions.                         *)
THEOREM PoliciesHold == Spec => []PoliciesInForce
  BY Invariance, PoliciesSafe, PTL

(* healthy of jetstream.js is said only of a connection on which the       *)
(* stream exists, and the consumer of the process if it consumes, whatever *)
(* the broker does.                                                        *)
THEOREM CarriersAreSound == Spec => []CarriersSound
  BY Invariance, CarrierSafe, PTL DEF IInv

(* README.md:183: the open deliveries of a key stay on one carrier, except *)
(* for what an overlapped replay, or one under another key, put there.     *)
THEOREM BacklogsStay == Spec => []OneCarrierPerBacklog
  BY Invariance, PTL DEF IInv

(* delivery_placements tells which decision placed a delivery, as far as   *)
(* transactions that commit late and other processes leave it to.          *)
THEOREM PlacementsExplained == Spec => []Explained
  BY Invariance, ExplainedSafe, PTL

(* A stop whose request the broker served leaves no consumer behind, when  *)
(* it found no request of ensure under way (stop of jetstream.js).         *)
THEOREM StopsAreClean == Spec => CleanStopDeletes
  <1>1. IInv => \A p \in Process : Quit(p) /\ link[p].leaving = "served" /\ ~link[p].late => p \notin broker.consumer
    BY DEF IInv, CarrierInv, Told
  <1> QED
    BY <1>1, Invariance, PTL DEF CleanStopDeletes
=============================================================================
