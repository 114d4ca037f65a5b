------------------------------ MODULE Realtime ------------------------------
(***************************************************************************)
(* The realtime gateway (server/realtime.js): one client's SSE stream, its *)
(* catch-up from Last-Event-ID and the live fan-out, over a log that other *)
(* requests write.                                                         *)
(*                                                                         *)
(* A row is its position.  It is committed first and handed to publish()   *)
(* afterwards, by the request, usage flush or carrier that stored it, so   *)
(* the two orders need not agree.  The handler runs between awaits: each   *)
(* query of the catch-up is one action, and so is all it does once the     *)
(* last has answered.  What it writes reaches the client in order, until   *)
(* the connection is cut; the client then comes back with the id of the    *)
(* last event it got.                                                      *)
(***************************************************************************)
EXTENDS Integers, Sequences, FiniteSets, FiniteSetsExt, Functions

CONSTANTS
    MaxSeq,         \* bound: how many rows are stored
    Public,         \* the rows that match the client's topics and are public
    VisibleTo,      \* per kind of viewer, the ones that match and that it may see
    Client,         \* the clients there may be: a viewer, and its first Last-Event-ID or NoId
    NoId,
    ReplayMax,      \* REALTIME_REPLAY_MAX: rows a catch-up sends
    ScanMax,        \* and examines (replayMax * 50)
    MaxCuts,        \* bound: how often the connection is cut
    MaxPruned       \* bound: how far retention goes

Row == 1..MaxSeq
NoRow == 0

ASSUME StreamBounds ==
    /\ MaxSeq \in Nat /\ MaxCuts \in Nat /\ MaxPruned \in Nat
    /\ ReplayMax \in Nat \ {0} /\ ScanMax \in Nat \ {0}
ASSUME StreamShape ==
    /\ VisibleTo \in [{"anonymous", "user", "service"} -> SUBSET Row]
    /\ Public = VisibleTo["anonymous"] /\ \A v \in DOMAIN VisibleTo : Public \subseteq VisibleTo[v]
    /\ NoId \notin Nat
    /\ Client \subseteq [viewer : DOMAIN VisibleTo, start : Nat \union {NoId}]

VARIABLES
    counter,    \* rows 1..counter are committed
    pruned,     \* rows 1..pruned are in neither tier any more
    announced,  \* the rows publish() was called with
    late,       \* history: those that were committed and not published when a later one was
    client,     \* who the client is
    conn,       \* the connection, as the handler keeps it
    wire,       \* what was written and has not arrived
    lastId,     \* the client's Last-Event-ID
    got,        \* the rows the client received, on any connection
    told,       \* the rows a gap told it of
    cuts        \* how often the connection was cut

logVars == <<counter, pruned, announced, late>>
clientVars == <<client, lastId, got, told>>
streamVars == <<counter, pruned, announced, late, client, conn, wire, lastId, got, told, cuts>>

NoConn == [phase |-> "closed", last |-> 0, pending |-> <<>>, latest |-> 0, at |-> 0,
           from |-> 0, rows |-> {}, scanned |-> 0]

Message == [kind : {"event", "gap"}, rows : SUBSET Nat]
Frame(n) == [kind |-> "event", rows |-> {n}]
Gap(from, to) == [kind |-> "gap", rows |-> from..to]

Connection == [phase : {"closed", "head", "latest", "oldest", "empty", "window", "scan", "reply", "live"},
               last : Nat, pending : Seq(Row), latest : 0..MaxSeq, at : Nat, from : Nat,
               rows : SUBSET Row, scanned : Nat]

StreamTypeOK ==
    /\ counter \in 0..MaxSeq /\ pruned \in 0..counter
    /\ announced \subseteq 1..counter /\ late \subseteq 1..counter
    /\ client \in Client
    /\ conn \in Connection
    /\ conn.phase \in {"closed", "live"} => conn.pending = <<>>
    /\ wire \in Seq(Message)
    /\ lastId \in Nat \union {NoId}
    /\ got \subseteq Row /\ told \subseteq Nat
    /\ cuts \in 0..MaxCuts

StreamInit ==
    /\ counter = 0 /\ pruned = 0 /\ announced = {} /\ late = {}
    /\ conn = NoConn /\ wire = <<>>
    /\ client \in Client
    /\ lastId = client.start /\ got = {} /\ told = {}
    /\ cuts = 0

Retained == (pruned + 1)..counter
OldestSeq == pruned + 1

-----------------------------------------------------------------------------
(* The log: a publish commits, and retention takes the oldest rows.        *)
Commit ==
    /\ counter < MaxSeq
    /\ counter' = counter + 1
    /\ UNCHANGED <<pruned, announced, late, conn, wire, clientVars, cuts>>

Prune ==
    /\ pruned < counter /\ pruned < MaxPruned
    /\ pruned' = pruned + 1
    /\ UNCHANGED <<counter, announced, late, conn, wire, clientVars, cuts>>

-----------------------------------------------------------------------------
(* handler: the connection takes its slot and joins the fan-out before the *)
(* first query.                                                            *)
Connect ==
    /\ conn.phase = "closed"
    /\ conn' = [NoConn EXCEPT !.phase = IF lastId = NoId THEN "head" ELSE "latest",
                              !.last = IF lastId = NoId THEN 0 ELSE lastId]
    /\ UNCHANGED <<logVars, wire, clientVars, cuts>>

(* Without a position: the stream starts at the head.                      *)
ReadHead ==
    /\ conn.phase = "head"
    /\ conn' = [conn EXCEPT !.phase = "reply", !.latest = counter, !.scanned = counter]
    /\ UNCHANGED <<logVars, wire, clientVars, cuts>>

ReadLatest ==
    /\ conn.phase = "latest"
    /\ conn' = [conn EXCEPT !.phase = "oldest", !.latest = counter]
    /\ UNCHANGED <<logVars, wire, clientVars, cuts>>

(* Where the replay starts: the position is ahead of the log, older than   *)
(* retention, or in range.                                                 *)
PlacedFrom(oldest) ==
    LET id == conn.last
        ahead == id > conn.latest
        old == ~ahead /\ id < oldest - 1
    IN  /\ conn' = [conn EXCEPT !.phase = "window",
                       !.at = IF ahead THEN conn.latest ELSE IF old THEN oldest - 1 ELSE id]
        /\ wire' = wire \o (IF ahead THEN <<Gap(conn.latest + 1, id)>>
                            ELSE IF old THEN <<Gap(id + 1, oldest - 1)>> ELSE <<>>)

(* oldestSeq: the smallest retained row or, by a second query when there   *)
(* is none, the next position to come.                                     *)
ReadOldest ==
    /\ conn.phase = "oldest"
    /\ IF Retained = {}
       THEN conn' = [conn EXCEPT !.phase = "empty"] /\ UNCHANGED wire
       ELSE PlacedFrom(OldestSeq)
    /\ UNCHANGED <<logVars, clientVars, cuts>>

ReadEmpty ==
    /\ conn.phase = "empty"
    /\ PlacedFrom(counter + 1)
    /\ UNCHANGED <<logVars, clientVars, cuts>>

(* The public window of a browser: where it starts depends on the clock    *)
(* alone, so it is any retained row or the next to come; a window of zero  *)
(* seconds starts after the head that was read.                            *)
WindowStarts == IF client.viewer = "service" THEN {0}
                ELSE (OldestSeq..(counter + 1)) \union {conn.latest + 1}

ReadWindow(from) ==
    /\ conn.phase = "window"
    /\ from \in WindowStarts
    /\ conn' = [conn EXCEPT !.phase = "scan", !.from = from,
                   !.at = IF @ < from - 1 /\ client.viewer = "anonymous" THEN from - 1 ELSE @]
    /\ wire' = wire \o (IF conn.at < from - 1 THEN <<Gap(conn.at + 1, from - 1)>> ELSE <<>>)
    /\ UNCHANGED <<logVars, clientVars, cuts>>

Visible == VisibleTo[client.viewer]

(* store.scan: what is retained after a position and passes the filter, up *)
(* to the limits.                                                          *)
Accepted(n) == n \in Visible /\ ~(n \in Public /\ n < conn.from)
Stops(n) ==
    \/ Cardinality({m \in Retained : conn.at < m /\ m <= n /\ Accepted(m)}) >= ReplayMax
    \/ Cardinality({m \in Retained : conn.at < m /\ m <= n}) >= ScanMax
Scanned ==
    LET ahead == {n \in Retained : n > conn.at}
        stops == {n \in ahead : Stops(n)}
    IN  IF stops # {} THEN Min(stops) ELSE Max({conn.at} \union ahead)
Replayed == {n \in Retained : conn.at < n /\ n <= Scanned /\ Accepted(n)}

ReadScan ==
    /\ conn.phase = "scan"
    /\ conn' = [conn EXCEPT !.phase = "reply", !.rows = Replayed, !.scanned = Scanned]
    /\ UNCHANGED <<logVars, wire, clientVars, cuts>>

(* The rest of the handler: the rows, the gap of a replay that stopped at  *)
(* its limit, and the rows that waited while the catch-up ran, of which    *)
(* one is sent if it is beyond what was sent before it.                    *)
Drained(pending, last) == {n \in Range(pending) : n > last /\
    \E i \in DOMAIN pending : pending[i] = n /\ \A j \in 1..(i - 1) : pending[j] < n}
InOrder(rows) == {s \in [1..Cardinality(rows) -> rows] : Range(s) = rows /\ \A i, j \in DOMAIN s : i < j => s[i] < s[j]}
Frames(s) == [i \in 1..Len(s) |-> Frame(s[i])]
LimitGap == IF conn.scanned < conn.latest THEN <<Gap(conn.scanned + 1, conn.latest)>> ELSE <<>>

Sends(rest) == \E s \in InOrder(conn.rows), t \in InOrder(rest) :
    wire' = wire \o (Frames(s) \o LimitGap \o Frames(t))
ReplyStillPending ==    \* mutated: pending is not cleared
    LET rest == Drained(conn.pending, conn.latest) IN
    /\ conn.phase = "reply"
    /\ conn' = [conn EXCEPT !.phase = "live", !.rows = {}, !.last = Max({conn.latest} \union rest)]
    /\ Sends(rest)
    /\ UNCHANGED <<logVars, clientVars, cuts>>
Reply ==
    LET rest == Drained(conn.pending, conn.latest) IN
    /\ conn.phase = "reply"
    /\ conn' = [conn EXCEPT !.phase = "live", !.rows = {}, !.pending = <<>>,
                             !.last = Max({conn.latest} \union rest)]
    /\ Sends(rest)
    /\ UNCHANGED <<logVars, clientVars, cuts>>

-----------------------------------------------------------------------------
(* publish(row): to a connection that is catching up it waits, to one that *)
(* is live it goes out unless it is at or below what was sent.             *)
CatchingUp == conn.phase \in {"head", "latest", "oldest", "empty", "window", "scan", "reply"}
Mine(n) == n \in Visible

Published(n) ==
    /\ n \in (1..counter) \ announced
    /\ announced' = announced \union {n}
    /\ late' = late \union (1..(n - 1) \ announced)

AnnounceLiveOnly(n) ==      \* mutated: the connection joins the fan-out after the catch-up
    /\ Published(n)
    /\ IF conn.phase = "live" /\ Mine(n) /\ n > conn.last
       THEN conn' = [conn EXCEPT !.last = n] /\ wire' = Append(wire, Frame(n))
       ELSE UNCHANGED <<conn, wire>>
    /\ UNCHANGED <<counter, pruned, clientVars, cuts>>
AnnounceNotLive(n) ==       \* mutated: the connection leaves the fan-out with the catch-up
    /\ Published(n)
    /\ conn' = IF CatchingUp /\ Mine(n) THEN [conn EXCEPT !.pending = Append(@, n)] ELSE conn
    /\ UNCHANGED <<counter, pruned, wire, clientVars, cuts>>
Announce(n) ==
    /\ Published(n)
    /\ CASE CatchingUp /\ Mine(n) ->
              conn' = [conn EXCEPT !.pending = Append(@, n)] /\ UNCHANGED wire
         [] conn.phase = "live" /\ Mine(n) /\ n > conn.last ->
              conn' = [conn EXCEPT !.last = n] /\ wire' = Append(wire, Frame(n))
         [] OTHER -> UNCHANGED <<conn, wire>>
    /\ UNCHANGED <<counter, pruned, clientVars, cuts>>

-----------------------------------------------------------------------------
(* The client: a message arrives, or the connection is cut (the client     *)
(* goes, the network fails, a slow client is dropped), and what was on the *)
(* wire with it.  When the process restarts, the rows it had committed and *)
(* not published are published by nobody.                                  *)
Receive ==
    /\ wire # <<>>
    /\ LET m == Head(wire) IN
       IF m.kind = "event"
       THEN /\ got' = got \union m.rows
            /\ lastId' = Max(m.rows)
            /\ UNCHANGED told
       ELSE told' = told \union m.rows /\ UNCHANGED <<got, lastId>>
    /\ wire' = Tail(wire)
    /\ UNCHANGED <<logVars, client, conn, cuts>>

Disconnect ==
    /\ cuts < MaxCuts
    /\ conn' = NoConn /\ wire' = <<>>
    /\ cuts' = cuts + 1

Cut ==
    /\ conn.phase # "closed"
    /\ Disconnect
    /\ UNCHANGED <<logVars, clientVars>>

Restart ==
    /\ Disconnect
    /\ announced' = 1..counter
    /\ UNCHANGED <<counter, pruned, late, clientVars>>

-----------------------------------------------------------------------------
CatchUp ==
    \/ ReadHead \/ ReadLatest \/ ReadOldest \/ ReadEmpty \/ ReadScan \/ Reply
    \/ \E from \in 0..(MaxSeq + 1) : ReadWindow(from)

StreamNext ==
    \/ Commit \/ Prune
    \/ Connect \/ CatchUp
    \/ \E n \in Row : Announce(n)
    \/ Receive \/ Cut \/ Restart

StreamSpec == StreamInit /\ [][StreamNext]_streamVars

(* A client reconnects, queries end, a committed row is published, and     *)
(* what is written arrives while the connection lasts.                     *)
StreamFairness ==
    /\ WF_streamVars(Connect) /\ WF_streamVars(CatchUp) /\ WF_streamVars(Receive)
    /\ \A n \in Row : WF_streamVars(Announce(n))

FairStream == StreamSpec /\ StreamFairness

-----------------------------------------------------------------------------
(* README: Last-Event-ID "replays what was missed".  A client that resumes *)
(* has, of all it may see between its first position (or its first event)  *)
(* and its last, every row that is still retained, or a gap told it, or    *)
(* a later row was published before it; over any number of cuts.           *)
First == IF client.start # NoId THEN client.start ELSE Min(got \union {lastId})
Passed == {n \in Visible \intersect Retained : First < n /\ n <= lastId}
ResumeMissesNothing == lastId # NoId => Passed \subseteq got \union told \union late

(* What a well formed connection has sent accounts for the log.            *)
ResumesSound == StreamTypeOK /\ ResumeMissesNothing

(* And it ends up with every row committed since, or hears of a gap.       *)
EventuallyStreamed == \A n \in Row :
    n \in Visible \intersect Retained /\ client.start # NoId /\ n > client.start
        ~> n \in got \union told \union late \/ n <= pruned
=============================================================================
