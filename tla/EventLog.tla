------------------------------ MODULE EventLog ------------------------------
(***************************************************************************)
(* The event log: publishes storing batches of events (store.insertBatch), *)
(* retention moving them between the tiers (store.prune), and consumers    *)
(* pulling them page by page (GET /api/v1/events, store.scan).             *)
(*                                                                         *)
(* PostgreSQL runs READ COMMITTED, so a statement sees what is committed   *)
(* when it starts and one action is one statement.  A transaction keeps    *)
(* its writes in `tx` until it commits.  The only lock that matters here   *)
(* is the row of the counter that hands out positions: nextSeq takes it,   *)
(* commit or rollback gives it back.                                       *)
(***************************************************************************)
EXTENDS Integers, Sequences, FiniteSets, FiniteSetsExt, SequencesExt

CONSTANTS
    Id,             \* event ids
    AppIds,         \* the ones a developer app's project publishes
    Sandbox,        \* of those, the ones published with sandbox tokens
    Publisher,      \* concurrent publish requests
    NoOne,          \* the counter's row is not locked
    Batches,        \* the batches that are published, and published again
    Reader,         \* pull consumers
    Wanted,         \* the events that match a reader's topics and scope
    Narrow,         \* whether a request has one pattern other than *: only matching rows are fetched
    Limit, ScanMax, PageSize,           \* rows per answer, rows examined, rows per query
    HotAge, SandboxAge, ReceiptAge, \* retention periods, in ticks
    ReplayAges,     \* those of the replay tier that processes may be configured with (0: no such tier)
    Quota,          \* events a project may keep in the hot store
    MaxSeq          \* bound: no publish starts beyond this position

MaxAge == Max({HotAge, SandboxAge, ReceiptAge} \union ReplayAges)

ASSUME LogBounds ==
    /\ Limit \in Nat \ {0} /\ ScanMax \in Nat \ {0} /\ PageSize \in Nat \ {0}
    /\ HotAge \in Nat \ {0} /\ SandboxAge \in Nat \ {0} /\ ReceiptAge \in Nat
    /\ ReplayAges \subseteq Nat /\ ReplayAges # {}
    /\ Quota \in Nat /\ MaxSeq \in Nat /\ Narrow \subseteq BOOLEAN
ASSUME LogShape ==
    /\ IsFiniteSet(Id) /\ Sandbox \subseteq AppIds /\ AppIds \subseteq Id /\ Wanted \subseteq Id
    /\ Batches \subseteq Seq(Id) /\ <<>> \notin Batches
    /\ \A batch \in Batches : IsInjective(batch)     \* a batch that repeats an id is refused
    /\ NoOne \notin Publisher

VARIABLES
    hot,        \* the events table: each id's position, 0 when it is not there
    replay,     \* the events_archive table, likewise
    receipt,    \* the ids with a publish receipt
    age,        \* ticks since each id was stored
    counter,    \* sequences.value
    numbering,  \* who holds the lock of its row
    tx,         \* each publish's transaction
    pull,       \* each reader's request
    cursor,     \* each reader's own position: the next_cursor it was last given
    seen,       \* the ids it was given
    missed,     \* the positions it was told a gap covers
    overtaken   \* history: the positions committed while a narrowed request of its was answered

logVars == <<hot, replay, receipt, age, counter, numbering>>
readerVars == <<pull, cursor, seen, missed, overtaken>>
vars == <<hot, replay, receipt, age, counter, numbering, tx, pull, cursor, seen, missed, overtaken>>

NoTx == [phase |-> "idle", batch |-> <<>>, at |-> 1, taken |-> <<>>, kept |-> 0]
NoPull == [phase |-> "idle", narrow |-> FALSE, from |-> 0, at |-> 0, rows |-> {}, scanned |-> 0, gap |-> {}, began |-> 0]

TypeOK ==
    /\ hot \in [Id -> Nat] /\ replay \in [Id -> Nat] /\ age \in [Id -> Nat]
    /\ receipt \subseteq Id
    /\ counter \in Nat /\ numbering \in Publisher \union {NoOne}
    /\ tx \in [Publisher -> [phase : {"idle", "hot", "replay", "receipt", "number", "insert", "commit"},
                             batch : Batches \union {<<>>}, at : Nat, kept : Nat, taken : Seq([id : Id, pos : Nat])]]
    /\ pull \in [Reader -> [phase : {"idle", "oldest", "empty", "scan", "head", "answer"}, narrow : BOOLEAN,
                            from : Nat, at : Nat, rows : SUBSET Id, scanned : Nat, gap : SUBSET Nat, began : Nat]]
    /\ cursor \in [Reader -> Nat] /\ seen \in [Reader -> SUBSET Id] /\ missed \in [Reader -> SUBSET Nat]
    /\ overtaken \in [Reader -> SUBSET Nat]

Init ==
    /\ hot = [id \in Id |-> 0] /\ replay = [id \in Id |-> 0]
    /\ receipt = {}
    /\ age = [id \in Id |-> 0]
    /\ counter = 0
    /\ numbering = NoOne
    /\ tx = [p \in Publisher |-> NoTx]
    /\ pull = [r \in Reader |-> NoPull]
    /\ cursor = [r \in Reader |-> 0] /\ seen = [r \in Reader |-> {}] /\ missed = [r \in Reader |-> {}]
    /\ overtaken = [r \in Reader |-> {}]

(* An id's position, in whichever tier has it.                             *)
Position(id) == IF hot[id] # 0 THEN hot[id] ELSE replay[id]
Stored == {id \in Id : Position(id) # 0}
Known(id) == Position(id) # 0 \/ id \in receipt

-----------------------------------------------------------------------------
(* insertBatch.  `taken` is what the transaction inserted, with its place. *)
Item(p) == tx[p].batch[tx[p].at]
AfterItem(p) == IF tx[p].at < Len(tx[p].batch) THEN "hot" ELSE "commit"
Goto(p, phase) == tx' = [tx EXCEPT ![p].phase = phase]
NextItem(p) == tx' = [tx EXCEPT ![p] = [tx[p] EXCEPT !.phase = AfterItem(p), !.at = @ + 1]]

(* The transaction starts; the project's quota is counted here.            *)
Begin(p, batch) ==
    /\ tx[p].phase = "idle"
    /\ counter < MaxSeq
    /\ tx' = [tx EXCEPT ![p] = [NoTx EXCEPT !.phase = "hot", !.batch = batch,
                  !.kept = Cardinality({id \in AppIds : hot[id] # 0})]]
    /\ UNCHANGED <<logVars, readerVars>>

(* Three looks for an earlier publish of the id, one statement each: the   *)
(* hot store, then the replay tier, then the receipts.                     *)
FindHot(p) ==
    /\ tx[p].phase = "hot"
    /\ IF hot[Item(p)] # 0 THEN NextItem(p) ELSE Goto(p, "replay")
    /\ UNCHANGED <<logVars, readerVars>>

FindReplay(p) ==
    /\ tx[p].phase = "replay"
    /\ IF replay[Item(p)] # 0 THEN NextItem(p) ELSE Goto(p, "receipt")
    /\ UNCHANGED <<logVars, readerVars>>

(* A new id also has to fit the project's quota.                           *)
OverQuota(p) == Item(p) \in AppIds /\ tx[p].kept + 1 > Quota
FindNoReceipt(p) ==     \* mutated: receipts are not looked at
    /\ tx[p].phase = "receipt"
    /\ ~OverQuota(p)
    /\ tx' = [tx EXCEPT ![p] = [tx[p] EXCEPT !.phase = "number", !.kept = @ + 1]]
    /\ UNCHANGED <<logVars, readerVars>>
FindReceipt(p) ==
    /\ tx[p].phase = "receipt"
    /\ IF Item(p) \in receipt
       THEN NextItem(p)
       ELSE ~OverQuota(p) /\ tx' = [tx EXCEPT ![p] = [tx[p] EXCEPT !.phase = "number", !.kept = @ + 1]]
    /\ UNCHANGED <<logVars, readerVars>>

(* nextSeq: UPDATE ... RETURNING, which waits for the counter's row.       *)
NumberUnlocked(p) ==    \* mutated: the position is read, not taken under the lock
    /\ tx[p].phase = "number"
    /\ Goto(p, "insert")
    /\ UNCHANGED <<logVars, readerVars>>
NumberElsewhere(p) ==   \* mutated: on a connection of its own, so a batch waits for itself
    /\ tx[p].phase = "number"
    /\ numbering = NoOne
    /\ numbering' = p
    /\ Goto(p, "insert")
    /\ UNCHANGED <<hot, replay, receipt, age, counter, readerVars>>
Number(p) ==
    /\ tx[p].phase = "number"
    /\ numbering \in {NoOne, p}
    /\ numbering' = p
    /\ Goto(p, "insert")
    /\ UNCHANGED <<hot, replay, receipt, age, counter, readerVars>>

Place(p) == counter + Len(tx[p].taken) + 1
Insert(p) ==
    /\ tx[p].phase = "insert"
    /\ hot[Item(p)] = 0
    /\ tx' = [tx EXCEPT ![p] = [tx[p] EXCEPT !.phase = AfterItem(p), !.at = @ + 1,
                                             !.taken = Append(@, [id |-> Item(p), pos |-> Place(p)])]]
    /\ UNCHANGED <<logVars, readerVars>>

Rollback(p) ==
    /\ tx' = [tx EXCEPT ![p] = NoTx]
    /\ numbering' = IF numbering = p THEN NoOne ELSE numbering

(* The id's primary key is taken by a publish that committed since the     *)
(* look-up: the statement, and the whole batch, fail.                      *)
Collide(p) ==
    /\ tx[p].phase = "insert"
    /\ hot[Item(p)] # 0
    /\ Rollback(p)
    /\ UNCHANGED <<hot, replay, receipt, age, counter, readerVars>>

(* Refused (id conflict, loop, quota, redaction) or cut off anywhere.      *)
Abort(p) ==
    /\ tx[p].phase # "idle"
    /\ Rollback(p)
    /\ UNCHANGED <<hot, replay, receipt, age, counter, readerVars>>

PlaceOf(p, id) == LET item == CHOOSE x \in Range(tx[p].taken) : x.id = id IN item.pos
TakenIds(p) == {x.id : x \in Range(tx[p].taken)}
Commit(p) ==
    /\ tx[p].phase = "commit"
    /\ hot' = [id \in Id |-> IF id \in TakenIds(p) THEN PlaceOf(p, id) ELSE hot[id]]
    /\ receipt' = receipt \union TakenIds(p)
    /\ age' = [id \in Id |-> IF id \in TakenIds(p) THEN 0 ELSE age[id]]
    /\ counter' = counter + Len(tx[p].taken)
    /\ tx' = [tx EXCEPT ![p] = NoTx]
    /\ numbering' = IF numbering = p THEN NoOne ELSE numbering
    /\ UNCHANGED <<replay, readerVars>>

-----------------------------------------------------------------------------
(* Retention.  A tick is long: no publish is in its transaction across it. *)
Tick ==
    /\ \A p \in Publisher : tx[p].phase = "idle"
    /\ \E id \in Id : Known(id) /\ age[id] < MaxAge
    /\ age' = [id \in Id |-> IF Known(id) /\ age[id] < MaxAge THEN age[id] + 1 ELSE age[id]]
    /\ UNCHANGED <<hot, replay, receipt, counter, numbering, tx, readerVars>>

HotOver == {id \in Id : hot[id] # 0 /\ age[id] >= HotAge}
SandboxOver == {id \in Sandbox : hot[id] # 0 /\ age[id] >= Min({HotAge, SandboxAge})}

(* moveBatch: some of the hot events that are over, in one transaction     *)
(* (SKIP LOCKED leaves any of them for later); sandbox events never move.  *)
Move(ids) ==
    /\ ReplayAges # {0}
    /\ ids # {} /\ ids \subseteq HotOver \ Sandbox
    /\ replay' = [id \in Id |-> IF id \in ids /\ replay[id] = 0 THEN hot[id] ELSE replay[id]]
    /\ hot' = [id \in Id |-> IF id \in ids THEN 0 ELSE hot[id]]
    /\ UNCHANGED <<receipt, age, counter, numbering, tx, readerVars>>

(* The deletions of one prune: sandbox events, hot events when there is no *)
(* replay tier, replay events, receipts.  Each is a statement of its own.  *)
DropHot(ids) ==
    /\ ids # {}
    /\ hot' = [id \in Id |-> IF id \in ids THEN 0 ELSE hot[id]]
    /\ UNCHANGED <<replay, receipt, age, counter, numbering, tx, readerVars>>
DropSandbox == DropHot(SandboxOver)
DropUntiered == 0 \in ReplayAges /\ DropHot(HotOver)

ReplayOver(limit) == {id \in Id : replay[id] # 0 /\ age[id] >= limit}
DropReplay(limit) ==
    /\ ReplayOver(limit) # {}
    /\ replay' = [id \in Id |-> IF id \in ReplayOver(limit) THEN 0 ELSE replay[id]]
    /\ UNCHANGED <<hot, receipt, age, counter, numbering, tx, readerVars>>

ReceiptOver == {id \in receipt : age[id] >= Max({ReceiptAge, HotAge})}
DropReceipts ==
    /\ ReceiptOver # {}
    /\ receipt' = receipt \ ReceiptOver
    /\ UNCHANGED <<hot, replay, age, counter, numbering, tx, readerVars>>

-----------------------------------------------------------------------------
(* GET /api/v1/events.  A reader pulls from its cursor, statement by       *)
(* statement: the oldest position, the pages, the head.  `began` is        *)
(* history: the head when the request came in.                             *)
Pull(r) == \E narrow \in Narrow :
    /\ pull[r].phase = "idle"
    /\ pull' = [pull EXCEPT ![r] = [NoPull EXCEPT !.phase = "oldest", !.narrow = narrow, !.from = cursor[r], !.began = counter]]
    /\ UNCHANGED <<logVars, tx, cursor, seen, missed, overtaken>>

(* The gap, and where the scan starts, once the oldest position is known.  *)
ScanFromBefore(r, oldest) ==    \* mutated: off by one at the start of an empty log
    LET from == pull[r].from IN
    pull' = [pull EXCEPT ![r] = [pull[r] EXCEPT !.phase = "scan", !.at = IF from > oldest - 1 THEN from ELSE oldest - 2,
                                                !.gap = IF from < oldest - 1 THEN (from + 1)..(oldest - 1) ELSE {}]]
ScanFrom(r, oldest) ==
    LET from == pull[r].from IN
    pull' = [pull EXCEPT ![r] = [pull[r] EXCEPT !.phase = "scan", !.at = Max({from, oldest - 1}),
                                                !.gap = IF from < oldest - 1 THEN (from + 1)..(oldest - 1) ELSE {}]]

(* oldestSeq: the smallest position of both tiers, in one statement, and   *)
(* only when there is none the counter, in another.                        *)
Oldest(r) ==
    /\ pull[r].phase = "oldest"
    /\ IF Stored = {}
       THEN pull' = [pull EXCEPT ![r].phase = "empty"]
       ELSE ScanFrom(r, Min({Position(id) : id \in Stored}))
    /\ UNCHANGED <<logVars, tx, cursor, seen, missed, overtaken>>

NextToCome(r) ==
    /\ pull[r].phase = "empty"
    /\ ScanFrom(r, counter + 1)
    /\ UNCHANGED <<logVars, tx, cursor, seen, missed, overtaken>>

(* The rows spanTiers gives after a position, in order, both tiers at once. *)
HotRowsAfter(r, pos) ==     \* mutated: the replay tier is left out
    {id \in Stored : hot[id] > pos /\ (pull[r].narrow => id \in Wanted)}
RowsAfter(r, pos) == {id \in Stored : Position(id) > pos /\ (pull[r].narrow => id \in Wanted)}
Pages(rows) ==
    {page \in SUBSET rows : /\ Cardinality(page) = Min({PageSize, Cardinality(rows)})
                            /\ \A id \in page, later \in rows \ page : Position(id) < Position(later)}

(* How much of a page is examined: up to the first row with which the      *)
(* answer has its limit, or the scan its own.                              *)
Full(r, part) ==
    \/ Cardinality(pull[r].rows \union (Wanted \intersect part)) >= Limit
    \/ pull[r].scanned + Cardinality(part) >= ScanMax
Examined(r, page) ==
    LET upTo(id) == {x \in page : Position(x) <= Position(id)}
    IN  {x \in page : \A id \in page : Full(r, upTo(id)) => x \in upTo(id)}
CursorAfterMatches(r, part) ==   \* mutated: rows that did not match do not move the cursor
    Max({pull[r].at} \union {Position(id) : id \in Wanted \intersect part})
CursorAfter(r, part) == Max({pull[r].at} \union {Position(id) : id \in part})

Scan(r) ==
    /\ pull[r].phase = "scan"
    /\ \E page \in Pages(RowsAfter(r, pull[r].at)) :
          LET part == Examined(r, page)
          IN  pull' = [pull EXCEPT ![r] = [pull[r] EXCEPT
                 !.rows = @ \union (Wanted \intersect part),
                 !.scanned = @ + Cardinality(part),
                 !.at = CursorAfter(r, part),
                 !.phase = IF Full(r, part) THEN "answer"
                           ELSE IF Cardinality(page) = PageSize THEN "scan"
                           ELSE IF pull[r].narrow THEN "head" ELSE "answer"]]
    /\ UNCHANGED <<logVars, tx, cursor, seen, missed, overtaken>>

(* The end was reached with the narrowed query: on to the latest position. *)
ToHead(r) ==
    /\ pull[r].phase = "head"
    /\ pull' = [pull EXCEPT ![r] = [pull[r] EXCEPT !.at = Max({@, counter}), !.phase = "answer"]]
    /\ overtaken' = [overtaken EXCEPT ![r] = @ \union ((pull[r].began + 1)..counter)]
    /\ UNCHANGED <<logVars, tx, cursor, seen, missed>>

(* The answer arrives, and the reader keeps next_cursor; or it is lost,    *)
(* and the reader pulls again from where it was.                           *)
Answer(r) ==
    /\ pull[r].phase = "answer"
    /\ cursor' = [cursor EXCEPT ![r] = pull[r].at]
    /\ seen' = [seen EXCEPT ![r] = @ \union pull[r].rows]
    /\ missed' = [missed EXCEPT ![r] = @ \union pull[r].gap]
    /\ pull' = [pull EXCEPT ![r] = NoPull]
    /\ UNCHANGED <<logVars, tx, overtaken>>

Lose(r) ==
    /\ pull[r].phase = "answer"
    /\ pull' = [pull EXCEPT ![r] = NoPull]
    /\ UNCHANGED <<logVars, tx, cursor, seen, missed, overtaken>>

-----------------------------------------------------------------------------
PublishStep(p) ==
    \/ FindHot(p) \/ FindReplay(p) \/ FindReceipt(p) \/ Number(p)
    \/ Insert(p) \/ Collide(p) \/ Commit(p)
Prune ==
    \/ \E ids \in SUBSET Id : Move(ids)
    \/ DropSandbox \/ DropUntiered \/ DropReceipts
    \/ \E limit \in ReplayAges : DropReplay(limit)
ReadStep(r) == Pull(r) \/ Oldest(r) \/ NextToCome(r) \/ Scan(r) \/ ToHead(r)

Next ==
    \/ \E p \in Publisher, batch \in Batches : Begin(p, batch)
    \/ \E p \in Publisher : PublishStep(p) \/ Abort(p)
    \/ Tick \/ Prune
    \/ \E r \in Reader : ReadStep(r) \/ Answer(r) \/ Lose(r)

Spec == Init /\ [][Next]_vars

(* A statement ends; PostgreSQL grants a row's lock in the order it was    *)
(* asked for; not every answer to a reader is lost.                        *)
Fairness ==
    /\ \A p \in Publisher : WF_vars(PublishStep(p)) /\ SF_vars(Number(p))
    /\ \A r \in Reader : WF_vars(ReadStep(r)) /\ SF_vars(Answer(r))

FairSpec == Spec /\ Fairness

-----------------------------------------------------------------------------
(* README: an event id "is never stored twice (even after retention, for   *)
(* EVENTS_RECEIPT_RETENTION_DAYS)": while the log knows an id, the id keeps *)
(* its position or loses it, through concurrent repeats, moves and prunes. *)
StoredOnce == [][\A id \in Id : Known(id) => Position(id)' \in {Position(id), 0}]_vars

(* Positions appear in commit order: what becomes visible is beyond every  *)
(* position handed out before, so a cursor never has to look back.         *)
CommitOrder == [][\A id \in Id : Position(id)' \notin {0, Position(id)} => Position(id)' > counter]_vars

(* A cursor skips nothing: every stored event a reader wants, up to its    *)
(* cursor, was given to it or lies in a gap it was told of; but for what   *)
(* was committed while a narrowed request of its was being answered.       *)
PullMissesNothing == \A r \in Reader, id \in Wanted :
    Position(id) # 0 /\ Position(id) <= cursor[r] =>
        id \in seen[r] \/ Position(id) \in missed[r] \union overtaken[r]

(* Pages, gaps and cursors of well formed readers account for the log.     *)
CursorsSound == TypeOK /\ PullMissesNothing

(* A publish always ends: no transaction waits forever for the counter.    *)
PublishEnds == \A p \in Publisher : tx[p].phase # "idle" ~> tx[p].phase = "idle"

(* A reader that keeps pulling gets every event it wants, or hears that it *)
(* missed it, or retention takes the event first.                          *)
ReaderCatchesUp == \A r \in Reader, id \in Wanted :
    Position(id) # 0 ~>
        id \in seen[r] \/ Position(id) = 0 \/ Position(id) \in missed[r] \union overtaken[r]

-----------------------------------------------------------------------------
(* What docs, comments and tests say of the log and the code does not do.  *)

(* scan: with a narrowed query "rows that were never fetched cannot match, *)
(* so the cursor may move up to the latest seq handed out": a cursor skips *)
(* nothing, with no exception.                                             *)
NarrowMissesNothing == \A r \in Reader, id \in Wanted :
    Position(id) # 0 /\ Position(id) <= cursor[r] => id \in seen[r] \/ Position(id) \in missed[r]
=============================================================================
