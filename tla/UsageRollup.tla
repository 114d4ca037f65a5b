----------------------------- MODULE UsageRollup -----------------------------
(***************************************************************************)
(* Usage rollups (server/usage.js): one project's app_usage row per hour,  *)
(* counted in the transactions of publishes and deliveries, and stored as  *)
(* events.usage.recorded by the flush timer of every process.              *)
(*                                                                         *)
(* A count stands for one failed delivery attempt: it adds one to the      *)
(* row's totals and one to its code in error_codes, which are read and     *)
(* written back and list at most MAX_CODES of them.  The upsert locks the  *)
(* row until its transaction ends; `count` holds what that transaction     *)
(* wrote, the table what is committed.                                     *)
(***************************************************************************)
EXTENDS Integers, Sequences, FiniteSets, FiniteSetsExt, SequencesExt

CONSTANTS
    MaxHour,        \* bound: the hours are 1..MaxHour
    Counter,        \* concurrent transactions that count
    NoOne,          \* no transaction has a row's lock
    Flusher,        \* flushes that may overlap: a timer per process, and of one process
    Late,           \* how many hours back a clock may step
    Keep,           \* how many hours a row that was sent is kept
    Code,           \* the error codes that occur
    CodesOf,        \* bound: the codes of each hour's failures
    MaxCodes,       \* MAX_CODES: the error codes that a row lists (20)
    Invalid,        \* hours whose rollup does not match events.usage.recorded@1
    Limit,          \* rows of one flush
    MaxCount,       \* bound: counts of an hour
    MaxFails        \* bound: how many flushes fail

Hour == 1..MaxHour

ASSUME UsageBounds ==
    /\ MaxHour \in Nat \ {0} /\ Late \in Nat /\ Keep \in Nat /\ Late <= Keep
    /\ Limit \in Nat \ {0} /\ MaxCount \in Nat /\ MaxFails \in Nat
ASSUME UsageShape == Invalid \subseteq Hour /\ NoOne \notin Counter
ASSUME CodeShape == IsFiniteSet(Code) /\ MaxCodes \in Nat \ {0} /\ CodesOf \in [Hour -> SUBSET Code]

VARIABLES
    now,        \* the hour a flush finds open (GRACE_MS behind the clock); the ones before it have closed
    row,        \* app_usage, as committed
    locked,     \* the transaction that has each row's lock
    count,      \* each counting transaction
    todo,       \* per flush, the due rows it read and has still to store
    events,     \* the rollups stored for each hour, in commit order
    fails,      \* how many flushes failed
    failed,     \* history: the failures of each code that a row's transactions counted
    raced,      \* history: hours counted after a flush read them and before it stored them
    shared      \* history: hours that two flushes had read at once

histories == <<failed, raced, shared>>
vars == <<now, row, locked, count, todo, events, fails, histories>>

NoCodes == [k \in Code |-> 0]
NoRow == [total |-> 0, codes |-> NoCodes, revision |-> 1, sent |-> FALSE]
Rows == [total : 0..MaxCount, codes : [Code -> Nat], revision : Nat \ {0}, sent : BOOLEAN]
NoCount == [phase |-> "idle"]
Counting == [phase : {"added"}, hour : Hour, row : Rows]
            \union [phase : {"tallied"}, hour : Hour, row : Rows, code : Code]
NoFlush == [phase |-> "idle", rows |-> {}]

TypeOK ==
    /\ now \in Hour
    /\ row \in [Hour -> Rows]
    /\ locked \in [Hour -> Counter \union {NoOne}]
    /\ count \in [Counter -> Counting \union {NoCount}]
    /\ todo \in [Flusher -> [phase : {"idle", "storing"},
                             rows : SUBSET [hour : Hour, total : 1..MaxCount, revision : Nat \ {0}]]]
    /\ events \in [Hour -> Seq([total : 1..MaxCount, revision : Nat \ {0}])]
    /\ fails \in 0..MaxFails
    /\ failed \in [Hour -> [Code -> Nat]]
    /\ raced \subseteq Hour /\ shared \subseteq Hour

Init ==
    /\ now = 1
    /\ row = [h \in Hour |-> NoRow]
    /\ locked = [h \in Hour |-> NoOne]
    /\ count = [c \in Counter |-> NoCount]
    /\ todo = [f \in Flusher |-> NoFlush]
    /\ events = [h \in Hour |-> <<>>]
    /\ fails = 0
    /\ failed = [h \in Hour |-> NoCodes]
    /\ raced = {} /\ shared = {}

HourPasses ==
    /\ now < MaxHour
    /\ now' = now + 1
    /\ UNCHANGED <<row, locked, count, todo, events, fails, histories>>

-----------------------------------------------------------------------------
(* record.  The upsert waits for the row's lock; a count in an hour that   *)
(* was sent reopens it under the next revision.                            *)
ReopenedInPlace(r) == [r EXCEPT !.total = @ + 1, !.sent = FALSE]    \* mutated: under the same revision
CountedOnly(r) == [r EXCEPT !.total = @ + 1]                        \* mutated: what was sent stays sent
Reopened(r) == [r EXCEPT !.total = @ + 1, !.revision = IF r.sent THEN @ + 1 ELSE @, !.sent = FALSE]

AddOnItsOwn(c, h) ==    \* mutated: the upsert is a transaction of its own
    /\ count[c].phase = "idle"
    /\ now - Late <= h /\ h <= now /\ CodesOf[h] # {}
    /\ row[h].total < MaxCount
    /\ locked[h] = NoOne
    /\ row' = [row EXCEPT ![h] = Reopened(@)]
    /\ count' = [count EXCEPT ![c] = [phase |-> "added", hour |-> h, row |-> Reopened(row[h])]]
    /\ UNCHANGED <<now, locked, todo, events, fails, histories>>
Add(c, h) ==
    /\ count[c].phase = "idle"
    /\ now - Late <= h /\ h <= now /\ CodesOf[h] # {}
    /\ row[h].total < MaxCount
    /\ locked[h] = NoOne
    /\ locked' = [locked EXCEPT ![h] = c]
    /\ count' = [count EXCEPT ![c] = [phase |-> "added", hour |-> h, row |-> Reopened(row[h])]]
    /\ UNCHANGED <<now, row, todo, events, fails, histories>>

(* The codes are read and written back with one more of this code, if it   *)
(* is listed or there is room for it.                                      *)
Listed(codes) == {k \in Code : codes[k] > 0}
OneMore(codes, k) == [codes EXCEPT ![k] = @ + 1]
TalliedPastCap(codes, k) ==     \* mutated: one code too many
    IF codes[k] > 0 \/ Cardinality(Listed(codes)) <= MaxCodes THEN OneMore(codes, k) ELSE codes
Tallied(codes, k) ==
    IF codes[k] > 0 \/ Cardinality(Listed(codes)) < MaxCodes THEN OneMore(codes, k) ELSE codes

Tally(c, k) ==
    /\ count[c].phase = "added" /\ k \in CodesOf[count[c].hour]
    /\ count' = [count EXCEPT ![c] = [phase |-> "tallied", hour |-> count[c].hour, code |-> k,
           row |-> [count[c].row EXCEPT !.codes = Tallied(@, k)]]]
    /\ UNCHANGED <<now, row, locked, todo, events, fails, histories>>

Unlock(c) ==
    /\ count' = [count EXCEPT ![c] = NoCount]
    /\ locked' = [locked EXCEPT ![count[c].hour] = NoOne]

ReadBy(f) == {r.hour : r \in todo[f].rows}
Commit(c) ==
    /\ count[c].phase = "tallied"
    /\ row' = [row EXCEPT ![count[c].hour] = count[c].row]
    /\ Unlock(c)
    /\ failed' = [failed EXCEPT ![count[c].hour][count[c].code] = @ + 1]
    /\ raced' = raced \union ({count[c].hour} \intersect UNION {ReadBy(f) : f \in Flusher})
    /\ UNCHANGED <<now, todo, events, fails, shared>>

(* The publish or the attempt it belongs to is rolled back.                *)
Abort(c) ==
    /\ count[c].phase # "idle"
    /\ Unlock(c)
    /\ UNCHANGED <<now, row, todo, events, fails, histories>>

-----------------------------------------------------------------------------
(* flush.  The due rows are read once, the oldest first.                   *)
DueJustClosed == {h \in Hour : h = now - 1 /\ row[h].total > 0 /\ ~row[h].sent}    \* mutated: the hour before only
Due == {h \in Hour : h < now /\ row[h].total > 0 /\ ~row[h].sent}
Read(h) == [hour |-> h, total |-> row[h].total, revision |-> row[h].revision]
FirstDue(hours) ==
    /\ Cardinality(hours) = Min({Limit, Cardinality(Due)})
    /\ \A h \in hours, d \in Due \ hours : h < d

Start(f) == \E hours \in SUBSET Due :
    /\ todo[f].phase = "idle"
    /\ FirstDue(hours)
    /\ todo' = [todo EXCEPT ![f] = [phase |-> "storing", rows |-> {Read(h) : h \in hours}]]
    /\ shared' = shared \union (hours \intersect UNION {ReadBy(g) : g \in Flusher})
    /\ UNCHANGED <<now, row, locked, count, events, fails, failed, raced>>

(* They are taken in the order of the read.                                *)
IsNext(f, r) == r \in todo[f].rows /\ \A s \in todo[f].rows : r.hour <= s.hour
Rest(f, r) == todo' = [todo EXCEPT ![f].rows = @ \ {r}]

(* One transaction: the event, and the row marked as sent (which waits for *)
(* a transaction that is counting in it).                                  *)
Stored(r) == [events EXCEPT ![r.hour] = Append(@, [total |-> r.total, revision |-> r.revision])]

Store(f) == \E r \in todo[f].rows :
    /\ IsNext(f, r)
    /\ r.hour \notin Invalid
    /\ locked[r.hour] = NoOne
    /\ events' = Stored(r)
    /\ row' = [row EXCEPT ![r.hour].sent = @ \/ row[r.hour].total > 0]
    /\ Rest(f, r)
    /\ UNCHANGED <<now, locked, count, fails, histories>>

(* A rollup that does not match its schema is left unsent.                 *)
Skip(f) == \E r \in todo[f].rows :
    /\ IsNext(f, r)
    /\ r.hour \in Invalid
    /\ Rest(f, r)
    /\ UNCHANGED <<now, row, locked, count, events, fails, histories>>

(* The rows sent long ago go, and the flush is over.                       *)
PrunedUnsent(r, h) == IF h < now - Keep /\ locked[h] = NoOne THEN NoRow ELSE r   \* mutated: sent or not
Pruned(r, h) == IF r.sent /\ h < now - Keep /\ locked[h] = NoOne THEN NoRow ELSE r
End(f) ==
    /\ todo[f].phase = "storing" /\ todo[f].rows = {}
    /\ row' = [h \in Hour |-> Pruned(row[h], h)]
    /\ failed' = [h \in Hour |-> IF Pruned(row[h], h).total = 0 THEN NoCodes ELSE failed[h]]
    /\ todo' = [todo EXCEPT ![f] = NoFlush]
    /\ UNCHANGED <<now, locked, count, events, fails, raced, shared>>

(* A query fails, or the process is gone.                                  *)
Fail(f) ==
    /\ todo[f].phase = "storing"
    /\ fails < MaxFails
    /\ fails' = fails + 1
    /\ todo' = [todo EXCEPT ![f] = NoFlush]
    /\ UNCHANGED <<now, row, locked, count, events, histories>>

-----------------------------------------------------------------------------
FlushStep(f) == Store(f) \/ Skip(f) \/ End(f)

Next ==
    \/ HourPasses
    \/ \E c \in Counter, h \in Hour : Add(c, h)
    \/ \E c \in Counter, k \in Code : Tally(c, k)
    \/ \E c \in Counter : Commit(c) \/ Abort(c)
    \/ \E f \in Flusher : Start(f) \/ FlushStep(f) \/ Fail(f)

Spec == Init /\ [][Next]_vars

(* The timer fires, statements end, and a waiting statement gets its lock.  *)
Fairness ==
    /\ WF_vars(HourPasses)
    /\ \A c \in Counter : WF_vars(\E k \in Code : Tally(c, k) \/ Commit(c))
    /\ \A f \in Flusher : WF_vars(Start(f)) /\ WF_vars(FlushStep(f)) /\ SF_vars(Store(f))

FairSpec == Spec /\ Fairness

-----------------------------------------------------------------------------
(* Concurrent counts of an hour lose no code, although the codes are read  *)
(* and written back: a code that error_codes lists is counted once for     *)
(* each of its failures, and one is missing only where MAX_CODES others    *)
(* are listed (its failures are then in `errors` alone).                   *)
CodesExact == \A h \in Hour :
    /\ Cardinality(Listed(row[h].codes)) <= MaxCodes
    /\ \A k \in Code :
           \/ row[h].codes[k] = failed[h][k]
           \/ row[h].codes[k] = 0 /\ Cardinality(Listed(row[h].codes)) = MaxCodes

(* usage.js: what is counted in an hour that was sent "reopens it with     *)
(* revision + 1, and the next flush sends the corrected totals".  A row    *)
(* that is marked as sent was stored with its totals, unless it was        *)
(* counted between a flush's read of it and its mark.                      *)
SentAsCounted == \A h \in Hour \ raced :
    row[h].sent => events[h] # <<>> /\ Last(events[h]).total = row[h].total

(* "A rollup is stored once": every event of an hour corrects the one      *)
(* before it, unless two flushes had read the hour at once.                *)
RevisionsRise == \A h \in Hour \ shared : \A i, j \in DOMAIN events[h] :
    i < j => events[h][i].revision < events[h][j].revision

(* What record counts is what failed, in rows that are well formed.        *)
CountsAddUp == TypeOK /\ CodesExact

(* What flush sends is what was counted, and each event a later revision.  *)
SendsCorrected == SentAsCounted /\ RevisionsRise

(* Every hour that has closed is sent in the end, and one that cannot be   *)
(* does "never stop the others"; what prune drops was sent before.         *)
EveryHourSent == \A h \in Hour \ Invalid :
    h < now /\ row[h].total > 0 ~> row[h].sent \/ (row[h].total = 0 /\ events[h] # <<>>)
=============================================================================
