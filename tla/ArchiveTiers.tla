---------------------------- MODULE ArchiveTiers ----------------------------
(***************************************************************************)
(* What the tiers hold of an event: `events` (hot), `events_archive`       *)
(* (replay) and the month's object with its manifest, under retention      *)
(* (moveBatch, prune), redaction (applyRedaction), account deletion        *)
(* (server/account-data.js extraErase) and the operator's export and       *)
(* restore (scripts/events-archive.js).                                    *)
(*                                                                         *)
(* A transaction's statements are steps.  A row it wrote or locked is      *)
(* locked until it commits and shows its old value to everyone else; a     *)
(* statement that needs a locked row waits.  The events are of one month,  *)
(* one owner and one subject, and are the rows 1..N in their order.        *)
(***************************************************************************)
EXTENDS Integers, FiniteSets

CONSTANTS
    N,          \* events stored
    Pruner,     \* processes that prune
    Batch,      \* rows a moveBatch takes
    Job,        \* export and restore jobs
    MaxRewrites,    \* bound: redactions and account deletions that begin
    MaxJobs         \* bound: exports and restores that begin

Event == 1..N

ASSUME TierBounds == N \in Nat \ {0} /\ Batch \in Nat \ {0} /\ MaxRewrites \in Nat /\ MaxJobs \in Nat
ASSUME LockNames == "free" \notin Job /\ \A name \in {"free", "redact", "erase"} : name \notin Pruner

VARIABLES
    age,        \* 0: recent, 1: past retention, 2: past the export's cutoff, 3: past replay retention
    tiered,     \* EVENTS_REPLAY_RETENTION_DAYS is not 0: there is a replay tier
    hot, replay,    \* what a tier holds of an event
    held,       \* replay rows whose hold_until has not passed
    hotLock, replayLock,    \* who has the row locked
    moving,     \* per pruner: the rows of its moveBatch
    redact,     \* the transaction of a publish with a directive about every event
    erase,      \* the transaction of an account deletion about every event
    month,      \* the advisory lock of the month
    job,        \* per job: where it is
    object, manifest,   \* the stored object, and the lines the manifest's sha256 is of
    begun,      \* redactions and deletions, and jobs, that began
    taken,      \* history: events a committed redaction or deletion found stored (present) and that no restore touched while it ran
    restored,   \* history: and restored since
    gone,       \* history: what an export deleted of an event
    torn        \* history: an export ended between its two puts

tierVars == <<hot, replay, held, hotLock, replayLock>>
objectVars == <<object, manifest>>
history == <<taken, restored, gone, torn>>
vars == <<age, tiered, tierVars, moving, redact, erase, month, job, objectVars, begun, history>>

Copy == {"none", "original", "tombstone"}
Free == "free"
Nothing == [e \in Event |-> "none"]
NoFile == [there |-> FALSE, lines |-> Nothing]
NoRedact == [pc |-> "off", unhot |-> {}, unreplay |-> {}, found |-> {}, moved |-> {}, present |-> {}]
NoErase == [pc |-> "off", rows |-> {}, present |-> {}]
NoJob == [pc |-> "off", fresh |-> Nothing, lines |-> Nothing]

TypeOK ==
    /\ age \in [Event -> 0..3] /\ tiered \in BOOLEAN /\ torn \in BOOLEAN
    /\ hot \in [Event -> Copy] /\ replay \in [Event -> Copy]
    /\ held \subseteq {e \in Event : replay[e] # "none"}
    /\ hotLock \in [Event -> {Free, "redact", "erase"} \union Pruner]
    /\ replayLock \in [Event -> {Free, "redact", "erase"}]
    /\ \A p \in Pruner : \A e \in moving[p] : hotLock[e] = p
    /\ redact.pc \in {"off", "find", "apply"} /\ redact.found \subseteq Event
    /\ redact.unhot \subseteq redact.unreplay /\ redact.unreplay \subseteq Event
    /\ erase.pc \in {"off", "hot", "scan", "replay"} /\ erase.rows \subseteq Event
    /\ month \in Job \union {Free}
    /\ \A j \in Job :
          /\ job[j].pc \in {"off", "read", "get", "object", "manifest", "check", "delete", "fetch", "insert"}
          /\ job[j].pc # "off" <=> month = j
    /\ begun.rewrites \in 0..MaxRewrites /\ begun.jobs \in 0..MaxJobs
    /\ object.lines \in [Event -> Copy] /\ manifest.lines \in [Event -> Copy]

Init ==
    /\ age = [e \in Event |-> 0] /\ tiered = TRUE
    /\ hot = [e \in Event |-> "original"] /\ replay = Nothing /\ held = {}
    /\ hotLock = [e \in Event |-> Free] /\ replayLock = [e \in Event |-> Free]
    /\ moving = [p \in Pruner |-> {}]
    /\ redact = NoRedact /\ erase = NoErase
    /\ month = Free /\ job = [j \in Job |-> NoJob]
    /\ object = NoFile /\ manifest = NoFile
    /\ begun = [rewrites |-> 0, jobs |-> 0]
    /\ taken = {} /\ restored = {} /\ gone = Nothing /\ torn = FALSE

Stored(e) == hot[e] # "none" \/ replay[e] # "none"
Served(e, copy) == hot[e] = copy \/ replay[e] = copy

-----------------------------------------------------------------------------
(* Time: events age in their order, a hold ends, and the service is        *)
(* configured without a replay tier.                                       *)
Ages(e) ==
    /\ age[e] < 3 /\ \A d \in Event : d < e => age[d] > age[e]
    /\ age' = [age EXCEPT ![e] = @ + 1]
    /\ UNCHANGED <<tiered, tierVars, moving, redact, erase, month, job, objectVars, history, begun>>

HoldEnds(e) ==
    /\ e \in held
    /\ held' = held \ {e}
    /\ UNCHANGED <<age, tiered, hot, replay, hotLock, replayLock, moving, redact, erase, month, job, objectVars, history, begun>>

TierEnds ==
    /\ tiered
    /\ tiered' = FALSE
    /\ UNCHANGED <<age, tierVars, moving, redact, erase, month, job, objectVars, history, begun>>

(* moveBatch: the oldest rows past retention that no one has locked; they  *)
(* are copied and deleted in one transaction.                              *)
\* mutated: rows another transaction has locked are taken too
MovableAlways == {e \in Event : hot[e] # "none" /\ age[e] >= 1}
Movable == {e \in Event : hot[e] # "none" /\ age[e] >= 1 /\ hotLock[e] = Free}

MoveLocks(p) ==
    /\ tiered /\ moving[p] = {} /\ Movable # {}
    /\ \E rows \in SUBSET Movable :
          /\ Cardinality(rows) = IF Cardinality(Movable) < Batch THEN Cardinality(Movable) ELSE Batch
          /\ \A e \in rows, d \in Movable \ rows : e < d
          /\ moving' = [moving EXCEPT ![p] = rows]
          /\ hotLock' = [e \in Event |-> IF e \in rows THEN p ELSE hotLock[e]]
    /\ UNCHANGED <<age, tiered, hot, replay, held, replayLock, redact, erase, month, job, objectVars, history, begun>>

MoveCommits(p) ==
    /\ moving[p] # {}
    /\ replay' = [e \in Event |-> IF e \in moving[p] /\ replay[e] = "none" THEN hot[e] ELSE replay[e]]
    /\ hot' = [e \in Event |-> IF e \in moving[p] THEN "none" ELSE hot[e]]
    /\ hotLock' = [e \in Event |-> IF e \in moving[p] THEN Free ELSE hotLock[e]]
    /\ moving' = [moving EXCEPT ![p] = {}]
    /\ UNCHANGED <<age, tiered, held, replayLock, redact, erase, month, job, objectVars, history, begun>>

MoveFails(p) ==
    /\ moving[p] # {}
    /\ hotLock' = [e \in Event |-> IF e \in moving[p] THEN Free ELSE hotLock[e]]
    /\ moving' = [moving EXCEPT ![p] = {}]
    /\ UNCHANGED <<age, tiered, hot, replay, held, replayLock, redact, erase, month, job, objectVars, history, begun>>

(* Without a replay tier a hot row past retention is deleted, and replay   *)
(* is emptied; a restored row stays until its hold ends either way.        *)
PruneHot(e) ==
    /\ ~tiered /\ hot[e] # "none" /\ age[e] >= 1 /\ hotLock[e] = Free
    /\ hot' = [hot EXCEPT ![e] = "none"]
    /\ UNCHANGED <<age, tiered, replay, held, hotLock, replayLock, moving, redact, erase, month, job, objectVars,
                   history, begun>>

\* mutated: a restored row is dropped by its age alone
DroppableHeld(e) == tiered => age[e] = 3
Droppable(e) == (tiered => age[e] = 3) /\ e \notin held

PruneReplay(e) ==
    /\ replay[e] # "none" /\ Droppable(e) /\ replayLock[e] = Free
    /\ replay' = [replay EXCEPT ![e] = "none"]
    /\ held' = held \ {e}
    /\ UNCHANGED <<age, tiered, hot, hotLock, replayLock, moving, redact, erase, month, job, objectVars, history, begun>>

-----------------------------------------------------------------------------
(* applyRedaction: the targets are looked for in hot and then in replay,   *)
(* one by one (event_ids) or together (subject_ids), and each is rewritten *)
(* where it is now.                                                        *)
Redact ==
    /\ redact.pc = "off" /\ begun.rewrites < MaxRewrites
    /\ begun' = [begun EXCEPT !.rewrites = @ + 1]
    /\ redact' = [NoRedact EXCEPT !.pc = "find", !.unhot = Event, !.unreplay = Event,
                                  !.present = {e \in Event : Stored(e)}]
    /\ UNCHANGED <<age, tiered, tierVars, moving, erase, month, job, objectVars, history>>

Looks(set) == {set} \union {{e} : e \in set}

FindHot(rows) ==
    /\ redact.pc = "find"
    /\ rows \in Looks(redact.unhot) /\ rows # {}
    /\ redact' = [redact EXCEPT !.unhot = @ \ rows, !.found = @ \union {e \in rows : hot[e] = "original"}]
    /\ UNCHANGED <<age, tiered, tierVars, moving, erase, month, job, objectVars, history, begun>>

\* mutated: replay is looked through before hot
Unordered == redact.unreplay
HotFirst == redact.unreplay \ redact.unhot

FindReplay(rows) ==
    /\ redact.pc = "find"
    /\ rows \in Looks(HotFirst) /\ rows # {}
    /\ LET unreplay == redact.unreplay \ rows
           pc == IF unreplay = {} /\ redact.unhot = {} THEN "apply" ELSE "find"
       IN  redact' = [redact EXCEPT !.unreplay = unreplay, !.pc = pc,
                                    !.found = @ \union {e \in rows : replay[e] = "original"}]
    /\ UNCHANGED <<age, tiered, tierVars, moving, erase, month, job, objectVars, history, begun>>

(* The hot UPDATE waits for a move that has the row; a row that is not hot *)
(* (any more) is left to tombstoneArchived.                                *)
ApplyHot(e) ==
    /\ redact.pc = "apply" /\ e \in redact.found
    /\ hot[e] # "none" => hotLock[e] = Free
    /\ IF hot[e] = "original"
       THEN /\ hotLock' = [hotLock EXCEPT ![e] = "redact"]
            /\ redact' = [redact EXCEPT !.found = @ \ {e}]
       ELSE /\ redact' = [redact EXCEPT !.found = @ \ {e}, !.moved = @ \union {e}]
            /\ UNCHANGED hotLock
    /\ UNCHANGED <<age, tiered, hot, replay, held, replayLock, moving, erase, month, job, objectVars, history, begun>>

Archived(e) == replay[e] = "original"

ApplyReplay(e) ==
    /\ redact.pc = "apply" /\ e \in redact.moved
    /\ replay[e] # "none" => replayLock[e] = Free
    /\ replayLock' = IF Archived(e) THEN [replayLock EXCEPT ![e] = "redact"] ELSE replayLock
    /\ redact' = [redact EXCEPT !.moved = @ \ {e}]
    /\ UNCHANGED <<age, tiered, hot, replay, held, hotLock, moving, erase, month, job, objectVars, history, begun>>

(* A transaction of `who` commits: the rows it locked become tombstones.   *)
Tombstoned(tier, lock, who) == [e \in Event |-> IF lock[e] = who THEN "tombstone" ELSE tier[e]]
Unlocked(lock, who) == [e \in Event |-> IF lock[e] = who THEN Free ELSE lock[e]]

Committed(who, present) ==
    /\ hot' = Tombstoned(hot, hotLock, who)
    /\ replay' = Tombstoned(replay, replayLock, who)
    /\ hotLock' = Unlocked(hotLock, who) /\ replayLock' = Unlocked(replayLock, who)
    /\ taken' = taken \union present
    /\ restored' = restored \ present

RedactCommits ==
    /\ redact.pc = "apply" /\ redact.found = {} /\ redact.moved = {}
    /\ Committed("redact", redact.present)
    /\ redact' = NoRedact
    /\ UNCHANGED <<age, tiered, held, moving, erase, month, job, objectVars, gone, torn, begun>>

(* It is rolled back: a failure, or the database ends a deadlock.          *)
RedactFails ==
    /\ redact.pc # "off"
    /\ hotLock' = Unlocked(hotLock, "redact") /\ replayLock' = Unlocked(replayLock, "redact")
    /\ redact' = NoRedact
    /\ UNCHANGED <<age, tiered, hot, replay, held, moving, erase, month, job, objectVars, history, begun>>

-----------------------------------------------------------------------------
(* extraErase: the hot rows are locked and rewritten, then replay is read  *)
(* and every original in it rewritten by its id.                           *)
Erase ==
    /\ erase.pc = "off" /\ begun.rewrites < MaxRewrites
    /\ begun' = [begun EXCEPT !.rewrites = @ + 1]
    /\ erase' = [NoErase EXCEPT !.pc = "hot", !.present = {e \in Event : Stored(e)}]
    /\ UNCHANGED <<age, tiered, tierVars, moving, redact, month, job, objectVars, history>>

EraseHot ==
    /\ erase.pc = "hot"
    /\ \A e \in Event : hot[e] # "none" => hotLock[e] = Free
    /\ hotLock' = [e \in Event |-> IF hot[e] # "none" THEN "erase" ELSE hotLock[e]]
    /\ erase' = [erase EXCEPT !.pc = "scan"]
    /\ UNCHANGED <<age, tiered, hot, replay, held, replayLock, moving, redact, month, job, objectVars, history, begun>>

EraseScan ==
    /\ erase.pc = "scan"
    /\ erase' = [erase EXCEPT !.pc = "replay", !.rows = {e \in Event : replay[e] = "original"}]
    /\ UNCHANGED <<age, tiered, tierVars, moving, redact, month, job, objectVars, history, begun>>

EraseReplay(e) ==
    /\ erase.pc = "replay" /\ e \in erase.rows
    /\ replay[e] # "none" => replayLock[e] = Free
    /\ replayLock' = IF replay[e] # "none" THEN [replayLock EXCEPT ![e] = "erase"] ELSE replayLock
    /\ erase' = [erase EXCEPT !.rows = @ \ {e}]
    /\ UNCHANGED <<age, tiered, hot, replay, held, hotLock, moving, redact, month, job, objectVars, history, begun>>

EraseCommits ==
    /\ erase.pc = "replay" /\ erase.rows = {}
    /\ Committed("erase", erase.present)
    /\ erase' = NoErase
    /\ UNCHANGED <<age, tiered, held, moving, redact, month, job, objectVars, gone, torn, begun>>

EraseFails ==
    /\ erase.pc # "off"
    /\ hotLock' = Unlocked(hotLock, "erase") /\ replayLock' = Unlocked(replayLock, "erase")
    /\ erase' = NoErase
    /\ UNCHANGED <<age, tiered, hot, replay, held, moving, redact, month, job, objectVars, history, begun>>

-----------------------------------------------------------------------------
(* A job holds the month's lock until its transaction ends.                *)
MonthFree == month = Free

Begin(j, pc) ==
    /\ job[j].pc = "off" /\ MonthFree /\ begun.jobs < MaxJobs
    /\ begun' = [begun EXCEPT !.jobs = @ + 1]
    /\ month' = j
    /\ job' = [job EXCEPT ![j].pc = pc]
    /\ UNCHANGED <<age, tiered, tierVars, moving, redact, erase, objectVars, history>>

End(j) == job' = [job EXCEPT ![j] = NoJob] /\ month' = Free
Goes(j, pc) == job' = [job EXCEPT ![j].pc = pc] /\ UNCHANGED month

Dies(j) ==
    /\ job[j].pc # "off"
    /\ End(j)
    /\ torn' = (torn \/ job[j].pc = "manifest")
    /\ UNCHANGED <<age, tiered, tierVars, moving, redact, erase, objectVars, taken, restored, gone, begun>>

(* exportMonth: the rows old enough are read; the month's object, checked  *)
(* against its manifest, is merged with them and written again.            *)
ExportReads(j) ==
    /\ job[j].pc = "read"
    /\ job' = [job EXCEPT ![j].pc = "get",
                  ![j].fresh = [e \in Event |-> IF age[e] >= 2 THEN replay[e] ELSE "none"]]
    /\ UNCHANGED <<age, tiered, tierVars, moving, redact, erase, month, objectVars, history, begun>>

Readable == object = manifest

\* mutated: a later export writes the object anew
FreshOnly(fresh) == fresh
Merged(fresh) == [e \in Event |-> IF fresh[e] # "none" THEN fresh[e] ELSE object.lines[e]]

ExportGets(j) ==
    /\ job[j].pc = "get"
    /\ IF Readable /\ (object.there \/ job[j].fresh # Nothing)
       THEN /\ job' = [job EXCEPT ![j].pc = "object", ![j].lines = Merged(job[j].fresh)]
            /\ UNCHANGED month
       ELSE End(j)
    /\ UNCHANGED <<age, tiered, tierVars, moving, redact, erase, objectVars, history, begun>>

PutObject(j) ==
    /\ job[j].pc = "object"
    /\ object' = [there |-> TRUE, lines |-> job[j].lines]
    /\ Goes(j, "manifest")
    /\ UNCHANGED <<age, tiered, tierVars, moving, redact, erase, manifest, history, begun>>

PutManifest(j) ==
    /\ job[j].pc = "manifest"
    /\ manifest' = [there |-> TRUE, lines |-> job[j].lines]
    /\ Goes(j, "check")
    /\ UNCHANGED <<age, tiered, tierVars, moving, redact, erase, object, history, begun>>

(* Read back: it is what was written, with every row read line for line.   *)
ExportChecks(j) ==
    /\ job[j].pc = "check"
    /\ IF /\ Readable /\ object.lines = job[j].lines
          /\ \A e \in Event : job[j].fresh[e] # "none" => object.lines[e] = job[j].fresh[e]
       THEN Goes(j, "delete")
       ELSE End(j)
    /\ UNCHANGED <<age, tiered, tierVars, moving, redact, erase, objectVars, history, begun>>

(* The rows that are still as they were exported are deleted.              *)
\* mutated: a row redacted since it was read is deleted too
AnyRow(e, fresh) == fresh[e] # "none" /\ replay[e] # "none"
AsExported(e, fresh) == fresh[e] # "none" /\ replay[e] = fresh[e]

ExportDeletes(j) ==
    /\ job[j].pc = "delete"
    /\ LET fresh == job[j].fresh
           same == {e \in Event : AsExported(e, fresh)}
       IN  /\ \A e \in Event : fresh[e] # "none" /\ replay[e] # "none" => replayLock[e] = Free
           /\ replay' = [e \in Event |-> IF e \in same THEN "none" ELSE replay[e]]
           /\ gone' = [e \in Event |-> IF e \in same THEN replay[e] ELSE gone[e]]
           /\ held' = held \ same
    /\ End(j)
    /\ UNCHANGED <<age, tiered, hot, hotLock, replayLock, moving, redact, erase, objectVars, taken, restored, torn, begun>>

(* restoreMonth: the lines that are not in replay are inserted, held.      *)
RestoreReads(j) ==
    /\ job[j].pc = "fetch"
    /\ IF Readable /\ object.there
       THEN job' = [job EXCEPT ![j].pc = "insert", ![j].lines = object.lines] /\ UNCHANGED month
       ELSE End(j)
    /\ UNCHANGED <<age, tiered, tierVars, moving, redact, erase, objectVars, history, begun>>

RestoreCommits(j) ==
    /\ job[j].pc = "insert"
    /\ LET new == {e \in Event : job[j].lines[e] # "none" /\ replay[e] = "none"}
       IN  /\ replay' = [e \in Event |-> IF e \in new THEN job[j].lines[e] ELSE replay[e]]
           /\ held' = held \union new
           /\ restored' = restored \union new
           /\ redact' = [redact EXCEPT !.present = @ \ new]
           /\ erase' = [erase EXCEPT !.present = @ \ new]
    /\ End(j)
    /\ UNCHANGED <<age, tiered, hot, hotLock, replayLock, moving, objectVars, taken, gone, torn, begun>>

-----------------------------------------------------------------------------
Time == TierEnds \/ \E e \in Event : Ages(e) \/ HoldEnds(e)
Retention == \/ \E p \in Pruner : MoveLocks(p) \/ MoveCommits(p) \/ MoveFails(p)
             \/ \E e \in Event : PruneHot(e) \/ PruneReplay(e)
Redaction == \/ Redact \/ RedactCommits \/ RedactFails
             \/ \E rows \in SUBSET Event : FindHot(rows) \/ FindReplay(rows)
             \/ \E e \in Event : ApplyHot(e) \/ ApplyReplay(e)
Erasure == Erase \/ EraseHot \/ EraseScan \/ EraseCommits \/ EraseFails \/ \E e \in Event : EraseReplay(e)
Export(j) == Begin(j, "read") \/ ExportReads(j) \/ ExportGets(j) \/ PutObject(j) \/ PutManifest(j)
             \/ ExportChecks(j) \/ ExportDeletes(j)
Restore(j) == Begin(j, "fetch") \/ RestoreReads(j) \/ RestoreCommits(j)

Next ==
    \/ Time \/ Retention \/ Redaction \/ Erasure
    \/ \E j \in Job : Export(j) \/ Restore(j) \/ Dies(j)

Spec == Init /\ [][Next]_vars

-----------------------------------------------------------------------------
(* Once a redaction or an account deletion that began while an event was   *)
(* stored has committed, Postgres holds the original only when a restore   *)
(* brought it back meanwhile or since: applyRedaction, extraErase,         *)
(* moveBatch.                                                              *)
OriginalOnlyRestored ==
    \A e \in taken : Served(e, "original") => e \in restored

(* An event leaves Postgres when its retention is over (the hot one too,   *)
(* once there is no replay tier) and no restore holds it, or by an export  *)
(* whose object, readable, has it as it was: prune, exportMonth.           *)
LeavesByRule ==
    [][\A e \in Event : Stored(e) /\ ~Stored(e)' =>
          \/ e \notin held /\ IF tiered THEN age[e] = 3 ELSE hot[e] # "none" => age[e] >= 1
          \/ object = manifest /\ object.lines[e] = replay[e]]_vars

(* What an export deleted stays in the month's object, whatever later      *)
(* exports merge into it or leave behind when they stop, and is not less   *)
(* redacted there than it was.                                             *)
ExportedIsKept ==
    \A e \in Event : gone[e] # "none" => object.lines[e] \in {gone[e], "tombstone"}

(* A restore or the next export of the month accepts its object            *)
(* (readObject), unless an export is between its two puts                  *)
(* (events-archive.js:104-105) or has ended there: after that the object   *)
(* has no manifest, or an older one, and no job accepts the month again.   *)
MonthReads == Readable \/ torn \/ \E j \in Job : job[j].pc = "manifest"

(* What an export deleted from Postgres can be restored: it is in the      *)
(* month's object, no less redacted than it was, and a restore accepts the *)
(* object unless an export stopped between its two puts.  Without the      *)
(* month's lock (lockMonth) or the merge, neither holds.                   *)
ArchiveKept == TypeOK /\ ExportedIsKept /\ MonthReads
=============================================================================
