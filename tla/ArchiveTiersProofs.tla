------------------------- MODULE ArchiveTiersProofs -------------------------
(***************************************************************************)
(* What the tiers keep and what a rewrite leaves of them, for any number   *)
(* of events, pruners and jobs.  The inductive invariant has one part per  *)
(* hazard: an event is in one tier (OneTier), a rewrite has, or will       *)
(* still find, each original that was stored when it began (RedactCovers,  *)
(* EraseCovers), and an export knows what the month's object holds         *)
(* (JobKnows, ReplayKeeps) and leaves it with the manifest of it, or dies  *)
(* before that one (MonthReads).                                           *)
(***************************************************************************)
EXTENDS ArchiveTiers, TLAPS

Tier == [Event -> Copy]
File == [there : BOOLEAN, lines : Tier]
Phase == {"off", "read", "get", "object", "manifest", "check", "delete", "fetch", "insert"}

RedactRec == [pc : {"off", "find", "apply"}, unhot : SUBSET Event, unreplay : SUBSET Event,
              found : SUBSET Event, moved : SUBSET Event, present : SUBSET Event]
EraseRec == [pc : {"off", "hot", "scan", "replay"}, rows : SUBSET Event, present : SUBSET Event]
JobRec == [pc : Phase, fresh : Tier, lines : Tier]

(* The records TypeOK looks into, as wholes.                               *)
Shape ==
    /\ moving \in [Pruner -> SUBSET Event]
    /\ redact \in RedactRec /\ erase \in EraseRec /\ job \in [Job -> JobRec]
    /\ object \in File /\ manifest \in File
    /\ begun \in [rewrites : 0..MaxRewrites, jobs : 0..MaxJobs]
    /\ taken \subseteq Event /\ restored \subseteq Event /\ gone \in Tier

(* What is hot is nowhere else: not in replay, in an object, or on its way *)
(* there.                                                                  *)
OneTier == \A e \in Event : hot[e] # "none" =>
    /\ replay[e] = "none" /\ object.lines[e] = "none"
    /\ \A j \in Job : job[j].fresh[e] = "none" /\ job[j].lines[e] = "none"

(* A row that a rewrite has locked is there until it commits.              *)
LockedIsThere == \A e \in Event :
    /\ hotLock[e] \in {"redact", "erase"} => hot[e] # "none"
    /\ replayLock[e] # Free => replay[e] # "none"

(* Of what was stored when a redaction began and was not restored since,   *)
(* an original has not been looked for, was found, or is locked.           *)
RedactCovers ==
    /\ redact.pc = "off" => redact.present = {}
    /\ redact.pc = "find" => redact.moved = {} /\ \A e \in redact.present \ redact.found :
          /\ e \notin redact.unhot => hot[e] # "original"
          /\ e \notin redact.unreplay => replay[e] # "original"
    /\ redact.pc = "apply" => redact.found \intersect redact.moved = {} /\ \A e \in redact.present \ redact.found :
          /\ hot[e] = "original" => hotLock[e] = "redact" /\ e \notin redact.moved
          /\ replay[e] = "original" => replayLock[e] = "redact" \/ e \in redact.moved

EraseCovers ==
    /\ erase.pc = "off" => erase.present = {}
    /\ erase.pc \in {"scan", "replay"} => \A e \in erase.present : hot[e] = "original" => hotLock[e] = "erase"
    /\ erase.pc = "replay" => \A e \in erase.present \ erase.rows :
          replay[e] = "original" => replayLock[e] = "erase"

(* What may stand where an export deleted `was`.                           *)
Keeps(was, copy) == copy \in {was, "tombstone"}

JobKnows == \A j \in Job :
    /\ job[j].pc = "off" => job[j] = NoJob
    /\ \A e \in Event : gone[e] # "none" /\ job[j].fresh[e] # "none" => Keeps(gone[e], job[j].fresh[e])
    /\ job[j].pc = "object" => \A e \in Event : gone[e] # "none" => Keeps(gone[e], job[j].lines[e])
    /\ job[j].pc = "manifest" => object = [there |-> TRUE, lines |-> job[j].lines]
    /\ job[j].pc = "delete" =>
          /\ object = manifest
          /\ \A e \in Event : job[j].fresh[e] # "none" => object.lines[e] = job[j].fresh[e]
    /\ job[j].pc = "insert" => job[j].lines = object.lines

ReplayKeeps == \A e \in Event : gone[e] # "none" /\ replay[e] # "none" => Keeps(gone[e], replay[e])

Typed == TypeOK /\ Shape
TierInv == Typed /\ LockedIsThere /\ OneTier /\ RedactCovers /\ EraseCovers /\ OriginalOnlyRestored
KeptInv == JobKnows /\ ReplayKeeps /\ ExportedIsKept /\ MonthReads
IInv == TierInv /\ KeptInv

-----------------------------------------------------------------------------
(* What a step makes of the records, field by field.                       *)
RedactIs(pc, unhot, unreplay, found, moved, present) ==
    /\ redact' \in RedactRec /\ redact'.pc = pc
    /\ redact'.unhot = unhot /\ redact'.unreplay = unreplay
    /\ redact'.found = found /\ redact'.moved = moved /\ redact'.present = present
EraseIs(pc, rows, present) ==
    erase' \in EraseRec /\ erase'.pc = pc /\ erase'.rows = rows /\ erase'.present = present
JobIs(j, pc, fresh, lines) ==
    /\ job' \in [Job -> JobRec]
    /\ job'[j] = [pc |-> pc, fresh |-> fresh, lines |-> lines]
    /\ \A k \in Job \ {j} : job'[k] = job[k]

LEMMA RedactSteps ==
  ASSUME Shape
  PROVE  /\ Redact => RedactIs("find", Event, Event, {}, {}, {e \in Event : Stored(e)})
         /\ \A rows \in SUBSET Event : FindHot(rows) =>
               RedactIs("find", redact.unhot \ rows, redact.unreplay,
                        redact.found \union {e \in rows : hot[e] = "original"}, redact.moved, redact.present)
         /\ \A rows \in SUBSET Event : FindReplay(rows) =>
               RedactIs(IF redact.unreplay \ rows = {} /\ redact.unhot = {} THEN "apply" ELSE "find",
                        redact.unhot, redact.unreplay \ rows,
                        redact.found \union {e \in rows : replay[e] = "original"}, redact.moved, redact.present)
         /\ \A e \in Event : ApplyHot(e) =>
               RedactIs("apply", redact.unhot, redact.unreplay, redact.found \ {e},
                        IF hot[e] = "original" THEN redact.moved ELSE redact.moved \union {e}, redact.present)
         /\ \A e \in Event : ApplyReplay(e) =>
               RedactIs("apply", redact.unhot, redact.unreplay, redact.found, redact.moved \ {e}, redact.present)
         /\ RedactCommits \/ RedactFails => RedactIs("off", {}, {}, {}, {}, {})
         /\ \A j \in Job : RestoreCommits(j) =>
               \E new \in SUBSET Event :
                  /\ new = {e \in Event : job[j].lines[e] # "none" /\ replay[e] = "none"}
                  /\ RedactIs(redact.pc, redact.unhot, redact.unreplay, redact.found, redact.moved,
                              redact.present \ new)
                  /\ EraseIs(erase.pc, erase.rows, erase.present \ new)
  <1> USE DEF Shape, RedactRec, RedactIs
  <1>1. Redact => RedactIs("find", Event, Event, {}, {}, {e \in Event : Stored(e)})
    <2> HAVE Redact
    <2> DEFINE present == {e \in Event : Stored(e)}
    <2>1. redact' = [NoRedact EXCEPT !.pc = "find", !.unhot = Event, !.unreplay = Event, !.present = present]
      BY DEF Redact
    <2> HIDE DEF present
    <2>2. redact' = [pc |-> "find", unhot |-> Event, unreplay |-> Event, found |-> {}, moved |-> {},
                     present |-> present]
      BY <2>1 DEF NoRedact
    <2>3. present \in SUBSET Event
      BY DEF present
    <2> QED
      BY <2>2, <2>3 DEF present
  <1>2. ASSUME NEW rows \in SUBSET Event, FindHot(rows)
        PROVE  RedactIs("find", redact.unhot \ rows, redact.unreplay,
                        redact.found \union {e \in rows : hot[e] = "original"}, redact.moved, redact.present)
    BY <1>2 DEF FindHot
  <1>3. ASSUME NEW rows \in SUBSET Event, FindReplay(rows)
        PROVE  RedactIs(IF redact.unreplay \ rows = {} /\ redact.unhot = {} THEN "apply" ELSE "find",
                        redact.unhot, redact.unreplay \ rows,
                        redact.found \union {e \in rows : replay[e] = "original"}, redact.moved, redact.present)
    BY <1>3 DEF FindReplay
  <1>4. ASSUME NEW e \in Event, ApplyHot(e)
        PROVE  RedactIs("apply", redact.unhot, redact.unreplay, redact.found \ {e},
                        IF hot[e] = "original" THEN redact.moved ELSE redact.moved \union {e}, redact.present)
    <2>1. CASE hot[e] = "original"
      BY <1>4, <2>1 DEF ApplyHot
    <2>2. CASE hot[e] # "original"
      <3>1. redact' = [redact EXCEPT !.found = @ \ {e}, !.moved = @ \union {e}] /\ redact.pc = "apply"
        BY <1>4, <2>2 DEF ApplyHot
      <3> QED
        BY <3>1, <2>2
    <2> QED
      BY <2>1, <2>2
  <1>5. ASSUME NEW e \in Event, ApplyReplay(e)
        PROVE  RedactIs("apply", redact.unhot, redact.unreplay, redact.found, redact.moved \ {e}, redact.present)
    BY <1>5 DEF ApplyReplay
  <1>6. RedactCommits \/ RedactFails => RedactIs("off", {}, {}, {}, {}, {})
    BY DEF RedactCommits, RedactFails, NoRedact
  <1>7. ASSUME NEW j \in Job, RestoreCommits(j)
        PROVE  \E new \in SUBSET Event :
                  /\ new = {e \in Event : job[j].lines[e] # "none" /\ replay[e] = "none"}
                  /\ RedactIs(redact.pc, redact.unhot, redact.unreplay, redact.found, redact.moved,
                              redact.present \ new)
                  /\ EraseIs(erase.pc, erase.rows, erase.present \ new)
    <2> DEFINE new == {e \in Event : job[j].lines[e] # "none" /\ replay[e] = "none"}
    <2>1. RedactIs(redact.pc, redact.unhot, redact.unreplay, redact.found, redact.moved, redact.present \ new)
      BY <1>7 DEF RestoreCommits
    <2>2. EraseIs(erase.pc, erase.rows, erase.present \ new)
      BY <1>7 DEF RestoreCommits, EraseIs, EraseRec
    <2> QED
      BY <2>1, <2>2
  <1> QED
    BY <1>1, <1>2, <1>3, <1>4, <1>5, <1>6, <1>7

LEMMA EraseSteps ==
  ASSUME Shape
  PROVE  /\ Erase => EraseIs("hot", {}, {e \in Event : Stored(e)})
         /\ EraseHot => EraseIs("scan", erase.rows, erase.present)
         /\ EraseScan => EraseIs("replay", {e \in Event : replay[e] = "original"}, erase.present)
         /\ \A e \in Event : EraseReplay(e) => EraseIs("replay", erase.rows \ {e}, erase.present)
         /\ EraseCommits \/ EraseFails => EraseIs("off", {}, {})
  <1> USE DEF Shape, EraseRec, EraseIs
  <1>1. Erase => EraseIs("hot", {}, {e \in Event : Stored(e)})
    <2> DEFINE present == {e \in Event : Stored(e)}
    <2> HAVE Erase
    <2>1. erase' = [NoErase EXCEPT !.pc = "hot", !.present = present]
      BY DEF Erase
    <2>2. present \in SUBSET Event
      OBVIOUS
    <2> HIDE DEF present
    <2>3. erase' = [pc |-> "hot", rows |-> {}, present |-> present]
      BY <2>1 DEF NoErase
    <2> QED
      BY <2>2, <2>3 DEF present
  <1>2. EraseHot => EraseIs("scan", erase.rows, erase.present)
    BY DEF EraseHot
  <1>3. EraseScan => EraseIs("replay", {e \in Event : replay[e] = "original"}, erase.present)
    BY DEF EraseScan
  <1>4. ASSUME NEW e \in Event, EraseReplay(e) PROVE EraseIs("replay", erase.rows \ {e}, erase.present)
    BY <1>4 DEF EraseReplay
  <1>5. EraseCommits \/ EraseFails => EraseIs("off", {}, {})
    BY DEF EraseCommits, EraseFails, NoErase
  <1> QED
    BY <1>1, <1>2, <1>3, <1>4, <1>5

LEMMA OneJob ==
  ASSUME Shape, NEW j \in Job, NEW pc \in Phase, NEW fresh \in Tier, NEW lines \in Tier,
         job' = [job EXCEPT ![j] = [pc |-> pc, fresh |-> fresh, lines |-> lines]]
  PROVE  JobIs(j, pc, fresh, lines)
  BY DEF Shape, JobIs, JobRec

LEMMA JobFields ==
  ASSUME NEW r \in JobRec
  PROVE  /\ r = [pc |-> r.pc, fresh |-> r.fresh, lines |-> r.lines]
         /\ r.pc \in Phase /\ r.fresh \in Tier /\ r.lines \in Tier
  BY DEF JobRec

LEMMA JobFreshEdit ==
  ASSUME NEW r \in JobRec, NEW pc, NEW t
  PROVE  [r EXCEPT !.pc = pc, !.fresh = t] = [pc |-> pc, fresh |-> t, lines |-> r.lines]
  <1> DEFINE s == [r EXCEPT !.pc = pc]
  <1>1. s = [pc |-> pc, fresh |-> r.fresh, lines |-> r.lines]
    BY JobFields
  <1> HIDE DEF s
  <1>2. [s EXCEPT !.fresh = t] = [pc |-> pc, fresh |-> t, lines |-> r.lines]
    BY <1>1
  <1> QED
    BY <1>2 DEF s

LEMMA JobLinesEdit ==
  ASSUME NEW r \in JobRec, NEW pc, NEW t
  PROVE  [r EXCEPT !.pc = pc, !.lines = t] = [pc |-> pc, fresh |-> r.fresh, lines |-> t]
  <1> DEFINE s == [r EXCEPT !.pc = pc]
  <1>1. s = [pc |-> pc, fresh |-> r.fresh, lines |-> r.lines]
    BY JobFields
  <1> HIDE DEF s
  <1>2. [s EXCEPT !.lines = t] = [pc |-> pc, fresh |-> r.fresh, lines |-> t]
    BY <1>1
  <1> QED
    BY <1>2 DEF s

LEMMA JobSteps ==
  ASSUME TypeOK, Shape, NEW j \in Job
  PROVE  /\ \A pc \in Phase : Begin(j, pc) \/ Goes(j, pc) => JobIs(j, pc, job[j].fresh, job[j].lines)
         /\ End(j) => JobIs(j, "off", Nothing, Nothing)
         /\ ExportReads(j) =>
               JobIs(j, "get", [e \in Event |-> IF age[e] >= 2 THEN replay[e] ELSE "none"], job[j].lines)
         /\ ExportGets(j) => End(j) \/ JobIs(j, "object", job[j].fresh, Merged(job[j].fresh))
         /\ RestoreReads(j) => End(j) \/ JobIs(j, "insert", job[j].fresh, object.lines)
  <1> DEFINE r == job[j]
  <1>1. /\ r = [pc |-> r.pc, fresh |-> r.fresh, lines |-> r.lines]
        /\ r.pc \in Phase /\ r.fresh \in Tier /\ r.lines \in Tier
    BY JobFields DEF Shape
  <1>2. ASSUME NEW pc \in Phase, Begin(j, pc) \/ Goes(j, pc) PROVE JobIs(j, pc, r.fresh, r.lines)
    <2>1. job' = [job EXCEPT ![j] = [job[j] EXCEPT !.pc = pc]]
      BY <1>2 DEF Begin, Goes
    <2>2. [job[j] EXCEPT !.pc = pc] = [pc |-> pc, fresh |-> r.fresh, lines |-> r.lines]
      BY <1>1
    <2> QED
      BY <2>1, <2>2, <1>1, OneJob
  <1>3. End(j) => JobIs(j, "off", Nothing, Nothing)
    BY OneJob DEF End, NoJob, Nothing, Copy, Phase, Tier
  <1>4. ASSUME ExportReads(j)
        PROVE  JobIs(j, "get", [e \in Event |-> IF age[e] >= 2 THEN replay[e] ELSE "none"], r.lines)
    <2> DEFINE fresh == [e \in Event |-> IF age[e] >= 2 THEN replay[e] ELSE "none"]
    <2>1. fresh \in Tier
      BY DEF TypeOK, Tier, Copy
    <2>2. job' = [job EXCEPT ![j].pc = "get", ![j].fresh = fresh]
      BY <1>4 DEF ExportReads
    <2> HIDE DEF fresh
    <2>3. job' = [job EXCEPT ![j] = [pc |-> "get", fresh |-> fresh, lines |-> r.lines]]
      <3>1. job' = [job EXCEPT ![j] = [job[j] EXCEPT !.pc = "get", !.fresh = fresh]]
        BY <2>2 DEF Shape
      <3>2. [job[j] EXCEPT !.pc = "get", !.fresh = fresh] = [pc |-> "get", fresh |-> fresh, lines |-> r.lines]
        <4>1. job[j] \in JobRec
          BY DEF Shape
        <4> QED
          BY <4>1, JobFreshEdit
      <3> QED
        BY <3>1, <3>2
    <2> QED
      BY <2>1, <2>3, <1>1, OneJob DEF Phase, fresh
  <1>5. ASSUME ExportGets(j), ~End(j) PROVE JobIs(j, "object", r.fresh, Merged(r.fresh))
    <2> DEFINE lines == Merged(r.fresh)
    <2>1. lines \in Tier
      BY <1>1 DEF Merged, Shape, File, Tier
    <2>2. job' = [job EXCEPT ![j].pc = "object", ![j].lines = lines]
      BY <1>5 DEF ExportGets
    <2> HIDE DEF lines
    <2>3. job' = [job EXCEPT ![j] = [pc |-> "object", fresh |-> r.fresh, lines |-> lines]]
      <3>1. job' = [job EXCEPT ![j] = [job[j] EXCEPT !.pc = "object", !.lines = lines]]
        BY <2>2 DEF Shape
      <3>2. [job[j] EXCEPT !.pc = "object", !.lines = lines] = [pc |-> "object", fresh |-> r.fresh, lines |-> lines]
        <4>1. job[j] \in JobRec
          BY DEF Shape
        <4> QED
          BY <4>1, JobLinesEdit
      <3> QED
        BY <3>1, <3>2
    <2> QED
      BY <2>1, <2>3, <1>1, OneJob DEF Phase, lines
  <1>6. ASSUME RestoreReads(j), ~End(j) PROVE JobIs(j, "insert", r.fresh, object.lines)
    <2> DEFINE lines == object.lines
    <2>1. lines \in Tier
      BY DEF Shape, File
    <2>2. job' = [job EXCEPT ![j].pc = "insert", ![j].lines = lines]
      BY <1>6 DEF RestoreReads
    <2> HIDE DEF lines
    <2>3. job' = [job EXCEPT ![j] = [pc |-> "insert", fresh |-> r.fresh, lines |-> lines]]
      <3>1. job' = [job EXCEPT ![j] = [job[j] EXCEPT !.pc = "insert", !.lines = lines]]
        BY <2>2 DEF Shape
      <3>2. [job[j] EXCEPT !.pc = "insert", !.lines = lines] = [pc |-> "insert", fresh |-> r.fresh, lines |-> lines]
        <4>1. job[j] \in JobRec
          BY DEF Shape
        <4> QED
          BY <4>1, JobLinesEdit
      <3> QED
        BY <3>1, <3>2
    <2> QED
      BY <2>1, <2>3, <1>1, OneJob DEF Phase, lines
  <1> QED
    BY <1>2, <1>3, <1>4, <1>5, <1>6

-----------------------------------------------------------------------------
(* Typed, taken apart by the steps that can disturb it.                    *)
Tiers == /\ tiered \in BOOLEAN /\ age \in [Event -> 0..3] /\ hot \in Tier /\ replay \in Tier
         /\ held \subseteq {e \in Event : replay[e] # "none"}
Locks == /\ hotLock \in [Event -> {Free, "redact", "erase"} \union Pruner]
         /\ replayLock \in [Event -> {Free, "redact", "erase"}]
         /\ moving \in [Pruner -> SUBSET Event]
         /\ \A p \in Pruner : \A e \in moving[p] : hotLock[e] = p
Rewrites == redact \in RedactRec /\ redact.unhot \subseteq redact.unreplay /\ erase \in EraseRec
Jobs == /\ month \in Job \union {Free} /\ job \in [Job -> JobRec]
        /\ \A j \in Job : job[j].pc # "off" <=> month = j
Stores == /\ object \in File /\ manifest \in File /\ gone \in Tier /\ torn \in BOOLEAN
          /\ begun \in [rewrites : 0..MaxRewrites, jobs : 0..MaxJobs]
          /\ taken \subseteq Event /\ restored \subseteq Event

LEMMA TypedParts == Typed <=> Tiers /\ Locks /\ Rewrites /\ Jobs /\ Stores
  BY DEF Typed, TypeOK, Shape, Tiers, Locks, Rewrites, Jobs, Stores, Tier, File, RedactRec, EraseRec, JobRec, Phase

(* The steps that are not of a job, of a rewrite or of a pruner.           *)
LEMMA NoJobStep ==
  Time \/ Retention \/ Redaction \/ Erasure
    => UNCHANGED <<month, job, object, manifest, gone, torn>>
  <1>1. Time \/ Retention => UNCHANGED <<month, job, object, manifest, gone, torn>>
    BY DEF Time, TierEnds, Ages, HoldEnds, Retention, MoveLocks, MoveCommits, MoveFails, PruneHot, PruneReplay,
       objectVars, history
  <1>2. Redaction => UNCHANGED <<month, job, object, manifest, gone, torn>>
    BY DEF Redaction, Redact, RedactCommits, RedactFails, FindHot, FindReplay, ApplyHot, ApplyReplay, objectVars,
       history
  <1>3. Erasure => UNCHANGED <<month, job, object, manifest, gone, torn>>
    BY DEF Erasure, Erase, EraseHot, EraseScan, EraseCommits, EraseFails, EraseReplay, objectVars, history
  <1> QED
    BY <1>1, <1>2, <1>3

LEMMA NoRewriteStep ==
  /\ Time \/ Retention => UNCHANGED <<redact, erase, taken, restored>>
  /\ Redaction => UNCHANGED erase
  /\ Erasure => UNCHANGED redact
  /\ \A j \in Job : Export(j) \/ Dies(j) \/ Begin(j, "fetch") \/ RestoreReads(j)
        => UNCHANGED <<redact, erase, taken, restored, moving, hotLock, replayLock, hot, age, tiered>>
  /\ \A j \in Job : RestoreCommits(j) => UNCHANGED <<taken, moving, hotLock, replayLock, hot, age, tiered>>
  <1>1. Time \/ Retention => UNCHANGED <<redact, erase, taken, restored>>
    BY DEF Time, TierEnds, Ages, HoldEnds, Retention, MoveLocks, MoveCommits, MoveFails, PruneHot, PruneReplay,
       history
  <1>2. Redaction => UNCHANGED erase
    BY DEF Redaction, Redact, RedactCommits, RedactFails, FindHot, FindReplay, ApplyHot, ApplyReplay
  <1>3. Erasure => UNCHANGED redact
    BY DEF Erasure, Erase, EraseHot, EraseScan, EraseCommits, EraseFails, EraseReplay
  <1>4. ASSUME NEW j \in Job, Export(j) \/ Dies(j) \/ Begin(j, "fetch") \/ RestoreReads(j)
        PROVE  UNCHANGED <<redact, erase, taken, restored, moving, hotLock, replayLock, hot, age, tiered>>
    BY <1>4 DEF Export, Begin, ExportReads, ExportGets, PutObject, PutManifest, ExportChecks, ExportDeletes, Dies,
       RestoreReads, tierVars, history
  <1>5. ASSUME NEW j \in Job, RestoreCommits(j)
        PROVE  UNCHANGED <<taken, moving, hotLock, replayLock, hot, age, tiered>>
    BY <1>5 DEF RestoreCommits
  <1> QED
    BY <1>1, <1>2, <1>3, <1>4, <1>5

LEMMA StepCases ==
  [Next]_vars =>
    \/ Time \/ Retention \/ Redaction \/ Erasure
    \/ \E j \in Job : Export(j) \/ Begin(j, "fetch") \/ RestoreReads(j) \/ RestoreCommits(j) \/ Dies(j)
    \/ UNCHANGED vars
  BY DEF Next, Restore

LEMMA JobsNext == Typed /\ [Next]_vars => Jobs'
  <1> SUFFICES ASSUME Typed, [Next]_vars PROVE Jobs'
    OBVIOUS
  <1>0. TypeOK /\ Shape /\ Jobs
    BY TypedParts DEF Typed
  <1>1. ASSUME NEW j \in Job, NEW pc \in {"read", "fetch"}, Begin(j, pc) PROVE Jobs'
    <2>1. JobIs(j, pc, job[j].fresh, job[j].lines)
      BY <1>0, <1>1, JobSteps DEF Phase
    <2>2. month = Free /\ month' = j
      BY <1>1 DEF Begin, MonthFree
    <2> QED
      BY <1>0, <2>1, <2>2, LockNames DEF Jobs, JobIs, Free
  <1>2. ASSUME NEW j \in Job, End(j), job[j].pc # "off" PROVE Jobs'
    <2>1. JobIs(j, "off", Nothing, Nothing)
      BY <1>0, <1>2, JobSteps
    <2>2. month = j /\ month' = Free
      BY <1>0, <1>2 DEF Jobs, End
    <2> QED
      BY <1>0, <2>1, <2>2, LockNames DEF Jobs, JobIs, Free
  <1>3. ASSUME NEW j \in Job, NEW pc \in Phase \ {"off"}, NEW fresh, NEW lines,
               job[j].pc # "off", UNCHANGED month, JobIs(j, pc, fresh, lines)
        PROVE  Jobs'
    BY <1>0, <1>3, LockNames DEF Jobs, JobIs, Free
  <1>4. ASSUME NEW j \in Job, Export(j) PROVE Jobs'
    <2>1. CASE Begin(j, "read")
      BY <2>1, <1>1
    <2>2. CASE ExportReads(j)
      BY <1>0, <2>2, <1>3, JobSteps DEF ExportReads, Phase
    <2>3. CASE ExportGets(j)
      BY <1>0, <2>3, <1>2, <1>3, JobSteps DEF ExportGets, Phase, End
    <2>4. CASE PutObject(j)
      BY <1>0, <2>4, <1>3, JobSteps DEF PutObject, Goes, Phase
    <2>5. CASE PutManifest(j)
      BY <1>0, <2>5, <1>3, JobSteps DEF PutManifest, Goes, Phase
    <2>6. CASE ExportChecks(j)
      BY <1>0, <2>6, <1>2, <1>3, JobSteps DEF ExportChecks, Goes, Phase
    <2>7. CASE ExportDeletes(j)
      BY <2>7, <1>2 DEF ExportDeletes
    <2> QED
      BY <1>4, <2>1, <2>2, <2>3, <2>4, <2>5, <2>6, <2>7 DEF Export
  <1>5. ASSUME NEW j \in Job, RestoreReads(j) PROVE Jobs'
    BY <1>0, <1>5, <1>2, <1>3, JobSteps DEF RestoreReads, Phase
  <1>6. ASSUME NEW j \in Job, RestoreCommits(j) \/ Dies(j) PROVE Jobs'
    BY <1>6, <1>2 DEF RestoreCommits, Dies
  <1>7. CASE UNCHANGED <<month, job>>
    BY <1>0, <1>7 DEF Jobs
  <1> QED
    BY <1>1, <1>4, <1>5, <1>6, <1>7, StepCases, NoJobStep DEF vars

LEMMA RewritesNext == Typed /\ [Next]_vars => Rewrites'
  <1> SUFFICES ASSUME Typed, [Next]_vars PROVE Rewrites'
    OBVIOUS
  <1>0. Shape /\ Rewrites
    BY TypedParts DEF Typed
  <1>1. ASSUME Redaction PROVE Rewrites'
    <2>1. CASE Redact \/ RedactCommits \/ RedactFails
      BY <1>0, <1>1, <2>1, RedactSteps, NoRewriteStep DEF Rewrites, RedactIs
    <2>2. ASSUME NEW rows \in SUBSET Event, FindHot(rows) PROVE Rewrites'
      BY <1>0, <1>1, <2>2, RedactSteps, NoRewriteStep DEF Rewrites, RedactIs
    <2>3. ASSUME NEW rows \in SUBSET Event, FindReplay(rows) PROVE Rewrites'
      <3>1. rows \intersect redact.unhot = {}
        BY <1>0, <2>3 DEF FindReplay, Looks, HotFirst, Rewrites, RedactRec
      <3> QED
        BY <1>0, <1>1, <2>3, <3>1, RedactSteps, NoRewriteStep DEF Rewrites, RedactIs
    <2>4. ASSUME NEW e \in Event, ApplyHot(e) \/ ApplyReplay(e) PROVE Rewrites'
      BY <1>0, <1>1, <2>4, RedactSteps, NoRewriteStep DEF Rewrites, RedactIs
    <2> QED
      BY <1>1, <2>1, <2>2, <2>3, <2>4 DEF Redaction
  <1>2. ASSUME Erasure PROVE Rewrites'
    BY <1>0, <1>2, EraseSteps, NoRewriteStep DEF Erasure, Rewrites, EraseIs
  <1>3. ASSUME NEW j \in Job, RestoreCommits(j) PROVE Rewrites'
    BY <1>0, <1>3, RedactSteps DEF Rewrites, RedactIs, EraseIs
  <1>4. CASE UNCHANGED <<redact, erase>>
    BY <1>0, <1>4 DEF Rewrites
  <1> QED
    BY <1>1, <1>2, <1>3, <1>4, StepCases, NoRewriteStep DEF vars

LEMMA LocksNext == Typed /\ [Next]_vars => Locks'
  <1> SUFFICES ASSUME Typed, [Next]_vars PROVE Locks'
    OBVIOUS
  <1>0. Locks
    BY TypedParts
  <1> USE LockNames DEF Locks, Free
  <1>1. ASSUME NEW p \in Pruner, MoveLocks(p) \/ MoveCommits(p) \/ MoveFails(p) PROVE Locks'
    <2>1. CASE MoveLocks(p)
      <3> PICK rows \in SUBSET Movable :
             /\ moving' = [moving EXCEPT ![p] = rows]
             /\ hotLock' = [e \in Event |-> IF e \in rows THEN p ELSE hotLock[e]]
        BY <2>1 DEF MoveLocks
      <3> QED
        BY <1>0, <2>1 DEF MoveLocks, Movable
    <2>2. CASE MoveCommits(p)
      BY <1>0, <2>2 DEF MoveCommits
    <2>3. CASE MoveFails(p)
      BY <1>0, <2>3 DEF MoveFails
    <2> QED
      BY <1>1, <2>1, <2>2, <2>3
  <1>2. ASSUME NEW e \in Event, PruneHot(e) \/ PruneReplay(e) PROVE Locks'
    BY <1>0, <1>2 DEF PruneHot, PruneReplay
  <1>3. ASSUME RedactCommits \/ RedactFails \/ EraseCommits \/ EraseFails PROVE Locks'
    BY <1>0, <1>3 DEF RedactCommits, RedactFails, EraseCommits, EraseFails, Committed, Unlocked
  <1>4. ASSUME NEW e \in Event, ApplyHot(e) PROVE Locks'
    BY <1>0, <1>4, TypedParts DEF ApplyHot, Tiers, Tier, Copy
  <1>5. ASSUME NEW e \in Event, ApplyReplay(e) \/ EraseReplay(e) PROVE Locks'
    BY <1>0, <1>5 DEF ApplyReplay, EraseReplay
  <1>6. ASSUME EraseHot PROVE Locks'
    BY <1>0, <1>6 DEF EraseHot
  <1>7. CASE UNCHANGED <<hotLock, replayLock, moving>>
    BY <1>0, <1>7
  <1>8. Redact \/ (\E rows \in SUBSET Event : FindHot(rows) \/ FindReplay(rows)) \/ Erase \/ EraseScan
          \/ Time
          => UNCHANGED <<hotLock, replayLock, moving>>
    BY DEF Redact, FindHot, FindReplay, Erase, EraseScan, Time, TierEnds, Ages, HoldEnds, tierVars
  <1> QED
    BY <1>1, <1>2, <1>3, <1>4, <1>5, <1>6, <1>7, <1>8, StepCases, NoRewriteStep
       DEF Retention, Redaction, Erasure, vars, tierVars

LEMMA TiersNext == Typed /\ [Next]_vars => Tiers'
  <1> SUFFICES ASSUME Typed, [Next]_vars PROVE Tiers'
    OBVIOUS
  <1>0. Tiers /\ Locks /\ Jobs
    BY TypedParts
  <1> USE DEF Tiers, Tier, Copy
  <1>1. ASSUME NEW e \in Event, Ages(e) \/ HoldEnds(e) \/ PruneHot(e) \/ PruneReplay(e) PROVE Tiers'
    <2>1. CASE Ages(e)
      BY <1>0, <2>1 DEF Ages, tierVars
    <2>2. CASE HoldEnds(e)
      BY <1>0, <2>2 DEF HoldEnds
    <2>3. CASE PruneHot(e)
      BY <1>0, <2>3 DEF PruneHot
    <2>4. CASE PruneReplay(e)
      BY <1>0, <2>4 DEF PruneReplay
    <2> QED
      BY <1>1, <2>1, <2>2, <2>3, <2>4
  <1>9. ASSUME TierEnds PROVE Tiers'
    BY <1>0, <1>9 DEF TierEnds, tierVars
  <1>2. ASSUME NEW p \in Pruner, MoveCommits(p) PROVE Tiers'
    BY <1>0, <1>2 DEF MoveCommits, Locks
  <1>3. ASSUME RedactCommits \/ EraseCommits PROVE Tiers'
    BY <1>0, <1>3 DEF RedactCommits, EraseCommits, Committed, Tombstoned
  <1>4. ASSUME NEW j \in Job, ExportDeletes(j) PROVE Tiers'
    BY <1>0, <1>4 DEF ExportDeletes
  <1>5. ASSUME NEW j \in Job, RestoreCommits(j) PROVE Tiers'
    BY <1>0, <1>5 DEF RestoreCommits, Jobs, JobRec
  <1>6. CASE UNCHANGED <<age, tiered, hot, replay, held>>
    BY <1>0, <1>6
  <1>7. Redact \/ RedactFails \/ Erase \/ EraseHot \/ EraseScan \/ EraseFails
          \/ (\E rows \in SUBSET Event : FindHot(rows) \/ FindReplay(rows))
          \/ (\E e \in Event : ApplyHot(e) \/ ApplyReplay(e) \/ EraseReplay(e))
          \/ (\E p \in Pruner : MoveLocks(p) \/ MoveFails(p))
          => UNCHANGED <<age, tiered, hot, replay, held>>
    BY DEF Redact, RedactFails, FindHot, FindReplay, ApplyHot, ApplyReplay, Erase, EraseHot, EraseScan, EraseFails,
       EraseReplay, MoveLocks, MoveFails, tierVars
  <1>8. ASSUME NEW j \in Job, Export(j) \/ Begin(j, "fetch") \/ RestoreReads(j) \/ Dies(j), ~ExportDeletes(j)
        PROVE  UNCHANGED <<age, tiered, hot, replay, held>>
    BY <1>8 DEF Export, Begin, ExportReads, ExportGets, PutObject, PutManifest, ExportChecks, Dies, RestoreReads,
       tierVars
  <1> QED
    BY <1>1, <1>2, <1>3, <1>4, <1>5, <1>6, <1>7, <1>8, <1>9, StepCases
       DEF Time, Retention, Redaction, Erasure, vars, tierVars

LEMMA StoresNext == Typed /\ [Next]_vars => Stores'
  <1> SUFFICES ASSUME Typed, [Next]_vars PROVE Stores'
    OBVIOUS
  <1>0. Tiers /\ Rewrites /\ Jobs /\ Stores
    BY TypedParts
  <1> USE TierBounds DEF Stores
  <1>1. ASSUME Redact \/ Erase PROVE Stores'
    BY <1>0, <1>1 DEF Redact, Erase, objectVars, history
  <1>2. ASSUME NEW j \in Job, NEW pc \in {"read", "fetch"}, Begin(j, pc) PROVE Stores'
    BY <1>0, <1>2 DEF Begin, objectVars, history
  <1>3. ASSUME RedactCommits \/ EraseCommits PROVE Stores'
    BY <1>0, <1>3 DEF RedactCommits, EraseCommits, Committed, Rewrites, RedactRec, EraseRec, objectVars
  <1>4. ASSUME NEW j \in Job, PutObject(j) PROVE Stores'
    BY <1>0, <1>4 DEF PutObject, Jobs, JobRec, File, history
  <1>5. ASSUME NEW j \in Job, PutManifest(j) PROVE Stores'
    BY <1>0, <1>5 DEF PutManifest, Jobs, JobRec, File, history
  <1>6. ASSUME NEW j \in Job, ExportDeletes(j) PROVE Stores'
    BY <1>0, <1>6 DEF ExportDeletes, Tiers, Tier, objectVars
  <1>7. ASSUME NEW j \in Job, RestoreCommits(j) PROVE Stores'
    BY <1>0, <1>7 DEF RestoreCommits, objectVars
  <1>12. ASSUME NEW j \in Job, Dies(j) PROVE Stores'
    BY <1>0, <1>12 DEF Dies, objectVars
  <1>8. CASE UNCHANGED <<object, manifest, gone, torn, begun, taken, restored>>
    BY <1>0, <1>8
  <1>9. ASSUME NEW j \in Job, ExportReads(j) \/ ExportGets(j) \/ ExportChecks(j) \/ RestoreReads(j)
        PROVE  UNCHANGED <<object, manifest, gone, torn, begun, taken, restored>>
    BY <1>9 DEF ExportReads, ExportGets, ExportChecks, RestoreReads, objectVars, history
  <1>10. Time \/ Retention
          => UNCHANGED <<object, manifest, gone, torn, begun, taken, restored>>
    BY DEF Time, TierEnds, Ages, HoldEnds, Retention, MoveLocks, MoveCommits, MoveFails, PruneHot, PruneReplay,
       objectVars, history
  <1>11. RedactFails \/ EraseHot \/ EraseScan \/ EraseFails
          \/ (\E rows \in SUBSET Event : FindHot(rows) \/ FindReplay(rows))
          \/ (\E e \in Event : ApplyHot(e) \/ ApplyReplay(e) \/ EraseReplay(e))
          => UNCHANGED <<object, manifest, gone, torn, begun, taken, restored>>
    BY DEF RedactFails, FindHot, FindReplay, ApplyHot, ApplyReplay, EraseHot, EraseScan, EraseFails, EraseReplay,
       objectVars, history
  <1> QED
    BY <1>1, <1>2, <1>3, <1>4, <1>5, <1>6, <1>7, <1>8, <1>9, <1>10, <1>11, <1>12, StepCases
       DEF Redaction, Erasure, Export, vars, objectVars, history

LEMMA TypedInit == Init => Typed
  <1> SUFFICES ASSUME Init PROVE Typed
    OBVIOUS
  <1> USE DEF Init, Nothing, Copy, Tier, Free
  <1>1. Tiers
    BY DEF Tiers
  <1>2. Locks
    BY DEF Locks
  <1>3. Rewrites
    BY DEF Rewrites, RedactRec, EraseRec, NoRedact, NoErase
  <1>4. Jobs
    BY LockNames DEF Jobs, JobRec, Phase, NoJob
  <1>5. Stores
    <2>1. Nothing \in Tier
      OBVIOUS
    <2>2. NoFile \in File
      BY <2>1 DEF File, NoFile
    <2>3. begun \in [rewrites : 0..MaxRewrites, jobs : 0..MaxJobs]
      BY TierBounds
    <2> QED
      BY <2>1, <2>2, <2>3 DEF Stores
  <1> QED
    BY <1>1, <1>2, <1>3, <1>4, <1>5, TypedParts

LEMMA TypedNext == Typed /\ [Next]_vars => Typed'
  <1> SUFFICES ASSUME Typed, [Next]_vars PROVE Typed'
    OBVIOUS
  <1>1. Tiers' /\ Locks' /\ Rewrites' /\ Jobs' /\ Stores'
    BY TiersNext, LocksNext, RewritesNext, JobsNext, StoresNext
  <1>2. Typed' <=> Tiers' /\ Locks' /\ Rewrites' /\ Jobs' /\ Stores'
    BY TypedParts, PTL
  <1> QED
    BY <1>1, <1>2

-----------------------------------------------------------------------------
(* What a step does to a row of either tier.  A rewrite keeps its locks    *)
(* while it runs, the hot tier gains nothing, and replay gains an original *)
(* from a move or a restore only.                                          *)
RowSteps(e) ==
    /\ hot[e] = "none" => hot'[e] = "none"
    /\ hot'[e] = "original" => hot[e] = "original"
    /\ \A who \in {"redact", "erase"} :
          (who = "redact" => redact'.pc # "off") /\ (who = "erase" => erase'.pc # "off") =>
             /\ hotLock[e] = who => hotLock'[e] = who
             /\ replayLock[e] = who => replayLock'[e] = who
    /\ replay'[e] = "original" /\ replay[e] # "original" =>
          \/ hot[e] = "original" /\ hotLock[e] \in Pruner
          \/ e \in restored' /\ e \notin redact'.present /\ e \notin erase'.present
    /\ LockedIsThere => (hotLock'[e] \in {"redact", "erase"} => hot'[e] # "none")
    /\ LockedIsThere => (replayLock'[e] # Free => replay'[e] # "none")
    /\ LockedIsThere /\ replay[e] = "none" /\ replay'[e] # "none" =>
          \/ hot'[e] = "none"
          \/ \E j \in Job : job[j].lines[e] # "none"

LEMMA RowStep == Typed /\ LockedIsThere /\ [Next]_vars => \A e \in Event : RowSteps(e)
  <1> SUFFICES ASSUME Typed, LockedIsThere, [Next]_vars, NEW e \in Event PROVE RowSteps(e)
    OBVIOUS
  <1>0. Shape /\ Tiers /\ Locks /\ Rewrites /\ Jobs /\ Stores
    BY TypedParts DEF Typed
  <1> USE LockNames DEF LockedIsThere, RowSteps, Free
  <1>1. CASE UNCHANGED <<hot, replay, hotLock, replayLock>>
    BY <1>0, <1>1
  <1>2. ASSUME NEW p \in Pruner, MoveLocks(p) PROVE RowSteps(e)
    <2> PICK rows \in SUBSET Movable : hotLock' = [d \in Event |-> IF d \in rows THEN p ELSE hotLock[d]]
      BY <1>2 DEF MoveLocks
    <2> QED
      BY <1>0, <1>2 DEF MoveLocks, Movable
  <1>3. ASSUME NEW p \in Pruner, MoveCommits(p) PROVE RowSteps(e)
    <2>1. e \in moving[p] => hotLock[e] = p
      BY <1>0 DEF Locks
    <2> QED
      BY <1>0, <1>3, <2>1 DEF MoveCommits
  <1>4. ASSUME NEW p \in Pruner, MoveFails(p) PROVE RowSteps(e)
    <2>1. e \in moving[p] => hotLock[e] = p
      BY <1>0 DEF Locks
    <2> QED
      BY <1>0, <1>4, <2>1 DEF MoveFails
  <1>5. ASSUME NEW d \in Event, PruneHot(d) \/ PruneReplay(d) PROVE RowSteps(e)
    BY <1>0, <1>5 DEF PruneHot, PruneReplay, Tiers, Tier, Copy
  <1>6. ASSUME RedactCommits PROVE RowSteps(e)
    <2>1. redact'.pc = "off"
      BY <1>0, <1>6, RedactSteps DEF RedactIs
    <2> QED
      BY <1>0, <1>6, <2>1 DEF RedactCommits, Committed, Tombstoned, Unlocked
  <1>7. ASSUME RedactFails PROVE RowSteps(e)
    <2>1. redact'.pc = "off"
      BY <1>0, <1>7, RedactSteps DEF RedactIs
    <2> QED
      BY <1>0, <1>7, <2>1 DEF RedactFails, Unlocked
  <1>8. ASSUME EraseCommits PROVE RowSteps(e)
    <2>1. erase'.pc = "off"
      BY <1>0, <1>8, EraseSteps DEF EraseIs
    <2> QED
      BY <1>0, <1>8, <2>1 DEF EraseCommits, Committed, Tombstoned, Unlocked
  <1>9. ASSUME EraseFails PROVE RowSteps(e)
    <2>1. erase'.pc = "off"
      BY <1>0, <1>9, EraseSteps DEF EraseIs
    <2> QED
      BY <1>0, <1>9, <2>1 DEF EraseFails, Unlocked
  <1>10. ASSUME NEW d \in Event, ApplyHot(d) PROVE RowSteps(e)
    BY <1>0, <1>10 DEF ApplyHot, Locks
  <1>11. ASSUME NEW d \in Event, ApplyReplay(d) PROVE RowSteps(e)
    BY <1>0, <1>11 DEF ApplyReplay, Archived, Locks
  <1>12. ASSUME NEW d \in Event, EraseReplay(d) PROVE RowSteps(e)
    BY <1>0, <1>12 DEF EraseReplay, Locks
  <1>13. ASSUME EraseHot PROVE RowSteps(e)
    BY <1>0, <1>13 DEF EraseHot
  <1>14. ASSUME NEW j \in Job, ExportDeletes(j) PROVE RowSteps(e)
    BY <1>0, <1>14 DEF ExportDeletes, AsExported
  <1>15. ASSUME NEW j \in Job, RestoreCommits(j) PROVE RowSteps(e)
    <2> PICK new \in SUBSET Event :
             /\ new = {d \in Event : job[j].lines[d] # "none" /\ replay[d] = "none"}
             /\ RedactIs(redact.pc, redact.unhot, redact.unreplay, redact.found, redact.moved, redact.present \ new)
             /\ EraseIs(erase.pc, erase.rows, erase.present \ new)
      BY <1>0, <1>15, RedactSteps
    <2>1. replay' = [d \in Event |-> IF d \in new THEN job[j].lines[d] ELSE replay[d]]
      BY <1>15 DEF RestoreCommits
    <2>2. UNCHANGED <<hot, hotLock, replayLock>> /\ restored' = restored \union new
      BY <1>15 DEF RestoreCommits
    <2> QED
      BY <1>0, <2>1, <2>2 DEF RedactIs, EraseIs
  <1>16. Redact \/ Erase \/ EraseScan \/ Time
          \/ (\E rows \in SUBSET Event : FindHot(rows) \/ FindReplay(rows))
          => UNCHANGED <<hot, replay, hotLock, replayLock>>
    BY DEF Redact, FindHot, FindReplay, Erase, EraseScan, Time, TierEnds, Ages, HoldEnds, tierVars
  <1>17. ASSUME NEW j \in Job, Export(j) \/ Begin(j, "fetch") \/ RestoreReads(j) \/ Dies(j), ~ExportDeletes(j)
         PROVE  UNCHANGED <<hot, replay, hotLock, replayLock>>
    BY <1>17 DEF Export, Begin, ExportReads, ExportGets, PutObject, PutManifest, ExportChecks, Dies, RestoreReads,
       tierVars
  <1>18. Retention => (\E p \in Pruner : MoveLocks(p) \/ MoveCommits(p) \/ MoveFails(p))
                      \/ \E d \in Event : PruneHot(d) \/ PruneReplay(d)
    BY DEF Retention
  <1>19. Redaction \/ Erasure => RowSteps(e)
    BY <1>1, <1>6, <1>7, <1>8, <1>9, <1>10, <1>11, <1>12, <1>13, <1>16 DEF Redaction, Erasure
  <1>20. UNCHANGED vars => UNCHANGED <<hot, replay, hotLock, replayLock>>
    BY DEF vars, tierVars
  <1> QED
    BY <1>1, <1>2, <1>3, <1>4, <1>5, <1>14, <1>15, <1>16, <1>17, <1>18, <1>19, <1>20, StepCases

LEMMA LockedNext == Typed /\ LockedIsThere /\ [Next]_vars => LockedIsThere'
  <1> SUFFICES ASSUME Typed, LockedIsThere, [Next]_vars PROVE LockedIsThere'
    OBVIOUS
  <1>1. \A e \in Event : RowSteps(e)
    BY RowStep
  <1> QED
    BY <1>1 DEF RowSteps, LockedIsThere

-----------------------------------------------------------------------------
(* One tier: what jobs hold and write comes from replay or from the        *)
(* object.                                                                 *)
LEMMA JobsHold ==
  ASSUME Typed, OneTier, [Next]_vars, NEW e \in Event, hot[e] # "none"
  PROVE  object'.lines[e] = "none" /\ \A j \in Job : job'[j].fresh[e] = "none" /\ job'[j].lines[e] = "none"
  <1> DEFINE Hold == object'.lines[e] = "none" /\ \A j \in Job : job'[j].fresh[e] = "none" /\ job'[j].lines[e] = "none"
  <1>0. TypeOK /\ Shape /\ Jobs
    BY TypedParts DEF Typed
  <1>1. /\ replay[e] = "none" /\ object.lines[e] = "none"
        /\ \A j \in Job : job[j].fresh[e] = "none" /\ job[j].lines[e] = "none"
    BY DEF OneTier
  <1>2. CASE UNCHANGED <<job, object>>
    BY <1>1, <1>2
  <1>3. ASSUME NEW j \in Job, NEW pc, NEW fresh, NEW lines, JobIs(j, pc, fresh, lines),
               fresh[e] = "none", lines[e] = "none", object'.lines[e] = "none"
        PROVE  Hold
    BY <1>1, <1>3 DEF JobIs
  <1>4. ASSUME NEW j \in Job, End(j), UNCHANGED object PROVE Hold
    <2>1. JobIs(j, "off", Nothing, Nothing)
      BY <1>0, <1>4, JobSteps
    <2>2. Nothing[e] = "none"
      BY DEF Nothing
    <2> QED
      BY <1>1, <1>3, <1>4, <2>1, <2>2
  <1>5. ASSUME NEW j \in Job, NEW pc \in {"read", "fetch"}, Begin(j, pc) PROVE Hold
    BY <1>0, <1>1, <1>3, <1>5, JobSteps DEF Phase, Begin, objectVars
  <1>6. ASSUME NEW j \in Job, Export(j) PROVE Hold
    <2>1. CASE Begin(j, "read")
      BY <2>1, <1>5
    <2>2. CASE ExportReads(j)
      <3> DEFINE fresh == [d \in Event |-> IF age[d] >= 2 THEN replay[d] ELSE "none"]
      <3>1. JobIs(j, "get", fresh, job[j].lines)
        BY <1>0, <2>2, JobSteps
      <3>2. fresh[e] = "none" /\ UNCHANGED object
        BY <1>1, <2>2 DEF ExportReads, objectVars
      <3> HIDE DEF fresh
      <3> QED
        BY <1>1, <1>3, <3>1, <3>2
    <2>3. CASE ExportGets(j)
      <3>1. UNCHANGED object /\ Merged(job[j].fresh)[e] = "none"
        BY <1>1, <2>3 DEF ExportGets, Merged, objectVars
      <3>2. End(j) \/ JobIs(j, "object", job[j].fresh, Merged(job[j].fresh))
        BY <1>0, <2>3, JobSteps
      <3> QED
        BY <1>1, <1>3, <1>4, <3>1, <3>2
    <2>4. CASE PutObject(j)
      <3>1. object'.lines[e] = "none" /\ Goes(j, "manifest")
        BY <1>1, <2>4 DEF PutObject
      <3>2. JobIs(j, "manifest", job[j].fresh, job[j].lines)
        BY <1>0, <3>1, JobSteps DEF Phase
      <3> QED
        BY <1>1, <1>3, <3>1, <3>2
    <2>5. CASE PutManifest(j)
      BY <1>0, <1>1, <1>3, <2>5, JobSteps, ZenonT(60) DEF Phase, PutManifest
    <2>6. CASE ExportChecks(j)
      <3>1. UNCHANGED object /\ (Goes(j, "delete") \/ End(j))
        BY <2>6 DEF ExportChecks, objectVars
      <3> QED
        BY <1>0, <1>1, <1>3, <1>4, <3>1, JobSteps, ZenonT(60) DEF Phase
    <2>7. CASE ExportDeletes(j)
      BY <1>4, <2>7 DEF ExportDeletes, objectVars
    <2> QED
      BY <1>6, <2>1, <2>2, <2>3, <2>4, <2>5, <2>6, <2>7 DEF Export
  <1>7. ASSUME NEW j \in Job, RestoreReads(j) PROVE Hold
    <2>1. UNCHANGED object
      BY <1>7 DEF RestoreReads, objectVars
    <2>2. End(j) \/ JobIs(j, "insert", job[j].fresh, object.lines)
      BY <1>0, <1>7, JobSteps
    <2> QED
      BY <1>1, <1>3, <1>4, <2>1, <2>2
  <1>8. ASSUME NEW j \in Job, RestoreCommits(j) \/ Dies(j) PROVE Hold
    BY <1>4, <1>8 DEF RestoreCommits, Dies, objectVars
  <1> QED
    BY <1>2, <1>5, <1>6, <1>7, <1>8, StepCases, NoJobStep DEF vars, objectVars

LEMMA OneTierNext == Typed /\ LockedIsThere /\ OneTier /\ [Next]_vars => OneTier'
  <1> SUFFICES ASSUME Typed, LockedIsThere, OneTier, [Next]_vars, NEW e \in Event, hot'[e] # "none"
               PROVE  /\ replay'[e] = "none" /\ object'.lines[e] = "none"
                      /\ \A j \in Job : job'[j].fresh[e] = "none" /\ job'[j].lines[e] = "none"
    BY DEF OneTier
  <1>1. RowSteps(e)
    BY RowStep
  <1>2. hot[e] # "none"
    BY <1>1 DEF RowSteps
  <1>3. replay'[e] = "none"
    BY <1>1, <1>2 DEF RowSteps, OneTier
  <1> QED
    BY <1>2, <1>3, JobsHold

(* A rewrite that is not at work keeps what it covers.                     *)
LEMMA RedactKept ==
  ASSUME Typed, LockedIsThere, RedactCovers, [Next]_vars,
         RedactIs(redact.pc, redact.unhot, redact.unreplay, redact.found, redact.moved, redact'.present),
         redact'.present \subseteq redact.present
  PROVE  RedactCovers'
  <1>0. Locks /\ Rewrites
    BY TypedParts
  <1>1. \A e \in Event : RowSteps(e)
    BY RowStep
  <1>2. redact'.present \subseteq Event
    BY DEF RedactIs, RedactRec
  <1>3. CASE redact.pc = "off"
    BY <1>3 DEF RedactCovers, RedactIs
  <1>4. CASE redact.pc = "find"
    <2>1. \A e \in redact'.present : hot[e] = "original" /\ hotLock[e] \in Pruner /\ e \notin redact.unreplay
                                       => e \in redact.found
      BY <1>0, <1>4 DEF RedactCovers, Rewrites
    <2> QED
      BY <1>0, <1>1, <1>2, <1>4, <2>1 DEF RedactCovers, RedactIs, RowSteps
  <1>5. CASE redact.pc = "apply"
    <2> SUFFICES ASSUME NEW e \in redact'.present, e \notin redact.found
                 PROVE  /\ hot'[e] = "original" => hotLock'[e] = "redact" /\ e \notin redact.moved
                        /\ replay'[e] = "original" => replayLock'[e] = "redact" \/ e \in redact.moved
      BY <1>5 DEF RedactCovers, RedactIs
    <2>1. /\ hot[e] = "original" => hotLock[e] = "redact" /\ e \notin redact.moved
          /\ replay[e] = "original" => replayLock[e] = "redact" \/ e \in redact.moved
      BY <1>5 DEF RedactCovers
    <2>2. RowSteps(e) /\ redact'.pc # "off"
      BY <1>1, <1>2, <1>5 DEF RedactIs
    <2> QED
      BY <2>1, <2>2, LockNames DEF RowSteps
  <1> QED
    BY <1>0, <1>3, <1>4, <1>5 DEF Rewrites, RedactRec

LEMMA EraseKept ==
  ASSUME Typed, LockedIsThere, EraseCovers, [Next]_vars,
         EraseIs(erase.pc, erase.rows, erase'.present), erase'.present \subseteq erase.present
  PROVE  EraseCovers'
  <1>0. Locks /\ Rewrites
    BY TypedParts
  <1>1. \A e \in Event : RowSteps(e)
    BY RowStep
  <1>2. erase'.present \subseteq Event
    BY DEF EraseIs, EraseRec
  <1>3. \A e \in erase'.present : erase.pc # "off" =>
          /\ hotLock[e] = "erase" => hotLock'[e] = "erase"
          /\ replayLock[e] = "erase" => replayLock'[e] = "erase"
    BY <1>1, <1>2 DEF EraseIs, RowSteps
  <1>4. \A e \in erase'.present : hot'[e] = "original" => hot[e] = "original"
    BY <1>1, <1>2 DEF RowSteps
  <1>5. \A e \in erase'.present : replay'[e] = "original" /\ replay[e] # "original"
                                   => hot[e] = "original" /\ hotLock[e] \in Pruner
    BY <1>1, <1>2 DEF RowSteps
  <1> QED
    BY <1>3, <1>4, <1>5, LockNames DEF EraseCovers, EraseIs

LEMMA RedactNext == Typed /\ LockedIsThere /\ OneTier /\ RedactCovers /\ [Next]_vars => RedactCovers'
  <1> SUFFICES ASSUME Typed, LockedIsThere, OneTier, RedactCovers, [Next]_vars PROVE RedactCovers'
    OBVIOUS
  <1>0. Shape /\ Rewrites
    BY TypedParts DEF Typed
  <1>1. CASE UNCHANGED redact
    <2>1. RedactIs(redact.pc, redact.unhot, redact.unreplay, redact.found, redact.moved, redact'.present)
      BY <1>0, <1>1 DEF RedactIs, Rewrites
    <2> QED
      BY <1>1, <2>1, RedactKept
  <1>2. ASSUME NEW j \in Job, RestoreCommits(j) PROVE RedactCovers'
    <2> PICK new \in SUBSET Event :
             RedactIs(redact.pc, redact.unhot, redact.unreplay, redact.found, redact.moved, redact.present \ new)
      BY <1>0, <1>2, RedactSteps
    <2>1. /\ RedactIs(redact.pc, redact.unhot, redact.unreplay, redact.found, redact.moved, redact'.present)
          /\ redact'.present \subseteq redact.present
      BY DEF RedactIs
    <2> QED
      BY <2>1, RedactKept
  <1>3. ASSUME Redact \/ RedactCommits \/ RedactFails PROVE RedactCovers'
    BY <1>0, <1>3, RedactSteps DEF RedactCovers, RedactIs
  <1>4. ASSUME NEW rows \in SUBSET Event, FindHot(rows) PROVE RedactCovers'
    <2>1. redact.pc = "find" /\ redact'.pc = "find" /\ UNCHANGED <<hot, replay>>
      BY <1>0, <1>4, RedactSteps DEF FindHot, tierVars, RedactIs
    <2>2. RedactIs("find", redact.unhot \ rows, redact.unreplay,
                   redact.found \union {e \in rows : hot[e] = "original"}, redact.moved, redact.present)
      BY <1>0, <1>4, <2>1, RedactSteps DEF RedactIs, FindHot
    <2> QED
      BY <2>1, <2>2 DEF RedactCovers, RedactIs
  <1>5. ASSUME NEW rows \in SUBSET Event, FindReplay(rows) PROVE RedactCovers'
    <2>1. redact.pc = "find" /\ UNCHANGED <<hot, replay>>
      BY <1>5 DEF FindReplay, tierVars
    <2>2. RedactIs(IF redact.unreplay \ rows = {} /\ redact.unhot = {} THEN "apply" ELSE "find",
                   redact.unhot, redact.unreplay \ rows,
                   redact.found \union {e \in rows : replay[e] = "original"}, redact.moved, redact.present)
      BY <1>0, <1>5, RedactSteps
    <2> QED
      BY <2>1, <2>2 DEF RedactCovers, RedactIs
  <1>6. ASSUME NEW d \in Event, ApplyHot(d) PROVE RedactCovers'
    <2>1. /\ redact.pc = "apply" /\ d \in redact.found /\ UNCHANGED <<hot, replay, replayLock>>
          /\ hot[d] = "original" => hotLock' = [hotLock EXCEPT ![d] = "redact"]
          /\ hot[d] # "original" => hotLock' = hotLock
      BY <1>6 DEF ApplyHot
    <2>2. RedactIs("apply", redact.unhot, redact.unreplay, redact.found \ {d},
                   IF hot[d] = "original" THEN redact.moved ELSE redact.moved \union {d}, redact.present)
      BY <1>0, <1>6, RedactSteps
    <2>3. hot[d] = "original" => replay[d] = "none"
      BY DEF OneTier
    <2>4. hotLock \in [Event -> {Free, "redact", "erase"} \union Pruner]
      BY TypedParts DEF Locks
    <2>5. CASE hot[d] = "original"
      <3>1. /\ redact'.pc = "apply" /\ redact'.found = redact.found \ {d} /\ redact'.moved = redact.moved
            /\ redact'.present = redact.present
        BY <2>2, <2>5 DEF RedactIs
      <3>2. hotLock' = [hotLock EXCEPT ![d] = "redact"]
        BY <2>1, <2>5
      <3>3. d \in Event /\ d \notin redact.moved
        BY <2>1 DEF RedactCovers
      <3>4. \A e \in Event : hotLock'[e] = IF e = d THEN "redact" ELSE hotLock[e]
        BY <2>4, <3>2
      <3>5. redact.present \subseteq Event
        BY <1>0 DEF Rewrites, RedactRec
      <3> QED
        BY <2>1, <2>3, <2>5, <3>1, <3>3, <3>4, <3>5 DEF RedactCovers
    <2>6. CASE hot[d] # "original"
      BY <2>1, <2>2, <2>6 DEF RedactCovers, RedactIs
    <2> QED
      BY <2>5, <2>6
  <1>7. ASSUME NEW d \in Event, ApplyReplay(d) PROVE RedactCovers'
    <2>1. /\ redact.pc = "apply" /\ d \in redact.moved /\ UNCHANGED <<hot, replay, hotLock>>
          /\ replayLock' = IF replay[d] = "original" THEN [replayLock EXCEPT ![d] = "redact"] ELSE replayLock
      BY <1>7 DEF ApplyReplay, Archived
    <2>2. RedactIs("apply", redact.unhot, redact.unreplay, redact.found, redact.moved \ {d}, redact.present)
      BY <1>0, <1>7, RedactSteps
    <2>3. replayLock \in [Event -> {Free, "redact", "erase"}]
      BY TypedParts DEF Locks
    <2> QED
      BY <2>1, <2>2, <2>3 DEF RedactCovers, RedactIs
  <1>8. Redaction => RedactCovers'
    BY <1>3, <1>4, <1>5, <1>6, <1>7 DEF Redaction
  <1> QED
    BY <1>1, <1>2, <1>8, StepCases, NoRewriteStep DEF vars

LEMMA EraseNext == Typed /\ LockedIsThere /\ EraseCovers /\ [Next]_vars => EraseCovers'
  <1> SUFFICES ASSUME Typed, LockedIsThere, EraseCovers, [Next]_vars PROVE EraseCovers'
    OBVIOUS
  <1>0. Shape /\ Rewrites
    BY TypedParts DEF Typed
  <1>1. CASE UNCHANGED erase
    <2>1. EraseIs(erase.pc, erase.rows, erase'.present)
      BY <1>0, <1>1 DEF EraseIs, Rewrites
    <2> QED
      BY <1>1, <2>1, EraseKept
  <1>2. ASSUME NEW j \in Job, RestoreCommits(j) PROVE EraseCovers'
    <2> PICK new \in SUBSET Event : EraseIs(erase.pc, erase.rows, erase.present \ new)
      BY <1>0, <1>2, RedactSteps
    <2>1. EraseIs(erase.pc, erase.rows, erase'.present) /\ erase'.present \subseteq erase.present
      BY DEF EraseIs
    <2> QED
      BY <2>1, EraseKept
  <1>3. ASSUME Erase \/ EraseCommits \/ EraseFails PROVE EraseCovers'
    BY <1>0, <1>3, EraseSteps DEF EraseCovers, EraseIs
  <1>4. ASSUME EraseHot PROVE EraseCovers'
    <2>1. EraseIs("scan", erase.rows, erase.present)
      BY <1>0, <1>4, EraseSteps
    <2>2. erase.present \subseteq Event
      BY <1>0 DEF Rewrites, EraseRec
    <2> QED
      BY <1>4, <2>1, <2>2 DEF EraseCovers, EraseIs, EraseHot
  <1>5. ASSUME EraseScan PROVE EraseCovers'
    <2>1. EraseIs("replay", {e \in Event : replay[e] = "original"}, erase.present)
      BY <1>0, <1>5, EraseSteps
    <2>2. erase.present \subseteq Event
      BY <1>0 DEF Rewrites, EraseRec
    <2> QED
      BY <1>5, <2>1, <2>2 DEF EraseCovers, EraseIs, EraseScan, tierVars
  <1>6. ASSUME NEW d \in Event, EraseReplay(d) PROVE EraseCovers'
    <2>1. EraseIs("replay", erase.rows \ {d}, erase.present)
      BY <1>0, <1>6, EraseSteps
    <2>2. /\ erase.pc = "replay" /\ UNCHANGED <<hot, replay, hotLock>>
          /\ replayLock' = IF replay[d] # "none" THEN [replayLock EXCEPT ![d] = "erase"] ELSE replayLock
      BY <1>6 DEF EraseReplay
    <2>3. erase.present \subseteq Event /\ replayLock \in [Event -> {Free, "redact", "erase"}]
      BY <1>0, TypedParts DEF Rewrites, EraseRec, Locks
    <2> QED
      BY <2>1, <2>2, <2>3 DEF EraseCovers, EraseIs
  <1>7. Erasure => EraseCovers'
    BY <1>3, <1>4, <1>5, <1>6 DEF Erasure
  <1> QED
    BY <1>1, <1>2, <1>7, StepCases, NoRewriteStep DEF vars

(* What a rewrite took stays taken unless a restore brings it back.        *)
LEMMA TakenNext ==
  Typed /\ LockedIsThere /\ RedactCovers /\ EraseCovers /\ OriginalOnlyRestored /\ [Next]_vars
    => OriginalOnlyRestored'
  <1> SUFFICES ASSUME Typed, LockedIsThere, RedactCovers, EraseCovers, OriginalOnlyRestored, [Next]_vars
               PROVE  OriginalOnlyRestored'
    OBVIOUS
  <1>0. Rewrites /\ Stores
    BY TypedParts
  <1>1. ASSUME UNCHANGED taken, restored \subseteq restored' PROVE OriginalOnlyRestored'
    <2>1. \A e \in Event : RowSteps(e)
      BY RowStep
    <2> QED
      BY <1>0, <1>1, <2>1 DEF OriginalOnlyRestored, Served, RowSteps, Stores
  <1>2. ASSUME NEW who, NEW present \in SUBSET Event, Committed(who, present),
               \A e \in present : /\ hot[e] = "original" => hotLock[e] = who
                                  /\ replay[e] = "original" => replayLock[e] = who
        PROVE  OriginalOnlyRestored'
    <2> SUFFICES ASSUME NEW e \in taken', Served(e, "original")' PROVE e \in restored'
      BY DEF OriginalOnlyRestored
    <2>1. e \in Event
      BY <1>0, <1>2 DEF Stores, Committed
    <2>2. Served(e, "original") /\ e \notin present
      BY <1>2, <2>1 DEF Committed, Served, Tombstoned
    <2> QED
      BY <1>2, <2>2 DEF Committed, OriginalOnlyRestored
  <1>3. CASE RedactCommits
    <2>1. redact.pc = "apply" /\ redact.found = {} /\ redact.moved = {} /\ Committed("redact", redact.present)
      BY <1>3 DEF RedactCommits
    <2> QED
      BY <1>0, <1>2, <2>1 DEF RedactCovers, Rewrites, RedactRec
  <1>4. CASE EraseCommits
    <2>1. erase.pc = "replay" /\ erase.rows = {} /\ Committed("erase", erase.present)
      BY <1>4 DEF EraseCommits
    <2> QED
      BY <1>0, <1>2, <2>1 DEF EraseCovers, Rewrites, EraseRec
  <1>5. ASSUME Redaction, ~RedactCommits PROVE UNCHANGED <<taken, restored>>
    BY <1>5 DEF Redaction, Redact, RedactFails, FindHot, FindReplay, ApplyHot, ApplyReplay, history
  <1>6. ASSUME Erasure, ~EraseCommits PROVE UNCHANGED <<taken, restored>>
    BY <1>6 DEF Erasure, Erase, EraseHot, EraseScan, EraseReplay, EraseFails, history
  <1>7. \A j \in Job : RestoreCommits(j) => UNCHANGED taken /\ restored \subseteq restored'
    BY DEF RestoreCommits
  <1> QED
    BY <1>1, <1>3, <1>4, <1>5, <1>6, <1>7, StepCases, NoRewriteStep DEF vars, history

-----------------------------------------------------------------------------
(* What an export deleted is kept.                                         *)
LEMMA ReplayFrom ==
  ASSUME Typed, LockedIsThere, [Next]_vars, NEW e \in Event,
         \A j \in Job : ~ExportDeletes(j) /\ ~RestoreCommits(j)
  PROVE  replay'[e] \in {replay[e], hot[e], "none", "tombstone"}
  <1>0. Tiers /\ Locks
    BY TypedParts
  <1>1. ASSUME NEW p \in Pruner, MoveCommits(p) PROVE replay'[e] \in {replay[e], hot[e]}
    BY <1>0, <1>1 DEF MoveCommits
  <1>2. ASSUME NEW d \in Event, PruneHot(d) \/ PruneReplay(d) PROVE replay'[e] \in {replay[e], "none"}
    BY <1>0, <1>2 DEF PruneHot, PruneReplay, Tiers, Tier
  <1>3. ASSUME RedactCommits \/ EraseCommits PROVE replay'[e] \in {replay[e], "tombstone"}
    BY <1>3 DEF RedactCommits, EraseCommits, Committed, Tombstoned
  <1>4. Redact \/ RedactFails \/ Erase \/ EraseHot \/ EraseScan \/ EraseFails
          \/ (\E rows \in SUBSET Event : FindHot(rows) \/ FindReplay(rows))
          \/ Time \/ (\E d \in Event : ApplyHot(d) \/ ApplyReplay(d) \/ EraseReplay(d))
          \/ (\E p \in Pruner : MoveLocks(p) \/ MoveFails(p))
          => UNCHANGED replay
    BY DEF Redact, RedactFails, FindHot, FindReplay, ApplyHot, ApplyReplay, Erase, EraseHot, EraseScan, EraseFails,
       EraseReplay, Time, TierEnds, Ages, HoldEnds, MoveLocks, MoveFails, tierVars
  <1>5. ASSUME NEW j \in Job, Export(j) \/ Begin(j, "fetch") \/ RestoreReads(j) \/ Dies(j) PROVE UNCHANGED replay
    BY <1>5 DEF Export, Begin, ExportReads, ExportGets, PutObject, PutManifest, ExportChecks, Dies, RestoreReads,
       tierVars
  <1> QED
    BY <1>1, <1>2, <1>3, <1>4, <1>5, StepCases DEF Retention, Redaction, Erasure, vars, tierVars

(* The month's object is accepted: an export that has written it matches   *)
(* the manifest to it, or dies.                                            *)
LEMMA ReadsNext == Typed /\ JobKnows /\ MonthReads /\ [Next]_vars => MonthReads'
  <1> SUFFICES ASSUME Typed, JobKnows, MonthReads, [Next]_vars PROVE MonthReads'
    OBVIOUS
  <1>0. TypeOK /\ Shape
    BY DEF Typed
  <1>1. CASE UNCHANGED <<job, object, manifest, torn>>
    BY <1>1 DEF MonthReads, Readable
  <1>2. ASSUME NEW j \in Job, NEW pc, NEW fresh, NEW lines, JobIs(j, pc, fresh, lines), job[j].pc # "manifest",
               UNCHANGED <<object, manifest, torn>>
        PROVE  MonthReads'
    <2>1. \A k \in Job : job[k].pc = "manifest" => job'[k].pc = "manifest"
      BY <1>2 DEF JobIs
    <2> QED
      BY <1>2, <2>1 DEF MonthReads, Readable
  <1>3. ASSUME NEW j \in Job, Begin(j, "read") \/ Begin(j, "fetch") PROVE MonthReads'
    <2>1. PICK pc \in {"read", "fetch"} : Begin(j, pc)
      BY <1>3
    <2>2. JobIs(j, pc, job[j].fresh, job[j].lines)
      BY <1>0, <2>1, JobSteps DEF Phase
    <2>3. UNCHANGED <<object, manifest, torn>> /\ job[j].pc # "manifest"
      BY <2>1 DEF Begin, objectVars, history
    <2> QED
      BY <1>2, <2>2, <2>3
  <1>4. ASSUME NEW j \in Job, ExportReads(j) \/ ExportGets(j) \/ ExportChecks(j) \/ ExportDeletes(j)
                                \/ RestoreReads(j) \/ RestoreCommits(j)
        PROVE  MonthReads'
    <2>1. UNCHANGED <<object, manifest, torn>> /\ job[j].pc # "manifest"
      BY <1>4 DEF ExportReads, ExportGets, ExportChecks, ExportDeletes, RestoreReads, RestoreCommits, objectVars,
         history
    <2>2. ExportReads(j) \/ ExportGets(j) \/ RestoreReads(j) \/ Goes(j, "delete") \/ End(j)
      BY <1>4 DEF ExportChecks, ExportDeletes, RestoreCommits
    <2>3. \E pc, fresh, lines : JobIs(j, pc, fresh, lines)
      <3>1. CASE ExportReads(j)
        BY <1>0, <3>1, JobSteps
      <3>2. CASE End(j)
        BY <1>0, <3>2, JobSteps
      <3>3. CASE ExportGets(j)
        BY <1>0, <3>2, <3>3, JobSteps
      <3>4. CASE RestoreReads(j)
        BY <1>0, <3>2, <3>4, JobSteps
      <3>5. CASE Goes(j, "delete")
        <4>1. "delete" \in Phase
          BY DEF Phase
        <4> QED
          BY <1>0, <3>5, <4>1, JobSteps
      <3> QED
        BY <2>2, <3>1, <3>2, <3>3, <3>4, <3>5
    <2> QED
      BY <1>2, <2>1, <2>3
  <1>5. ASSUME NEW j \in Job, PutObject(j) PROVE MonthReads'
    <2>1. JobIs(j, "manifest", job[j].fresh, job[j].lines)
      BY <1>0, <1>5, JobSteps DEF PutObject, Phase
    <2> QED
      BY <2>1 DEF MonthReads, JobIs
  <1>6. ASSUME NEW j \in Job, PutManifest(j) PROVE MonthReads'
    <2>1. object' = manifest'
      BY <1>6 DEF PutManifest, JobKnows
    <2> QED
      BY <2>1 DEF MonthReads, Readable
  <1>7. ASSUME NEW j \in Job, Dies(j) PROVE MonthReads'
    <2>1. /\ End(j) /\ UNCHANGED <<object, manifest>>
          /\ torn' = (torn \/ job[j].pc = "manifest")
      BY <1>7 DEF Dies, objectVars
    <2>2. JobIs(j, "off", Nothing, Nothing)
      BY <1>0, <2>1, JobSteps
    <2>3. CASE job[j].pc = "manifest"
      BY <2>1, <2>3 DEF MonthReads
    <2>4. CASE job[j].pc # "manifest"
      <3>1. torn' = torn
        BY <1>0, <2>1, <2>4 DEF TypeOK
      <3> QED
        BY <1>2, <2>1, <2>2, <2>4, <3>1
    <2> QED
      BY <2>3, <2>4
  <1>8. Time \/ Retention \/ Redaction \/ Erasure \/ UNCHANGED vars => UNCHANGED <<job, object, manifest, torn>>
    BY NoJobStep DEF vars, objectVars, history
  <1> QED
    BY <1>1, <1>3, <1>4, <1>5, <1>6, <1>7, <1>8, StepCases DEF Export

LEMMA KeptNext == Typed /\ LockedIsThere /\ OneTier /\ KeptInv /\ [Next]_vars => KeptInv'
  <1> SUFFICES ASSUME Typed, LockedIsThere, OneTier, KeptInv, [Next]_vars PROVE KeptInv'
    OBVIOUS
  <1>0. TypeOK /\ Shape /\ Tiers /\ Jobs /\ Stores /\ JobKnows /\ ReplayKeeps /\ ExportedIsKept /\ MonthReads'
    BY TypedParts, ReadsNext DEF Typed, KeptInv
  <1> USE DEF Keeps
  (* One job at a time: it stops, or goes on with nothing else disturbed.  *)
  <1>1. ASSUME NEW j \in Job, End(j), UNCHANGED <<object, manifest, gone>>, job[j].pc # "off"
        PROVE  JobKnows' /\ ExportedIsKept'
    <2>1. JobIs(j, "off", Nothing, Nothing)
      BY <1>0, <1>1, JobSteps
    <2> QED
      BY <1>0, <1>1, <2>1 DEF JobKnows, ExportedIsKept, JobIs, NoJob, Nothing
  <1>2. ASSUME NEW j \in Job, NEW pc \in Phase \ {"off"}, NEW fresh, NEW lines, JobIs(j, pc, fresh, lines),
               UNCHANGED <<object, manifest, gone>>,
               \A e \in Event : gone[e] # "none" /\ fresh[e] # "none" => Keeps(gone[e], fresh[e]),
               pc = "object" => \A e \in Event : gone[e] # "none" => Keeps(gone[e], lines[e]),
               pc = "manifest" => object = [there |-> TRUE, lines |-> lines],
               pc = "delete" => object = manifest /\ \A e \in Event : fresh[e] # "none" => object.lines[e] = fresh[e],
               pc = "insert" => lines = object.lines
        PROVE  JobKnows' /\ ExportedIsKept'
    BY <1>0, <1>2 DEF JobKnows, ExportedIsKept, JobIs
  <1>3. ASSUME UNCHANGED <<job, object, manifest, gone>> PROVE JobKnows' /\ ExportedIsKept'
    BY <1>0, <1>3 DEF JobKnows, ExportedIsKept
  <1>4. ASSUME NEW j \in Job, job[j].pc # "off" PROVE \A k \in Job \ {j} : job[k] = NoJob
    BY <1>0, <1>4 DEF Jobs, JobKnows
  <1>5. ASSUME NEW j \in Job, NEW pc \in {"read", "fetch"}, Begin(j, pc) PROVE JobKnows' /\ ExportedIsKept'
    <2>1. JobIs(j, pc, job[j].fresh, job[j].lines) /\ UNCHANGED <<object, manifest, gone>>
      BY <1>0, <1>5, JobSteps DEF Begin, Phase, objectVars, history
    <2> QED
      BY <1>0, <1>2, <2>1 DEF Phase, JobKnows
  <1>6. ASSUME NEW j \in Job, ExportReads(j) PROVE JobKnows' /\ ExportedIsKept'
    <2> DEFINE fresh == [d \in Event |-> IF age[d] >= 2 THEN replay[d] ELSE "none"]
    <2>1. JobIs(j, "get", fresh, job[j].lines) /\ UNCHANGED <<object, manifest, gone>>
      BY <1>0, <1>6, JobSteps DEF ExportReads, objectVars, history
    <2>2. \A e \in Event : fresh[e] \in {replay[e], "none"}
      OBVIOUS
    <2> HIDE DEF fresh
    <2> QED
      BY <1>0, <1>2, <2>1, <2>2 DEF Phase, ReplayKeeps
  <1>7. ASSUME NEW j \in Job, ExportGets(j) PROVE JobKnows' /\ ExportedIsKept'
    <2>1. UNCHANGED <<object, manifest, gone>> /\ job[j].pc # "off"
      BY <1>7 DEF ExportGets, objectVars, history
    <2>2. End(j) \/ JobIs(j, "object", job[j].fresh, Merged(job[j].fresh))
      BY <1>0, <1>7, JobSteps
    <2>3. \A e \in Event : gone[e] # "none" => Keeps(gone[e], Merged(job[j].fresh)[e])
      BY <1>0 DEF Merged, JobKnows, ExportedIsKept
    <2> QED
      BY <1>0, <1>1, <1>2, <2>1, <2>2, <2>3 DEF Phase, JobKnows
  <1>8. ASSUME NEW j \in Job, PutObject(j) PROVE JobKnows' /\ ExportedIsKept'
    <2>1. /\ job[j].pc = "object" /\ UNCHANGED gone
          /\ object' = [there |-> TRUE, lines |-> job[j].lines]
      BY <1>8 DEF PutObject, history
    <2>2. JobIs(j, "manifest", job[j].fresh, job[j].lines)
      BY <1>0, <1>8, JobSteps DEF PutObject, Phase
    <2>3. ExportedIsKept'
      BY <1>0, <2>1 DEF JobKnows, ExportedIsKept
    <2>4. \A k \in Job \ {j} : job'[k] = NoJob
      BY <1>4, <2>1, <2>2 DEF JobIs
    <2>5. JobKnows'
      <3>1. /\ job'[j] = [pc |-> "manifest", fresh |-> job[j].fresh, lines |-> job[j].lines]
            /\ object' = [there |-> TRUE, lines |-> job'[j].lines]
        BY <2>1, <2>2 DEF JobIs
      <3>2. \A e \in Event : gone'[e] # "none" /\ job'[j].fresh[e] # "none" => Keeps(gone'[e], job'[j].fresh[e])
        BY <1>0, <2>1, <3>1 DEF JobKnows
      <3>3. /\ NoJob.pc = "off" /\ \A e \in Event : NoJob.fresh[e] = "none"
        BY DEF NoJob, Nothing
      <3> SUFFICES ASSUME NEW k \in Job
                   PROVE  /\ job'[k].pc = "off" => job'[k] = NoJob
                          /\ \A e \in Event : gone'[e] # "none" /\ job'[k].fresh[e] # "none"
                                => Keeps(gone'[e], job'[k].fresh[e])
                          /\ job'[k].pc \notin {"object", "delete", "insert"}
                          /\ job'[k].pc = "manifest" => object' = [there |-> TRUE, lines |-> job'[k].lines]
        BY DEF JobKnows
      <3>4. CASE k = j
        <4>1. job'[k].pc = "manifest"
          BY <3>1, <3>4
        <4>2. object' = [there |-> TRUE, lines |-> job'[k].lines]
          BY <3>1, <3>4
        <4>3. \A e \in Event : gone'[e] # "none" /\ job'[k].fresh[e] # "none" => Keeps(gone'[e], job'[k].fresh[e])
          BY <3>2, <3>4
        <4> QED
          BY <4>1, <4>2, <4>3
      <3>5. CASE k # j
        BY <2>4, <3>3, <3>5
      <3> QED
        BY <3>4, <3>5
    <2> QED
      BY <2>3, <2>5
  <1>9. ASSUME NEW j \in Job, PutManifest(j) PROVE JobKnows' /\ ExportedIsKept'
    <2>1. job[j].pc = "manifest" /\ UNCHANGED <<gone, object>>
      BY <1>9 DEF PutManifest, history
    <2>2. JobIs(j, "check", job[j].fresh, job[j].lines)
      BY <1>0, <1>9, JobSteps DEF PutManifest, Phase
    <2>3. ExportedIsKept'
      BY <1>0, <2>1 DEF ExportedIsKept
    <2>4. \A k \in Job \ {j} : job'[k] = NoJob
      BY <1>4, <2>1, <2>2 DEF JobIs
    <2> QED
      BY <1>0, <2>1, <2>2, <2>3, <2>4 DEF JobKnows, JobIs, NoJob, Nothing
  <1>10. ASSUME NEW j \in Job, ExportChecks(j) PROVE JobKnows' /\ ExportedIsKept'
    <2>1. /\ UNCHANGED <<object, manifest, gone>> /\ job[j].pc = "check"
          /\ \/ End(j)
             \/ /\ Goes(j, "delete") /\ object = manifest
                /\ \A e \in Event : job[j].fresh[e] # "none" => object.lines[e] = job[j].fresh[e]
      BY <1>10 DEF ExportChecks, Readable, objectVars, history
    <2>2. Goes(j, "delete") => JobIs(j, "delete", job[j].fresh, job[j].lines)
      BY <1>0, JobSteps DEF Phase
    <2> QED
      BY <1>0, <1>1, <1>2, <2>1, <2>2 DEF Phase, JobKnows
  <1>11. ASSUME NEW j \in Job, ExportDeletes(j) PROVE KeptInv'
    <2>1. /\ job[j].pc = "delete" /\ End(j) /\ UNCHANGED <<object, manifest>>
          /\ replay' = [e \in Event |-> IF AsExported(e, job[j].fresh) THEN "none" ELSE replay[e]]
          /\ gone' = [e \in Event |-> IF AsExported(e, job[j].fresh) THEN replay[e] ELSE gone[e]]
      BY <1>11 DEF ExportDeletes, objectVars
    <2>2. JobIs(j, "off", Nothing, Nothing)
      BY <1>0, <2>1, JobSteps
    <2>3. \A k \in Job : job'[k] = NoJob
      BY <1>4, <2>1, <2>2 DEF JobIs, NoJob
    <2>4. JobKnows'
      BY <2>3 DEF JobKnows, NoJob, Nothing
    <2>5. ReplayKeeps'
      BY <1>0, <2>1 DEF ReplayKeeps
    <2>6. ExportedIsKept'
      BY <1>0, <2>1 DEF JobKnows, ExportedIsKept, AsExported
    <2> QED
      BY <1>0, <2>4, <2>5, <2>6 DEF KeptInv
  <1>12. ASSUME NEW j \in Job, RestoreReads(j) PROVE JobKnows' /\ ExportedIsKept'
    <2>1. UNCHANGED <<object, manifest, gone>> /\ job[j].pc # "off"
      BY <1>12 DEF RestoreReads, objectVars, history
    <2>2. End(j) \/ JobIs(j, "insert", job[j].fresh, object.lines)
      BY <1>0, <1>12, JobSteps
    <2> QED
      BY <1>0, <1>1, <1>2, <2>1, <2>2 DEF Phase, JobKnows
  <1>13. ASSUME NEW j \in Job, RestoreCommits(j) \/ Dies(j) PROVE JobKnows' /\ ExportedIsKept'
    BY <1>1, <1>13 DEF RestoreCommits, Dies, objectVars, history
  (* Replay gains what was gone only by a restore.                         *)
  <1>14. ASSUME UNCHANGED gone,
                \A e \in Event : replay'[e] \in {replay[e], hot[e], "none", "tombstone", object.lines[e]}
         PROVE  ReplayKeeps'
    <2>1. \A e \in Event : gone[e] # "none" => hot[e] = "none" /\ Keeps(gone[e], object.lines[e])
      BY <1>0 DEF OneTier, ExportedIsKept
    <2> QED
      BY <1>0, <1>14, <2>1 DEF ReplayKeeps
  <1>15. ASSUME NEW j \in Job, RestoreCommits(j) PROVE ReplayKeeps'
    <2>1. job[j].lines = object.lines /\ UNCHANGED gone
      BY <1>0, <1>15 DEF RestoreCommits, JobKnows
    <2>2. \A e \in Event : replay'[e] \in {replay[e], object.lines[e]}
      BY <1>15, <2>1 DEF RestoreCommits
    <2> QED
      BY <1>14, <2>1, <2>2
  <1>16. ASSUME UNCHANGED gone, \A j \in Job : ~ExportDeletes(j) /\ ~RestoreCommits(j) PROVE ReplayKeeps'
    BY <1>14, <1>16, ReplayFrom
  <1>17. ASSUME NEW j \in Job, Export(j) \/ Begin(j, "fetch") \/ RestoreReads(j) \/ Dies(j), ~ExportDeletes(j)
         PROVE  UNCHANGED gone
    BY <1>17 DEF Export, Begin, ExportReads, ExportGets, PutObject, PutManifest, ExportChecks, Dies, RestoreReads,
       history
  <1>18. Time \/ Retention \/ Redaction \/ Erasure \/ UNCHANGED vars
           => UNCHANGED <<job, object, manifest, gone>>
    BY NoJobStep DEF vars, objectVars, history
  <1>19. CASE \E j \in Job : ExportDeletes(j)
    BY <1>11, <1>19
  <1>20. CASE \A j \in Job : ~ExportDeletes(j)
    <2>1. JobKnows' /\ ExportedIsKept'
      BY <1>3, <1>5, <1>6, <1>7, <1>8, <1>9, <1>10, <1>12, <1>13, <1>18, <1>20, StepCases DEF Export
    <2>2. ReplayKeeps'
      BY <1>15, <1>16, <1>17, <1>18, <1>20, StepCases
    <2> QED
      BY <1>0, <2>1, <2>2 DEF KeptInv
  <1> QED
    BY <1>19, <1>20

-----------------------------------------------------------------------------
(* The theorems.                                                           *)
LEMMA InitInv == Init => IInv
  <1> SUFFICES ASSUME Init PROVE IInv
    OBVIOUS
  <1>1. Typed
    BY TypedInit
  <1> QED
    BY <1>1 DEF Init, IInv, TierInv, KeptInv, LockedIsThere, OneTier, RedactCovers, EraseCovers, OriginalOnlyRestored,
       JobKnows, ReplayKeeps, ExportedIsKept, MonthReads, Readable, NoRedact, NoErase, NoJob, NoFile, Nothing, Free

LEMMA NextInv == IInv /\ [Next]_vars => IInv'
  BY TypedNext, LockedNext, OneTierNext, RedactNext, EraseNext, TakenNext, KeptNext DEF IInv, TierInv

LEMMA Inductive == Spec => []IInv
  BY InitInv, NextInv, PTL DEF Spec

(* Every reachable state of the tiers is well typed.                       *)
THEOREM TypeCorrect == Spec => []TypeOK
  <1>1. IInv => TypeOK
    BY DEF IInv, TierInv, Typed
  <1> QED
    BY <1>1, Inductive, PTL

(* applyRedaction, extraErase: no original of a stored event outlives a    *)
(* rewrite in Postgres unless a restore brings it back.                    *)
THEOREM RewritesReachAll == Spec => []OriginalOnlyRestored
  <1>1. IInv => OriginalOnlyRestored
    BY DEF IInv, TierInv
  <1> QED
    BY <1>1, Inductive, PTL

(* exportMonth, restoreMonth: what an export deleted is in the month's     *)
(* object, as it was or redacted since, and the next job accepts the       *)
(* object unless an export stopped between its two puts.                   *)
THEOREM ExportsAreKept == Spec => []ArchiveKept
  <1>1. IInv => ArchiveKept
    BY DEF IInv, TierInv, KeptInv, Typed, ArchiveKept
  <1> QED
    BY <1>1, Inductive, PTL

(* An event leaves Postgres by age, with its hold over, or into a readable *)
(* object that has it as it was.                                           *)
THEOREM EventsLeaveByRule == Spec => LeavesByRule
  <1> DEFINE Rule(e) == \/ e \notin held /\ IF tiered THEN age[e] = 3 ELSE hot[e] # "none" => age[e] >= 1
                        \/ object = manifest /\ object.lines[e] = replay[e]
  <1>1. ASSUME IInv, [Next]_vars, NEW e \in Event, Stored(e), ~Stored(e)' PROVE Rule(e)
    <2>0. Tiers /\ Locks /\ JobKnows
      BY <1>1, TypedParts DEF IInv, TierInv, KeptInv
    <2>1. ASSUME NEW p \in Pruner, MoveCommits(p) PROVE Stored(e)'
      BY <1>1, <2>0, <2>1 DEF MoveCommits, Stored
    <2>2. ASSUME NEW d \in Event, PruneReplay(d) PROVE Rule(e)
      BY <1>1, <2>0, <2>2 DEF PruneReplay, Droppable, Stored, Tiers, Tier
    <2>9. ASSUME NEW d \in Event, PruneHot(d) PROVE Rule(e)
      BY <1>1, <2>0, <2>9 DEF PruneHot, Stored, Tiers, Tier
    <2>3. ASSUME RedactCommits \/ EraseCommits PROVE Stored(e)'
      BY <1>1, <2>3 DEF RedactCommits, EraseCommits, Committed, Tombstoned, Stored
    <2>4. ASSUME NEW j \in Job, ExportDeletes(j) PROVE Rule(e)
      BY <1>1, <2>0, <2>4 DEF ExportDeletes, AsExported, JobKnows, Stored
    <2>5. ASSUME NEW j \in Job, RestoreCommits(j) PROVE Stored(e)'
      BY <1>1, <2>0, <2>5 DEF RestoreCommits, Stored
    <2>6. CASE UNCHANGED <<hot, replay>>
      BY <1>1, <2>6 DEF Stored
    <2>7. Redact \/ RedactFails \/ Erase \/ EraseHot \/ EraseScan \/ EraseFails
            \/ (\E rows \in SUBSET Event : FindHot(rows) \/ FindReplay(rows))
            \/ Time \/ (\E d \in Event : ApplyHot(d) \/ ApplyReplay(d) \/ EraseReplay(d))
            \/ (\E p \in Pruner : MoveLocks(p) \/ MoveFails(p))
            => UNCHANGED <<hot, replay>>
      BY DEF Redact, RedactFails, FindHot, FindReplay, ApplyHot, ApplyReplay, Erase, EraseHot, EraseScan, EraseFails,
         EraseReplay, Time, TierEnds, Ages, HoldEnds, MoveLocks, MoveFails, tierVars
    <2>8. ASSUME NEW j \in Job, Export(j) \/ Begin(j, "fetch") \/ RestoreReads(j) \/ Dies(j), ~ExportDeletes(j)
          PROVE  UNCHANGED <<hot, replay>>
      BY <2>8 DEF Export, Begin, ExportReads, ExportGets, PutObject, PutManifest, ExportChecks, Dies, RestoreReads,
         tierVars
    <2> QED
      BY <1>1, <2>1, <2>2, <2>3, <2>4, <2>5, <2>6, <2>7, <2>8, <2>9, StepCases
         DEF Retention, Redaction, Erasure, vars, tierVars
  <1>2. IInv /\ [Next]_vars => [\A e \in Event : Stored(e) /\ ~Stored(e)' => Rule(e)]_vars
    BY <1>1
  <1> QED
    BY <1>2, Inductive, PTL DEF Spec, LeavesByRule
=============================================================================
