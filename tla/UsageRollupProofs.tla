-------------------------- MODULE UsageRollupProofs --------------------------
(***************************************************************************)
(* What UsageRollup keeps, for any number of counting transactions and of  *)
(* overlapping flushes: a listed code is exact, and what is sent is what   *)
(* was counted, each event of an hour under a later revision.              *)
(*                                                                         *)
(* Neither is inductive.  The codes are exact because a row that is being  *)
(* counted in is locked, so what its transaction wrote is still one more   *)
(* than what is committed (CountCopy).  What is sent is right because a    *)
(* record that a flush holds agrees with the row it was read from, in each *)
(* respect that a race has not spoiled (ReadKnows); and an hour's events   *)
(* stay below its row's revision for as long as it has a row, whose end is *)
(* final since no clock steps back past what is kept (EventsBelow).        *)
(***************************************************************************)
EXTENDS UsageRollup, SequenceTheorems, FiniteSetTheorems, TLAPS

(* A transaction that counts has its row's lock, and wrote one more than   *)
(* what is committed; its codes follow in the second statement.            *)
CopyOf(c, s) ==
    /\ locked[s.hour] = c
    /\ s.row.total = row[s.hour].total + 1
    /\ s.row.revision = IF row[s.hour].sent THEN row[s.hour].revision + 1 ELSE row[s.hour].revision
    /\ ~s.row.sent
    /\ s.row.codes = IF s.phase = "added" THEN row[s.hour].codes ELSE Tallied(row[s.hour].codes, s.code)
CountCopy == \A c \in Counter : count[c].phase # "idle" => CopyOf(c, count[c])

(* A row is marked as sent, or lists a code, only when something was       *)
(* counted in it.                                                          *)
SentCounts == \A h \in Hour :
    row[h].total = 0 => ~row[h].sent /\ row[h].codes = NoCodes

(* What a flush holds of an hour is its row's total, unless it was counted *)
(* since or the row is gone; and its row's revision, still to be sent,     *)
(* unless another flush has it too.                                        *)
ReadKnows == \A f \in Flusher : \A r \in todo[f].rows :
    /\ r.hour \notin raced => r.total = row[r.hour].total \/ row[r.hour].total = 0
    /\ r.hour \notin shared =>
          /\ ~row[r.hour].sent /\ row[r.hour].total > 0 /\ r.revision = row[r.hour].revision
          /\ \A g \in Flusher : \A s \in todo[g].rows : s.hour = r.hour => g = f /\ s = r

(* An hour's row is gone for good: no transaction can count in it again.   *)
Gone(h) == row[h].total = 0 /\ h < now - Keep /\ locked[h] = NoOne

(* What was stored for an hour is at most its row's revision, and below it *)
(* while the row is to be sent.                                            *)
Below(h) == \A i \in DOMAIN events[h] :
    /\ events[h][i].revision <= row[h].revision
    /\ ~row[h].sent => events[h][i].revision < row[h].revision
EventsBelow == \A h \in Hour \ shared : Gone(h) \/ Below(h)

IInv == /\ TypeOK
        /\ CodesExact
        /\ CountCopy
        /\ SentCounts
        /\ ReadKnows
        /\ EventsBelow
        /\ SentAsCounted
        /\ RevisionsRise

-----------------------------------------------------------------------------
(* The records of a count and of a flush.                                  *)
CountRec == Counting \union {NoCount}
ReadRec == [hour : Hour, total : 1..MaxCount, revision : Nat \ {0}]
FlushRec == [phase : {"idle", "storing"}, rows : SUBSET ReadRec]
EventRec == [total : 1..MaxCount, revision : Nat \ {0}]

(* An empty row, and one with another count in it, are rows.               *)
LEMMA RowShapes ==
  /\ NoRow \in Rows /\ NoRow.total = 0 /\ ~NoRow.sent /\ NoRow.codes = NoCodes
  /\ NoCodes \in [Code -> Nat] /\ NoCount \in CountRec /\ NoFlush \in FlushRec
  /\ \A r \in Rows : r.total < MaxCount =>
        /\ Reopened(r) \in Rows
        /\ Reopened(r).total = r.total + 1 /\ Reopened(r).codes = r.codes
        /\ Reopened(r).revision = (IF r.sent THEN r.revision + 1 ELSE r.revision)
        /\ Reopened(r).sent = FALSE
  <1>1. /\ NoCodes \in [Code -> Nat]
        /\ NoRow \in Rows /\ NoRow.total = 0 /\ ~NoRow.sent /\ NoRow.codes = NoCodes
    BY UsageBounds DEF NoRow, NoCodes, Rows
  <1>2. NoCount \in CountRec /\ NoFlush \in FlushRec
    BY <1>1, UsageBounds DEF NoFlush, CountRec, FlushRec
  <1>3. ASSUME NEW r \in Rows, r.total < MaxCount
        PROVE  /\ Reopened(r) \in Rows
               /\ Reopened(r).total = r.total + 1 /\ Reopened(r).codes = r.codes
               /\ Reopened(r).revision = (IF r.sent THEN r.revision + 1 ELSE r.revision)
               /\ Reopened(r).sent = FALSE
    <2>1. Reopened(r) = [total |-> r.total + 1, codes |-> r.codes,
                         revision |-> IF r.sent THEN r.revision + 1 ELSE r.revision, sent |-> FALSE]
      <3> DEFINE a == [r EXCEPT !.total = @ + 1]
                 revision == IF r.sent THEN r.revision + 1 ELSE r.revision
                 b == [a EXCEPT !.revision = revision]
      <3>1. a = [total |-> r.total + 1, codes |-> r.codes, revision |-> r.revision, sent |-> r.sent]
        BY DEF Rows
      <3>2. Reopened(r) = [b EXCEPT !.sent = FALSE]
        BY <3>1 DEF Reopened
      <3> HIDE DEF a, revision
      <3>3. b = [total |-> r.total + 1, codes |-> r.codes, revision |-> revision, sent |-> r.sent]
        BY <3>1
      <3> HIDE DEF b
      <3> QED
        BY <3>2, <3>3 DEF revision
    <2>2. r.total + 1 \in 0..MaxCount /\ r.codes \in [Code -> Nat] /\ r.revision + 1 \in Nat \ {0}
          /\ r.revision \in Nat \ {0}
      BY <1>3, UsageBounds DEF Rows
    <2> HIDE DEF Reopened
    <2> QED
      BY <2>1, <2>2 DEF Rows
  <1> QED
    BY <1>1, <1>2, <1>3

(* What is stored of an hour are events.                                   *)
LEMMA EventShape ==
  ASSUME TypeOK, NEW h \in Hour
  PROVE  events[h] \in Seq(EventRec) /\ \A i \in DOMAIN events[h] : events[h][i] \in EventRec
  <1>1. events[h] \in Seq(EventRec)
    BY DEF TypeOK, EventRec
  <1>2. DOMAIN events[h] = 1..Len(events[h])
    BY <1>1, LenProperties
  <1> QED
    BY <1>1, <1>2, ElementOfSeq

(* The codes that are listed are finitely many.                            *)
LEMMA ListedFinite ==
  ASSUME NEW codes \in [Code -> Nat]
  PROVE  /\ IsFiniteSet(Listed(codes)) /\ Cardinality(Listed(codes)) \in Nat
         /\ \A k \in Code : Cardinality(Listed(codes) \union {k}) =
                IF codes[k] > 0 THEN Cardinality(Listed(codes)) ELSE Cardinality(Listed(codes)) + 1
  <1>1. IsFiniteSet(Listed(codes))
    <2>1. Listed(codes) \subseteq Code
      BY DEF Listed
    <2> QED
      BY <2>1, CodeShape, FS_Subset
  <1>2. \A k \in Code : k \in Listed(codes) <=> codes[k] > 0
    BY DEF Listed
  <1> QED
    BY <1>1, <1>2, FS_CardinalityType, FS_AddElement

(* One more of a code, where the list has it or has room for it.           *)
LEMMA TalliedShape ==
  ASSUME NEW codes \in [Code -> Nat], NEW k \in Code
  PROVE  /\ Tallied(codes, k) \in [Code -> Nat]
         /\ \A j \in Code \ {k} : Tallied(codes, k)[j] = codes[j]
         /\ codes[k] > 0 \/ Cardinality(Listed(codes)) < MaxCodes =>
                /\ Tallied(codes, k)[k] = codes[k] + 1
                /\ Listed(Tallied(codes, k)) = Listed(codes) \union {k}
         /\ ~(codes[k] > 0 \/ Cardinality(Listed(codes)) < MaxCodes) => Tallied(codes, k) = codes
  <1> DEFINE more == OneMore(codes, k)
  <1>1. /\ more \in [Code -> Nat] /\ more[k] = codes[k] + 1
        /\ \A j \in Code \ {k} : more[j] = codes[j]
    BY DEF OneMore
  <1>2. Tallied(codes, k) = IF codes[k] > 0 \/ Cardinality(Listed(codes)) < MaxCodes THEN more ELSE codes
    BY DEF Tallied
  <1> HIDE DEF more
  <1>3. Listed(more) = Listed(codes) \union {k}
    BY <1>1 DEF Listed
  <1>4. CASE codes[k] > 0 \/ Cardinality(Listed(codes)) < MaxCodes
    BY <1>1, <1>2, <1>3, <1>4
  <1>5. CASE ~(codes[k] > 0 \/ Cardinality(Listed(codes)) < MaxCodes)
    BY <1>2, <1>5
  <1> QED
    BY <1>4, <1>5

(* A failure that is counted keeps the codes of its row exact.             *)
ExactFor(codes, counted) ==
    /\ Cardinality(Listed(codes)) <= MaxCodes
    /\ \A k \in Code :
           \/ codes[k] = counted[k]
           \/ codes[k] = 0 /\ Cardinality(Listed(codes)) = MaxCodes

LEMMA TalliedExact ==
  ASSUME NEW codes \in [Code -> Nat], NEW counted \in [Code -> Nat], NEW k \in Code,
         ExactFor(codes, counted)
  PROVE  ExactFor(Tallied(codes, k), [counted EXCEPT ![k] = @ + 1])
  <1> DEFINE n == Cardinality(Listed(codes))
             next == Tallied(codes, k)
             more == [counted EXCEPT ![k] = @ + 1]
  <1>1. /\ n \in Nat /\ n <= MaxCodes /\ MaxCodes \in Nat
        /\ \A j \in Code : codes[j] = counted[j] \/ (codes[j] = 0 /\ n = MaxCodes)
    BY ListedFinite, CodeShape DEF ExactFor
  <1>2. more[k] = counted[k] + 1 /\ \A j \in Code \ {k} : more[j] = counted[j]
    OBVIOUS
  <1>3. CASE codes[k] > 0 \/ n < MaxCodes
    <2>1. next[k] = codes[k] + 1 /\ Listed(next) = Listed(codes) \union {k}
      BY <1>3, TalliedShape
    <2>2. \A j \in Code \ {k} : next[j] = codes[j]
      BY TalliedShape
    <2>3. Cardinality(Listed(next)) = IF codes[k] > 0 THEN n ELSE n + 1
      BY <2>1, ListedFinite
    <2>4. codes[k] \in Nat /\ codes[k] = counted[k]
      BY <1>1, <1>3
    <2> HIDE DEF n, next, more
    <2>5. Cardinality(Listed(next)) <= MaxCodes
      BY <1>1, <1>3, <2>3
    <2>6. next[k] = more[k]
      BY <1>2, <2>1, <2>4
    <2>7. ASSUME NEW j \in Code \ {k}
          PROVE  next[j] = more[j] \/ (next[j] = 0 /\ Cardinality(Listed(next)) = MaxCodes)
      <3>1. CASE codes[j] = counted[j]
        BY <1>2, <2>2, <3>1
      <3>2. CASE codes[j] = 0 /\ n = MaxCodes
        BY <1>1, <1>3, <2>2, <2>3, <3>2
      <3> QED
        BY <1>1, <3>1, <3>2
    <2> QED
      BY <2>5, <2>6, <2>7 DEF ExactFor, next, more
  <1>4. CASE ~(codes[k] > 0 \/ n < MaxCodes)
    <2>1. next = codes
      BY <1>4, TalliedShape
    <2>2. codes[k] = 0 /\ n = MaxCodes
      BY <1>1, <1>4
    <2> HIDE DEF next, more
    <2>3. \A j \in Code : next[j] = more[j] \/ (next[j] = 0 /\ n = MaxCodes)
      BY <1>1, <1>2, <2>1, <2>2
    <2> QED
      BY <1>1, <2>1, <2>3 DEF ExactFor, next, more, n
  <1> QED
    BY <1>3, <1>4

(* A transaction that counts does so in an hour.                           *)
LEMMA CountHour ==
  ASSUME TypeOK, NEW c \in Counter, count[c].phase # "idle"
  PROVE  count[c] \in Counting /\ count[c].hour \in Hour
  <1>1. count[c] \in Counting \union {NoCount}
    BY DEF TypeOK
  <1>2. count[c] \in Counting
    BY <1>1 DEF NoCount
  <1> QED
    BY <1>2 DEF Counting

(* A transaction that is over leaves its lock, and no other.               *)
LEMMA UnlockNext ==
  ASSUME TypeOK, NEW c \in Counter, Unlock(c), count[c].phase # "idle"
  PROVE  /\ count' \in [Counter -> CountRec] /\ count'[c] = NoCount
         /\ \A d \in Counter \ {c} : count'[d] = count[d]
         /\ locked' \in [Hour -> Counter \union {NoOne}] /\ locked'[count[c].hour] = NoOne
         /\ \A h \in Hour \ {count[c].hour} : locked'[h] = locked[h]
  <1>1. count[c].hour \in Hour
    BY CountHour
  <1> QED
    BY <1>1, RowShapes DEF TypeOK, Unlock, CountRec

(* A transaction that still counts has the lock of an hour of its own.     *)
LEMMA OneCounts ==
  ASSUME TypeOK, CountCopy, NEW c \in Counter, count[c].phase # "idle"
  PROVE  \A d \in Counter \ {c} : count[d].phase # "idle" => count[d].hour # count[c].hour
  BY UsageShape DEF TypeOK, CountCopy, CopyOf

(* A row that nothing was counted in.                                      *)
LEMMA NoneExact == ExactFor(NoCodes, NoCodes)
  <1>1. Listed(NoCodes) = {}
    BY DEF Listed, NoCodes
  <1>2. Cardinality(Listed(NoCodes)) <= MaxCodes
    BY <1>1, FS_EmptySet, CodeShape
  <1> QED
    BY <1>2 DEF ExactFor

-----------------------------------------------------------------------------
(* Counting.                                                               *)
LEMMA AddNext ==
  ASSUME IInv, NEW c \in Counter, NEW h \in Hour, Add(c, h)
  PROVE  IInv'
  <1> USE DEF IInv
  <1> DEFINE new == Reopened(row[h])
  <1>1. /\ new \in Rows /\ new.total = row[h].total + 1 /\ new.codes = row[h].codes
        /\ new.revision = (IF row[h].sent THEN row[h].revision + 1 ELSE row[h].revision)
        /\ new.sent = FALSE
    BY RowShapes DEF TypeOK, Add
  <1> HIDE DEF new
  <1>2. /\ count' = [count EXCEPT ![c] = [phase |-> "added", hour |-> h, row |-> new]]
        /\ locked' = [locked EXCEPT ![h] = c]
        /\ UNCHANGED <<now, row, todo, events, fails, failed, raced, shared>>
    BY DEF Add, new, histories
  <1>3. TypeOK'
    <2>1. [phase |-> "added", hour |-> h, row |-> new] \in Counting
      BY <1>1 DEF Counting
    <2> QED
      BY <1>2, <2>1 DEF TypeOK
  <1>4. CodesExact' /\ SentCounts' /\ SentAsCounted' /\ RevisionsRise'
    BY <1>2 DEF CodesExact, SentCounts, SentAsCounted, RevisionsRise
  <1>5. CountCopy'
    <2> SUFFICES ASSUME NEW d \in Counter, count'[d].phase # "idle" PROVE CopyOf(d, count[d])'
      BY DEF CountCopy
    <2>1. CASE d = c
      BY <1>1, <1>2, <2>1, SMTT(30) DEF TypeOK, CopyOf, CodesExact, Rows
    <2>2. CASE d # c
      <3>1. count'[d] = count[d] /\ CopyOf(d, count[d]) /\ count[d].hour # h
        BY <1>2, <2>2, UsageShape DEF TypeOK, CountCopy, CopyOf, Add
      <3> QED
        BY <1>2, <3>1 DEF TypeOK, CopyOf
    <2> QED
      BY <2>1, <2>2
  <1>6. ReadKnows'
    BY <1>2 DEF ReadKnows
  <1>7. EventsBelow'
    <2> SUFFICES ASSUME NEW g \in Hour \ shared PROVE (Gone(g) \/ Below(g))'
      BY <1>2 DEF EventsBelow
    <2>1. CASE Below(g)
      BY <1>2, <2>1 DEF Below
    <2>2. CASE Gone(g)
      <3>1. g # h
        BY <2>2, UsageBounds DEF Gone, Add, TypeOK, Hour
      <3> QED
        BY <1>2, <2>2, <3>1 DEF Gone, TypeOK
    <2> QED
      BY <2>1, <2>2 DEF EventsBelow
  <1> QED
    BY <1>3, <1>4, <1>5, <1>6, <1>7

LEMMA TallyNext ==
  ASSUME IInv, NEW c \in Counter, NEW k \in Code, Tally(c, k)
  PROVE  IInv'
  <1> USE DEF IInv
  <1> DEFINE h == count[c].hour
             old == count[c].row
             codes == Tallied(old.codes, k)
             s == [old EXCEPT !.codes = codes]
             next == [phase |-> "tallied", hour |-> h, code |-> k, row |-> s]
  <1>1. /\ CopyOf(c, count[c]) /\ count[c].phase = "added" /\ count[c].phase # "idle"
        /\ h \in Hour /\ old \in Rows
    BY DEF Tally, CountCopy, TypeOK, Counting, NoCount
  <1>2. codes \in [Code -> Nat]
    BY <1>1, TalliedShape DEF Rows
  <1>3. count' = [count EXCEPT ![c] = next]
        /\ UNCHANGED <<now, row, locked, todo, events, fails, failed, raced, shared>>
    BY DEF Tally, histories
  <1> HIDE DEF codes
  <1>4. s \in Rows /\ s.total = old.total /\ s.codes = codes
        /\ s.revision = old.revision /\ s.sent = old.sent
    BY <1>1, <1>2 DEF Rows
  <1> HIDE DEF s
  <1>5. /\ next \in Counting /\ next.phase = "tallied" /\ next.hour = h /\ next.row = s /\ next.code = k
    BY <1>1, <1>4 DEF Counting
  <1> HIDE DEF next
  <1>6. TypeOK'
    BY <1>3, <1>5 DEF TypeOK
  <1>7. CountCopy'
    <2> SUFFICES ASSUME NEW d \in Counter, count'[d].phase # "idle" PROVE CopyOf(d, count[d])'
      BY DEF CountCopy
    <2>1. CASE d = c
      <3>1. count'[d] = next
        BY <1>3, <2>1 DEF TypeOK
      <3>2. old.codes = row[h].codes
        BY <1>1 DEF CopyOf
      <3> QED
        BY <1>1, <1>3, <1>4, <1>5, <2>1, <3>1, <3>2 DEF CopyOf, codes
    <2>2. CASE d # c
      BY <1>3, <2>2 DEF TypeOK, CountCopy, CopyOf
    <2> QED
      BY <2>1, <2>2
  <1> QED
    BY <1>3, <1>6, <1>7 DEF CodesExact, SentCounts, ReadKnows, EventsBelow, Gone, Below, SentAsCounted, RevisionsRise

LEMMA CommitNext ==
  ASSUME IInv, NEW c \in Counter, Commit(c)
  PROVE  IInv'
  <1> USE DEF IInv
  <1> DEFINE h == count[c].hour
             new == count[c].row
             k == count[c].code
  <1>1. /\ h \in Hour /\ new \in Rows /\ locked[h] = c /\ k \in Code
        /\ new.total = row[h].total + 1 /\ new.codes = Tallied(row[h].codes, k) /\ ~new.sent
        /\ new.revision = (IF row[h].sent THEN row[h].revision + 1 ELSE row[h].revision)
        /\ row[h] \in Rows
    BY DEF Commit, CountCopy, CopyOf, TypeOK, Counting, NoCount
  <1>2. /\ count'[c] = NoCount /\ \A d \in Counter \ {c} : count'[d] = count[d]
        /\ locked'[h] = NoOne /\ \A g \in Hour \ {h} : locked'[g] = locked[g]
        /\ count' \in [Counter -> CountRec] /\ locked' \in [Hour -> Counter \union {NoOne}]
    BY UnlockNext DEF Commit
  <1>3. /\ row' \in [Hour -> Rows] /\ row'[h] = new /\ \A g \in Hour \ {h} : row'[g] = row[g]
        /\ UNCHANGED <<now, todo, events, fails, shared>>
        /\ failed' = [failed EXCEPT ![h] = [failed[h] EXCEPT ![k] = @ + 1]]
        /\ raced' = raced \union ({h} \intersect UNION {ReadBy(f) : f \in Flusher})
    BY <1>1 DEF Commit, TypeOK
  <1>4. \A f \in Flusher : \A r \in todo[f].rows : r.hour = h => h \in raced'
    BY <1>3 DEF ReadBy
  <1>5. \A d \in Counter \ {c} : count[d].phase # "idle" => count[d].hour # h
    BY OneCounts DEF Commit
  <1> HIDE DEF h, new, k
  <1>6. TypeOK'
    <2>1. failed' \in [Hour -> [Code -> Nat]]
      BY <1>1, <1>3 DEF TypeOK
    <2> QED
      BY <1>1, <1>2, <1>3, <2>1 DEF TypeOK, CountRec
  <1>7. CodesExact' /\ SentCounts' /\ RevisionsRise'
    <2>1. ExactFor(new.codes, [failed[h] EXCEPT ![k] = @ + 1])
      <3>1. row[h].codes \in [Code -> Nat] /\ failed[h] \in [Code -> Nat]
        BY <1>1 DEF TypeOK, Rows
      <3>2. ExactFor(row[h].codes, failed[h])
        BY <1>1 DEF CodesExact, ExactFor
      <3> QED
        BY <1>1, <3>1, <3>2, TalliedExact
    <2>2. ASSUME NEW g \in Hour PROVE ExactFor(row'[g].codes, failed'[g])
      <3>1. CASE g = h
        BY <1>3, <2>1, <3>1 DEF TypeOK
      <3>2. CASE g # h
        BY <1>3, <3>2 DEF CodesExact, ExactFor, TypeOK
      <3> QED
        BY <3>1, <3>2
    <2>3. new.total # 0
      BY <1>1 DEF Rows
    <2> QED
      BY <1>1, <1>3, <2>2, <2>3 DEF CodesExact, ExactFor, SentCounts, RevisionsRise
  <1>8. CountCopy'
    <2> SUFFICES ASSUME NEW d \in Counter, count'[d].phase # "idle" PROVE CopyOf(d, count[d])'
      BY DEF CountCopy
    <2>1. d # c
      BY <1>2 DEF NoCount
    <2>2. count'[d] = count[d] /\ CopyOf(d, count[d]) /\ count[d].hour # h /\ count[d].hour \in Hour
      BY <1>2, <1>5, <2>1, CountHour DEF CountCopy
    <2> QED
      BY <1>2, <1>3, <2>2 DEF CopyOf
  <1>9. ReadKnows'
    <2> SUFFICES ASSUME NEW f \in Flusher, NEW r \in todo[f].rows
                 PROVE  /\ r.hour \notin raced' => r.total = row'[r.hour].total \/ row'[r.hour].total = 0
                        /\ r.hour \notin shared =>
                              /\ ~row'[r.hour].sent /\ row'[r.hour].total > 0
                              /\ r.revision = row'[r.hour].revision
                              /\ \A g \in Flusher : \A s \in todo[g].rows : s.hour = r.hour => g = f /\ s = r
      BY <1>3 DEF ReadKnows
    <2>1. r.hour \in Hour
      BY DEF TypeOK
    <2>2. CASE r.hour # h
      BY <1>3, <2>1, <2>2 DEF ReadKnows
    <2>3. CASE r.hour = h
      BY <1>1, <1>3, <1>4, <2>3 DEF ReadKnows, Rows
    <2> QED
      BY <2>2, <2>3
  <1>10. EventsBelow'
    <2> SUFFICES ASSUME NEW g \in Hour \ shared PROVE (Gone(g) \/ Below(g))'
      BY <1>3 DEF EventsBelow
    <2>1. CASE g # h
      BY <1>2, <1>3, <2>1 DEF EventsBelow, Gone, Below
    <2>2. CASE g = h
      <3>1. ~Gone(h)
        BY <1>1, UsageShape DEF Gone
      <3>2. Below(h)
        BY <2>2, <3>1 DEF EventsBelow
      <3>3. \A i \in DOMAIN events[h] : events[h][i].revision \in Nat
        BY <1>1, EventShape DEF EventRec
      <3> QED
        BY <1>1, <1>3, <2>2, <3>2, <3>3 DEF Below, Rows
    <2> QED
      BY <2>1, <2>2
  <1>11. SentAsCounted'
    BY <1>1, <1>3 DEF SentAsCounted
  <1> QED
    BY <1>6, <1>7, <1>8, <1>9, <1>10, <1>11

LEMMA AbortNext ==
  ASSUME IInv, NEW c \in Counter, Abort(c)
  PROVE  IInv'
  <1> USE DEF IInv
  <1> DEFINE h == count[c].hour
  <1>1. /\ count'[c] = NoCount /\ \A d \in Counter \ {c} : count'[d] = count[d]
        /\ locked'[h] = NoOne /\ \A g \in Hour \ {h} : locked'[g] = locked[g]
        /\ count' \in [Counter -> CountRec] /\ locked' \in [Hour -> Counter \union {NoOne}]
        /\ UNCHANGED <<now, row, todo, events, fails, failed, raced, shared>>
    BY UnlockNext DEF Abort, histories
  <1>2. \A d \in Counter \ {c} : count[d].phase # "idle" => count[d].hour # h
    BY OneCounts DEF Abort
  <1> HIDE DEF h
  <1>3. TypeOK'
    BY <1>1 DEF TypeOK, CountRec
  <1>4. CountCopy'
    <2> SUFFICES ASSUME NEW d \in Counter, count'[d].phase # "idle" PROVE CopyOf(d, count[d])'
      BY DEF CountCopy
    <2>1. count'[d] = count[d] /\ CopyOf(d, count[d]) /\ count[d].hour # h /\ count[d].hour \in Hour
      BY <1>1, <1>2, CountHour DEF CountCopy, NoCount
    <2> QED
      BY <1>1, <2>1 DEF CopyOf
  <1>5. EventsBelow'
    BY <1>1 DEF EventsBelow, Gone, Below
  <1> QED
    BY <1>1, <1>3, <1>4, <1>5 DEF CodesExact, SentCounts, ReadKnows, SentAsCounted, RevisionsRise

-----------------------------------------------------------------------------
(* Flushing.                                                               *)
LEMMA StartNext ==
  ASSUME IInv, NEW f \in Flusher, Start(f)
  PROVE  IInv'
  <1> USE DEF IInv
  <1>1. PICK hours \in SUBSET Due :
          /\ todo' = [todo EXCEPT ![f] = [phase |-> "storing", rows |-> {Read(h) : h \in hours}]]
          /\ shared' = shared \union (hours \intersect UNION {ReadBy(g) : g \in Flusher})
          /\ UNCHANGED <<now, row, locked, count, events, fails, failed, raced>>
    BY DEF Start
  <1>2. /\ \A h \in hours : /\ h \in Hour /\ Read(h) \in ReadRec
                            /\ row[h].total > 0 /\ ~row[h].sent
                            /\ Read(h).hour = h /\ Read(h).total = row[h].total
                            /\ Read(h).revision = row[h].revision
    BY DEF Due, Read, ReadRec, TypeOK, Rows
  <1>3. /\ todo' \in [Flusher -> FlushRec] /\ todo'[f].rows = {Read(h) : h \in hours}
        /\ \A g \in Flusher \ {f} : todo'[g] = todo[g]
    BY <1>1, <1>2 DEF TypeOK, FlushRec, ReadRec
  <1>4. \A g \in Flusher : \A r \in todo[g].rows : r.hour \in hours => r.hour \in shared'
    BY <1>1 DEF ReadBy
  <1> HIDE DEF Read
  <1>5. TypeOK'
    <2>1. shared' \subseteq Hour
      BY <1>1, <1>2 DEF TypeOK
    <2> QED
      BY <1>1, <1>3, <2>1 DEF TypeOK, FlushRec, ReadRec
  <1>6. ReadKnows'
    <2> SUFFICES ASSUME NEW g \in Flusher, NEW r \in todo'[g].rows
                 PROVE  /\ r.hour \notin raced => r.total = row[r.hour].total \/ row[r.hour].total = 0
                        /\ r.hour \notin shared' =>
                              /\ ~row[r.hour].sent /\ row[r.hour].total > 0
                              /\ r.revision = row[r.hour].revision
                              /\ \A k \in Flusher : \A s \in todo'[k].rows : s.hour = r.hour => k = g /\ s = r
      BY <1>1 DEF ReadKnows
    <2>1. CASE g = f
      <3>1. PICK h \in hours : r = Read(h)
        BY <1>3, <2>1
      <3>2. ASSUME NEW k \in Flusher, NEW s \in todo'[k].rows, s.hour = h, h \notin shared'
            PROVE  k = g /\ s = r
        <4>1. k = f
          BY <1>3, <1>4, <3>2
        <4> QED
          BY <1>2, <1>3, <2>1, <3>1, <3>2, <4>1
      <3> QED
        BY <1>2, <3>1, <3>2
    <2>2. CASE g # f
      <3>1. r \in todo[g].rows /\ shared \subseteq shared'
        BY <1>1, <1>3, <2>2
      <3>2. ASSUME NEW k \in Flusher, NEW s \in todo'[k].rows, s.hour = r.hour, r.hour \notin shared'
            PROVE  k = g /\ s = r
        <4>1. k # f
          BY <1>2, <1>3, <1>4, <3>1, <3>2
        <4> QED
          BY <1>3, <3>1, <3>2, <4>1 DEF ReadKnows
      <3> QED
        BY <3>1, <3>2 DEF ReadKnows
    <2> QED
      BY <2>1, <2>2
  <1>7. EventsBelow' /\ RevisionsRise'
    BY <1>1 DEF EventsBelow, Gone, Below, RevisionsRise
  <1> QED
    BY <1>1, <1>5, <1>6, <1>7 DEF CodesExact, CountCopy, CopyOf, SentCounts, SentAsCounted

(* What a flush has done, it does not hold any more.                       *)
LEMMA RestNext ==
  ASSUME TypeOK, NEW f \in Flusher, NEW r \in todo[f].rows, Rest(f, r)
  PROVE  /\ todo' \in [Flusher -> FlushRec]
         /\ todo'[f].rows = todo[f].rows \ {r}
         /\ \A g \in Flusher \ {f} : todo'[g] = todo[g]
  BY DEF TypeOK, Rest, FlushRec, ReadRec

(* A flush that holds no more than before knows what it holds.             *)
LEMMA FewerKnow ==
  ASSUME ReadKnows, \A f \in Flusher : todo'[f].rows \subseteq todo[f].rows,
         UNCHANGED <<row, raced, shared>>
  PROVE  ReadKnows'
  BY DEF ReadKnows

LEMMA StoreNext ==
  ASSUME IInv, NEW f \in Flusher, Store(f)
  PROVE  IInv'
  <1> USE DEF IInv
  <1>1. PICK r \in todo[f].rows :
          /\ locked[r.hour] = NoOne
          /\ events' = Stored(r)
          /\ row' = [row EXCEPT ![r.hour].sent = @ \/ row[r.hour].total > 0]
          /\ Rest(f, r)
          /\ UNCHANGED <<now, locked, count, fails, failed, raced, shared>>
    BY DEF Store, histories
  <1> DEFINE h == r.hour
             event == [total |-> r.total, revision |-> r.revision]
             n == Len(events[h]) + 1
  <1>2. r \in ReadRec /\ h \in Hour /\ event \in EventRec /\ row[h] \in Rows
    BY DEF TypeOK, ReadRec, EventRec
  <1>3. /\ row' \in [Hour -> Rows] /\ \A g \in Hour \ {h} : row'[g] = row[g]
        /\ row'[h].total = row[h].total /\ row'[h].codes = row[h].codes /\ row'[h].revision = row[h].revision
        /\ row'[h].sent = (row[h].sent \/ row[h].total > 0)
    <2> DEFINE sent == row[h].sent \/ row[h].total > 0
               new == [row[h] EXCEPT !.sent = sent]
    <2>1. sent \in BOOLEAN
      BY <1>2 DEF Rows
    <2>2. row' = [row EXCEPT ![h] = new]
      BY <1>1
    <2> HIDE DEF sent
    <2>3. /\ new \in Rows /\ new.total = row[h].total /\ new.codes = row[h].codes
          /\ new.revision = row[h].revision /\ new.sent = sent
      BY <1>2, <2>1 DEF Rows
    <2> HIDE DEF new
    <2> QED
      BY <1>2, <2>2, <2>3 DEF TypeOK, sent
  <1>4. /\ todo' \in [Flusher -> FlushRec] /\ todo'[f].rows = todo[f].rows \ {r}
        /\ \A g \in Flusher \ {f} : todo'[g] = todo[g]
        /\ \A g \in Flusher : todo'[g].rows \subseteq todo[g].rows
    BY <1>1, RestNext
  <1>5. /\ events' \in [Hour -> Seq(EventRec)] /\ \A g \in Hour \ {h} : events'[g] = events[g]
        /\ events'[h] = Append(events[h], event)
    <2>1. events' = [events EXCEPT ![h] = Append(events[h], event)]
      BY <1>1 DEF Stored
    <2>2. events[h] \in Seq(EventRec) /\ events \in [Hour -> Seq(EventRec)]
      BY <1>2, EventShape DEF TypeOK, EventRec
    <2>3. Append(events[h], event) \in Seq(EventRec)
      BY <1>2, <2>2, AppendProperties
    <2> HIDE DEF event
    <2> QED
      BY <1>2, <2>1, <2>2, <2>3
  <1>6. /\ DOMAIN events'[h] = 1..n /\ DOMAIN events[h] = 1..(n - 1) /\ n \in Nat /\ n > 0
        /\ events'[h][n] = event /\ \A i \in 1..(n - 1) : events'[h][i] = events[h][i]
        /\ Last(events'[h]) = event /\ events'[h] # <<>>
    <2>1. events[h] \in Seq(EventRec)
      BY <1>2, EventShape
    <2>2. /\ Append(events[h], event) \in Seq(EventRec)
          /\ Len(Append(events[h], event)) = n
          /\ \A i \in 1..Len(events[h]) : Append(events[h], event)[i] = events[h][i]
          /\ Append(events[h], event)[n] = event
      BY <1>2, <2>1, AppendProperties
    <2>3. Len(events[h]) \in Nat /\ n \in Nat /\ n > 0 /\ Len(events[h]) = n - 1
      BY <2>1, LenProperties
    <2>4. Len(events'[h]) = n /\ DOMAIN events'[h] = 1..n
      BY <1>5, <2>2, LenProperties
    <2>5. DOMAIN events[h] = 1..(n - 1)
      BY <2>1, <2>3, LenProperties
    <2>6. events'[h][n] = event /\ \A i \in 1..(n - 1) : events'[h][i] = events[h][i]
      BY <1>5, <2>2, <2>3
    <2>7. Last(events'[h]) = event
      BY <2>4, <2>6 DEF Last
    <2>8. events'[h] # <<>>
      BY <2>3, <2>4
    <2> QED
      BY <2>3, <2>4, <2>5, <2>6, <2>7, <2>8
  <1>7. \A i \in 1..(n - 1) : events[h][i] \in EventRec
    BY <1>2, <1>6, EventShape
  <1>8. ASSUME h \notin shared
        PROVE  /\ ~row[h].sent /\ row[h].total > 0 /\ r.revision = row[h].revision
               /\ \A i \in 1..(n - 1) : events[h][i].revision < r.revision
    <2>1. ~row[h].sent /\ row[h].total > 0 /\ r.revision = row[h].revision
      BY <1>8 DEF ReadKnows
    <2>2. Below(h)
      BY <1>2, <1>8, <2>1 DEF EventsBelow, Gone, Rows
    <2> QED
      BY <1>6, <2>1, <2>2 DEF Below
  <1> HIDE DEF event, n
  <1>9. TypeOK'
    BY <1>1, <1>3, <1>4, <1>5 DEF TypeOK, FlushRec, ReadRec, EventRec
  <1>10. CodesExact' /\ SentCounts'
    <2>1. \A g \in Hour : row'[g].codes = row[g].codes /\ row'[g].total = row[g].total
      BY <1>3
    <2>2. failed' = failed
      BY <1>1
    <2>3. CodesExact'
      BY <2>1, <2>2 DEF CodesExact
    <2>4. row[h].total = 0 => ~row'[h].sent
      BY <1>2, <1>3 DEF SentCounts, Rows
    <2>5. SentCounts'
      BY <1>3, <2>1, <2>4 DEF SentCounts
    <2> QED
      BY <2>3, <2>5
  <1>11. CountCopy'
    <2> SUFFICES ASSUME NEW c \in Counter, count[c].phase # "idle" PROVE CopyOf(c, count[c])'
      BY <1>1 DEF CountCopy
    <2>1. count[c].hour \in Hour /\ count[c].hour # h /\ CopyOf(c, count[c])
      BY <1>1, UsageShape, CountHour DEF CountCopy, CopyOf
    <2> QED
      BY <1>1, <1>3, <2>1 DEF CopyOf
  <1>12. ReadKnows'
    <2> SUFFICES ASSUME NEW g \in Flusher, NEW s \in todo'[g].rows
                 PROVE  /\ s.hour \notin raced => s.total = row'[s.hour].total \/ row'[s.hour].total = 0
                        /\ s.hour \notin shared =>
                              /\ ~row'[s.hour].sent /\ row'[s.hour].total > 0
                              /\ s.revision = row'[s.hour].revision
                              /\ \A k \in Flusher : \A t \in todo'[k].rows : t.hour = s.hour => k = g /\ t = s
      BY <1>1 DEF ReadKnows
    <2>1. s \in todo[g].rows /\ s.hour \in Hour
      BY <1>4 DEF TypeOK
    <2>2. row'[s.hour].total = row[s.hour].total /\ row'[s.hour].revision = row[s.hour].revision
      BY <1>3, <2>1
    <2>3. s.hour \notin shared => s.hour # h
      BY <1>4, <2>1 DEF ReadKnows
    <2> QED
      BY <1>3, <1>4, <2>1, <2>2, <2>3 DEF ReadKnows
  <1>13. EventsBelow'
    <2> SUFFICES ASSUME NEW g \in Hour \ shared PROVE (Gone(g) \/ Below(g))'
      BY <1>1 DEF EventsBelow
    <2>1. CASE g # h
      BY <1>1, <1>3, <1>5, <2>1 DEF EventsBelow, Gone, Below
    <2>2. CASE g = h
      <3>1. /\ row'[h].sent /\ row'[h].revision = r.revision /\ r.revision \in Nat
            /\ event.revision = r.revision
        BY <1>2, <1>3, <1>8, <2>2 DEF ReadRec, event
      <3>2. ASSUME NEW i \in 1..n PROVE events'[h][i].revision <= r.revision
        <4>1. CASE i = n
          BY <1>6, <3>1, <4>1
        <4>2. CASE i # n
          <5>1. i \in 1..(n - 1)
            BY <1>6, <4>2
          <5> QED
            BY <1>6, <1>7, <1>8, <2>2, <3>1, <5>1 DEF EventRec
        <4> QED
          BY <4>1, <4>2
      <3> QED
        BY <1>6, <2>2, <3>1, <3>2 DEF Below
    <2> QED
      BY <2>1, <2>2
  <1>14. SentAsCounted'
    <2> SUFFICES ASSUME NEW g \in Hour \ raced, row'[g].sent
                 PROVE  events'[g] # <<>> /\ Last(events'[g]).total = row'[g].total
      BY <1>1 DEF SentAsCounted
    <2>1. CASE g # h
      BY <1>3, <1>5, <2>1 DEF SentAsCounted
    <2>2. CASE g = h
      BY <1>2, <1>3, <1>6, <2>2 DEF ReadKnows, SentCounts, event, Rows
    <2> QED
      BY <2>1, <2>2
  <1>15. RevisionsRise'
    <2> SUFFICES ASSUME NEW g \in Hour \ shared, NEW i \in DOMAIN events'[g], NEW j \in DOMAIN events'[g], i < j
                 PROVE  events'[g][i].revision < events'[g][j].revision
      BY <1>1 DEF RevisionsRise
    <2>1. CASE g # h
      BY <1>5, <2>1 DEF RevisionsRise
    <2>2. CASE g = h /\ j = n
      BY <1>6, <1>8, <2>2 DEF event
    <2>3. CASE g = h /\ j # n
      BY <1>6, <2>3 DEF RevisionsRise
    <2> QED
      BY <2>1, <2>2, <2>3
  <1> QED
    BY <1>9, <1>10, <1>11, <1>12, <1>13, <1>14, <1>15

LEMMA SkipNext ==
  ASSUME IInv, NEW f \in Flusher, Skip(f)
  PROVE  IInv'
  <1> USE DEF IInv
  <1>1. PICK r \in todo[f].rows : Rest(f, r) /\ UNCHANGED <<now, row, locked, count, events, fails, failed, raced, shared>>
    BY DEF Skip, histories
  <1>2. todo' \in [Flusher -> FlushRec] /\ \A g \in Flusher : todo'[g].rows \subseteq todo[g].rows
    BY <1>1, RestNext
  <1>3. TypeOK' /\ ReadKnows'
    BY <1>1, <1>2, FewerKnow DEF TypeOK, FlushRec, ReadRec
  <1> QED
    BY <1>1, <1>3 DEF CodesExact, CountCopy, CopyOf, SentCounts, EventsBelow, Gone, Below, SentAsCounted, RevisionsRise

LEMMA FailNext ==
  ASSUME IInv, NEW f \in Flusher, Fail(f)
  PROVE  IInv'
  <1> USE DEF IInv
  <1>1. todo' = [todo EXCEPT ![f] = NoFlush] /\ fails' = fails + 1 /\ fails < MaxFails
        /\ UNCHANGED <<now, row, locked, count, events, failed, raced, shared>>
    BY DEF Fail, histories
  <1>2. todo' \in [Flusher -> FlushRec] /\ \A g \in Flusher : todo'[g].rows \subseteq todo[g].rows
    BY <1>1, RowShapes DEF TypeOK, FlushRec, ReadRec, NoFlush
  <1>3. fails' \in 0..MaxFails
    BY <1>1, UsageBounds DEF TypeOK
  <1>4. TypeOK' /\ ReadKnows'
    BY <1>1, <1>2, <1>3, FewerKnow DEF TypeOK, FlushRec, ReadRec
  <1> QED
    BY <1>1, <1>4 DEF CodesExact, CountCopy, CopyOf, SentCounts, EventsBelow, Gone, Below, SentAsCounted, RevisionsRise

LEMMA EndNext ==
  ASSUME IInv, NEW f \in Flusher, End(f)
  PROVE  IInv'
  <1> USE DEF IInv
  <1> DEFINE old == {h \in Hour : row[h].sent /\ h < now - Keep /\ locked[h] = NoOne}
  <1>1. /\ todo' = [todo EXCEPT ![f] = NoFlush]
        /\ \A h \in old : row'[h] = NoRow
        /\ \A h \in Hour \ old : row'[h] = row[h]
        /\ row' \in [Hour -> Rows]
        /\ UNCHANGED <<now, locked, count, events, fails, raced, shared>>
        /\ failed' \in [Hour -> [Code -> Nat]]
        /\ \A h \in Hour : failed'[h] = IF row'[h].total = 0 THEN NoCodes ELSE failed[h]
    BY RowShapes DEF End, Pruned, TypeOK
  <1>2. todo' \in [Flusher -> FlushRec] /\ \A g \in Flusher : todo'[g].rows \subseteq todo[g].rows
    BY <1>1, RowShapes DEF TypeOK, FlushRec, ReadRec, NoFlush
  <1>3. NoRow.total = 0 /\ NoRow.codes = NoCodes /\ ~NoRow.sent
    BY RowShapes
  <1> HIDE DEF old
  <1>4. TypeOK'
    BY <1>1, <1>2 DEF TypeOK, FlushRec, ReadRec
  <1>5. SentCounts' /\ SentAsCounted' /\ RevisionsRise'
    <2>1. SentCounts'
      BY <1>1, <1>3 DEF SentCounts
    <2>2. SentAsCounted'
      BY <1>1, <1>3 DEF SentAsCounted
    <2>3. RevisionsRise'
      BY <1>1 DEF RevisionsRise
    <2> QED
      BY <2>1, <2>2, <2>3
  <1>9. CodesExact'
    <2> SUFFICES ASSUME NEW h \in Hour PROVE ExactFor(row'[h].codes, failed'[h])
      BY DEF CodesExact, ExactFor
    <2>1. CASE row'[h].total = 0
      <3>1. row'[h].codes = NoCodes
        BY <1>5, <2>1 DEF SentCounts
      <3> QED
        BY <1>1, <2>1, <3>1, NoneExact
    <2>2. CASE row'[h].total # 0
      <3>1. row'[h] = row[h] /\ failed'[h] = failed[h]
        BY <1>1, <1>3, <2>2
      <3> QED
        BY <3>1 DEF CodesExact, ExactFor
    <2> QED
      BY <2>1, <2>2
  <1>6. CountCopy'
    <2> SUFFICES ASSUME NEW c \in Counter, count[c].phase # "idle" PROVE CopyOf(c, count[c])'
      BY <1>1 DEF CountCopy
    <2>1. count[c].hour \in Hour \ old /\ CopyOf(c, count[c])
      BY UsageShape, CountHour DEF CountCopy, CopyOf, old
    <2> QED
      BY <1>1, <2>1 DEF CopyOf
  <1>7. ReadKnows'
    <2>1. \A g \in Flusher : \A r \in todo[g].rows :
            /\ r.hour \in Hour
            /\ row'[r.hour] = row[r.hour] \/ row'[r.hour].total = 0
            /\ r.hour \notin shared => row'[r.hour] = row[r.hour]
      <3> SUFFICES ASSUME NEW g \in Flusher, NEW r \in todo[g].rows
                   PROVE  /\ r.hour \in Hour
                          /\ row'[r.hour] = row[r.hour] \/ row'[r.hour].total = 0
                          /\ r.hour \notin shared => row'[r.hour] = row[r.hour]
        OBVIOUS
      <3>1. r.hour \in Hour
        BY DEF TypeOK
      <3>2. r.hour \notin shared => r.hour \notin old
        BY DEF ReadKnows, old
      <3> QED
        BY <1>1, <1>3, <3>1, <3>2
    <2> QED
      BY <1>1, <1>2, <2>1 DEF ReadKnows
  <1>8. EventsBelow'
    BY <1>1, <1>3 DEF EventsBelow, Gone, Below, old
  <1> QED
    BY <1>4, <1>5, <1>6, <1>7, <1>8, <1>9

LEMMA HourNext ==
  ASSUME IInv, HourPasses
  PROVE  IInv'
  <1> USE DEF IInv
  <1>1. now \in Hour /\ now' = now + 1 /\ now < MaxHour
        /\ UNCHANGED <<row, locked, count, todo, events, fails, failed, raced, shared>>
    BY DEF HourPasses, TypeOK, histories
  <1>2. TypeOK'
    <2>1. now' \in Hour
      BY <1>1, UsageBounds DEF Hour
    <2> QED
      BY <1>1, <2>1 DEF TypeOK
  <1>3. EventsBelow'
    BY <1>1, UsageBounds DEF EventsBelow, Gone, Below, Hour
  <1> QED
    BY <1>1, <1>2, <1>3 DEF CodesExact, CountCopy, CopyOf, SentCounts, ReadKnows, SentAsCounted, RevisionsRise

-----------------------------------------------------------------------------
LEMMA Inductive == Spec => []IInv
  <1>1. Init => IInv
    <2> SUFFICES ASSUME Init PROVE IInv
      OBVIOUS
    <2>1. TypeOK
      BY RowShapes, UsageBounds DEF Init, TypeOK, Hour, CountRec, FlushRec, ReadRec
    <2>4. CodesExact
      <3>1. \A h \in Hour : row[h].codes = NoCodes /\ failed[h] = NoCodes
        BY RowShapes DEF Init
      <3> QED
        BY <3>1, NoneExact DEF CodesExact, ExactFor
    <2>2. SentCounts /\ CountCopy /\ SentAsCounted
      BY RowShapes DEF Init, SentCounts, CountCopy, SentAsCounted, NoCount
    <2>3. ReadKnows /\ EventsBelow /\ RevisionsRise
      BY DEF Init, ReadKnows, EventsBelow, Below, RevisionsRise, NoFlush
    <2> QED
      BY <2>1, <2>2, <2>3, <2>4 DEF IInv
  <1>2. IInv /\ [Next]_vars => IInv'
    <2> SUFFICES ASSUME IInv, [Next]_vars PROVE IInv'
      OBVIOUS
    <2>1. CASE UNCHANGED vars
      <3>1. UNCHANGED <<now, row, locked, count, todo, events, fails, failed, raced, shared>>
        BY <2>1 DEF vars, histories
      <3>2. TypeOK'
        BY <3>1 DEF IInv, TypeOK
      <3>3. CodesExact' /\ CountCopy' /\ SentCounts' /\ SentAsCounted' /\ RevisionsRise'
        BY <3>1 DEF IInv, CodesExact, CountCopy, CopyOf, SentCounts, SentAsCounted, RevisionsRise
      <3>4. ReadKnows' /\ EventsBelow'
        BY <3>1 DEF IInv, ReadKnows, EventsBelow, Gone, Below
      <3> QED
        BY <3>2, <3>3, <3>4 DEF IInv
    <2>2. CASE Next
      BY <2>2, HourNext, AddNext, TallyNext, CommitNext, AbortNext, StartNext, StoreNext, SkipNext, EndNext, FailNext
         DEF Next, FlushStep
    <2> QED
      BY <2>1, <2>2
  <1> QED
    BY <1>1, <1>2, PTL DEF Spec

(* error_codes is read and written back, and exact all the same, whatever  *)
(* transactions count in an hour at once: a code has its failures, or none *)
(* of them when MAX_CODES others were listed first (usage.js:76-91).       *)
THEOREM CodesNeverLost == Spec => []CountsAddUp
  <1>1. IInv => CountsAddUp
    BY DEF IInv, CountsAddUp
  <1> QED
    BY <1>1, Inductive, PTL

(* A row that flush marked as sent was stored with the totals it has, and  *)
(* an hour's events correct each other under rising revisions              *)
(* (usage.js:109-138), except where a count or another flush came between  *)
(* the read and the mark.                                                  *)
THEOREM SentIsCounted == Spec => []SendsCorrected
  <1>1. IInv => SendsCorrected
    BY DEF IInv, SendsCorrected
  <1> QED
    BY <1>1, Inductive, PTL
=============================================================================
