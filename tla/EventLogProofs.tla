--------------------------- MODULE EventLogProofs ---------------------------
(***************************************************************************)
(* Proofs that an event id keeps its position, that positions become       *)
(* visible in the order in which they were handed out, and that no cursor  *)
(* of a pull consumer passes an event it was neither given nor told of.    *)
(*                                                                         *)
(* The first two rest on what a publish has looked at before it inserts,   *)
(* and on the lock of the counter it holds from its first position to its  *)
(* commit; the third on the two of them, and on what each page accounts    *)
(* for.                                                                    *)
(***************************************************************************)
EXTENDS EventLog, FiniteSetTheorems, SequenceTheorems, WellFoundedInduction, TLAPS

-----------------------------------------------------------------------------
(* A publish goes through its batch, and inserts none of its ids twice.    *)
Phases == {"idle", "hot", "replay", "receipt", "number", "insert", "commit"}
Items == [id : Id, pos : Nat]
Tx == [phase : Phases, batch : Batches \union {<<>>}, at : Nat, kept : Nat, taken : Seq(Items)]

TxOK(t) ==
    IF t.phase = "idle" THEN t = NoTx
    ELSE /\ t.batch \in Batches /\ t.at \in 1..(Len(t.batch) + 1)
         /\ t.phase # "commit" => t.at <= Len(t.batch)
         /\ \A i \in DOMAIN t.taken : \E j \in DOMAIN t.batch : j < t.at /\ t.batch[j] = t.taken[i].id
         /\ \A i, j \in DOMAIN t.taken : t.taken[i].id = t.taken[j].id => i = j

(* What it inserted follows the counter, whose row it has locked.          *)
Numbered(p, t) ==
    /\ t.taken # <<>> \/ t.phase = "insert" => numbering = p
    /\ \A i \in DOMAIN t.taken : t.taken[i].pos = counter + i

(* What it inserted is unknown to all others; and what it looked for and   *)
(* did not find is unknown still, or was committed a moment ago.           *)
Due(t) == t.batch[t.at]
JustStored(id) == hot[id] # 0 /\ age[id] = 0
Looked(t) ==
    /\ \A i \in DOMAIN t.taken : ~Known(t.taken[i].id)
    /\ t.phase \in {"replay", "receipt"} /\ hot[Due(t)] # 0 => JustStored(Due(t))
    /\ t.phase = "receipt" => replay[Due(t)] = 0
    /\ t.phase \in {"number", "insert"} /\ Known(Due(t)) => JustStored(Due(t))

LogInv ==
    /\ \A p \in Publisher : TxOK(tx[p]) /\ Numbered(p, tx[p]) /\ Looked(tx[p])
    /\ \A id \in Id : hot[id] <= counter /\ replay[id] <= counter /\ (hot[id] = 0 \/ replay[id] = 0)

(* What a reader was given or told of, up to a position of its request;    *)
(* and at the end of a narrowed scan, of all the log had when it began.    *)
Accounted(r, id) == id \in pull[r].rows \/ Position(id) \in pull[r].gap \union overtaken[r]
Scanned(r) ==
    /\ pull[r].phase # "idle" => pull[r].from = cursor[r] /\ pull[r].began <= counter
    /\ pull[r].phase \in {"scan", "head", "answer"} =>
          /\ pull[r].at <= counter
          /\ \A id \in Wanted : Position(id) > pull[r].from /\ Position(id) <= pull[r].at => Accounted(r, id)
    /\ pull[r].phase = "head" =>
          \A id \in Wanted : Position(id) > pull[r].from => Accounted(r, id) \/ Position(id) > pull[r].began
ReadInv ==
    /\ \A r \in Reader : cursor[r] <= counter /\ Scanned(r)
    /\ PullMissesNothing

IInv == TypeOK /\ LogInv /\ ReadInv

-----------------------------------------------------------------------------
(* Numbers.                                                                *)
LEMMA SmallestOf ==
  ASSUME NEW S \in SUBSET Nat, S # {}
  PROVE  \E m \in S : \A n \in S : m <= n
  <1>1. PICK m \in S : \A n \in S : ~(<<n, m>> \in OpToRel(<, Nat))
    BY NatLessThanWellFounded, WFMin, Zenon
  <1>2. ASSUME NEW n \in S PROVE m <= n
    <2>1. n \in Nat /\ m \in Nat
      OBVIOUS
    <2>2. ~(n < m)
      BY <1>1, <2>1 DEF OpToRel
    <2> QED
      BY <2>1, <2>2
  <1> QED
    BY <1>2

LEMMA LargestOf ==
  ASSUME NEW S \in SUBSET Nat, S # {}, NEW b \in Nat, \A n \in S : n <= b
  PROVE  \E m \in S : \A n \in S : n <= m
  <1> DEFINE T == {c \in Nat : \A n \in S : n <= c}
  <1>1. b \in T /\ T \in SUBSET Nat
    OBVIOUS
  <1>2. PICK m \in T : \A c \in T : m <= c
    <2> HIDE DEF T
    <2> QED
      BY <1>1, SmallestOf
  <1>3. m \in Nat /\ \A n \in S : n <= m
    OBVIOUS
  <1>4. m \in S
    <2> SUFFICES ASSUME m \notin S PROVE FALSE
      OBVIOUS
    <2>1. PICK n \in S : TRUE
      OBVIOUS
    <2>2. \A k \in S : k <= m - 1
      BY <1>3
    <2>3. m - 1 \in Nat
      BY <1>3, <2>1, <2>2
    <2>4. m - 1 \in T
      BY <2>2, <2>3
    <2>5. m <= m - 1
      <3> HIDE DEF T
      <3> QED
        BY <1>2, <2>4
    <2> QED
      BY <1>3, <2>5
  <1> QED
    BY <1>3, <1>4

(* What Min and Max choose.                                                *)
LEMMA MinIs ==
  ASSUME NEW S \in SUBSET Nat, S # {}
  PROVE  Min(S) \in S /\ \A n \in S : Min(S) <= n
  <1>1. \E m \in S : \A n \in S : m <= n
    BY SmallestOf
  <1> QED
    BY <1>1 DEF Min

LEMMA MaxIs ==
  ASSUME NEW S \in SUBSET Nat, S # {}, NEW b \in Nat, \A n \in S : n <= b
  PROVE  Max(S) \in S /\ \A n \in S : n <= Max(S)
  <1>1. \E m \in S : \A n \in S : n <= m
    BY LargestOf
  <1> QED
    BY <1>1 DEF Max

LEMMA MaxOfTwo ==
  ASSUME NEW m \in Nat, NEW n \in Nat
  PROVE  Max({m, n}) = IF m <= n THEN n ELSE m
  <1>1. m <= m + n /\ n <= m + n /\ m + n \in Nat
    OBVIOUS
  <1>2. Max({m, n}) \in {m, n} /\ \A k \in {m, n} : k <= Max({m, n})
    <2> DEFINE S == {m, n}
    <2>1. S \in SUBSET Nat /\ S # {} /\ \A k \in S : k <= m + n
      BY <1>1
    <2>2. Max(S) \in S /\ \A k \in S : k <= Max(S)
      <3> HIDE DEF S
      <3> QED
        BY <1>1, <2>1, MaxIs
    <2> QED
      BY <2>2
  <1> QED
    BY <1>2

-----------------------------------------------------------------------------
(* The transactions.                                                       *)
LEMMA TxFacts ==
  ASSUME TypeOK, NEW p \in Publisher
  PROVE  /\ tx[p] \in Tx /\ tx[p].taken \in Seq(Items) /\ Len(tx[p].taken) \in Nat
         /\ DOMAIN tx[p].taken = 1..Len(tx[p].taken)
         /\ \A i \in DOMAIN tx[p].taken : tx[p].taken[i] \in Items /\ tx[p].taken[i].id \in Id /\ tx[p].taken[i].pos \in Nat
         /\ tx[p].at \in Nat /\ tx[p].kept \in Nat /\ tx[p].phase \in Phases
  <1>1. tx[p] \in Tx
    BY DEF TypeOK, Tx, Items, Phases
  <1>2. tx[p].taken \in Seq(Items) /\ tx[p].at \in Nat /\ tx[p].kept \in Nat /\ tx[p].phase \in Phases
    BY <1>1 DEF Tx
  <1> DEFINE s == tx[p].taken
  <1> HIDE DEF s
  <1>3. s \in Seq(Items)
    BY <1>2 DEF s
  <1>4. Len(s) \in Nat /\ DOMAIN s = 1..Len(s) /\ \A i \in DOMAIN s : s[i] \in Items
    BY <1>3
  <1>5. \A i \in DOMAIN s : s[i].id \in Id /\ s[i].pos \in Nat
    BY <1>4 DEF Items
  <1> QED
    BY <1>1, <1>2, <1>4, <1>5 DEF s

LEMMA BatchFacts ==
  ASSUME NEW b \in Batches
  PROVE  /\ b \in Seq(Id) /\ b # <<>> /\ Len(b) \in Nat \ {0} /\ DOMAIN b = 1..Len(b)
         /\ \A i \in DOMAIN b : b[i] \in Id
         /\ \A i, j \in DOMAIN b : b[i] = b[j] => i = j
  <1>1. b \in Seq(Id) /\ b # <<>>
    BY LogShape
  <1>2. \A i, j \in DOMAIN b : b[i] = b[j] => i = j
    BY LogShape DEF IsInjective
  <1>3. Len(b) \in Nat \ {0} /\ DOMAIN b = 1..Len(b) /\ \A i \in DOMAIN b : b[i] \in Id
    BY <1>1, EmptySeq
  <1> QED
    BY <1>1, <1>2, <1>3

(* A transaction that looks or inserts has an item of its batch in hand.   *)
LEMMA ItemFacts ==
  ASSUME TypeOK, NEW p \in Publisher, TxOK(tx[p]), tx[p].phase \notin {"idle", "commit"}
  PROVE  /\ tx[p].batch \in Batches /\ tx[p].at \in DOMAIN tx[p].batch /\ tx[p].at <= Len(tx[p].batch)
         /\ Item(p) \in Id /\ Item(p) = Due(tx[p])
  <1>1. tx[p].batch \in Batches /\ tx[p].at \in 1..Len(tx[p].batch)
    BY TxFacts, BatchFacts DEF TxOK
  <1> QED
    BY <1>1, BatchFacts DEF Item, Due

TypeRest ==
    /\ hot \in [Id -> Nat] /\ replay \in [Id -> Nat] /\ age \in [Id -> Nat]
    /\ receipt \subseteq Id /\ counter \in Nat /\ numbering \in Publisher \union {NoOne}
    /\ tx \in [Publisher -> Tx]
TypeReads ==
    /\ pull \in [Reader -> [phase : {"idle", "oldest", "empty", "scan", "head", "answer"}, narrow : BOOLEAN,
                            from : Nat, at : Nat, rows : SUBSET Id, scanned : Nat, gap : SUBSET Nat, began : Nat]]
    /\ cursor \in [Reader -> Nat] /\ seen \in [Reader -> SUBSET Id] /\ missed \in [Reader -> SUBSET Nat]
    /\ overtaken \in [Reader -> SUBSET Nat]

LEMMA TypeParts == TypeOK <=> TypeRest /\ TypeReads
  BY DEF TypeOK, TypeRest, TypeReads, Tx, Items, Phases

(* A step of one transaction that stores nothing.                          *)
LEMMA OneTx ==
  ASSUME TypeOK, LogInv, NEW p \in Publisher, NEW t \in Tx, tx' = [tx EXCEPT ![p] = t],
         UNCHANGED <<hot, replay, receipt, age, counter>>, numbering' \in Publisher \union {NoOne},
         \A q \in Publisher \ {p} : numbering = q => numbering' = q,
         TxOK(t), t.taken # <<>> \/ t.phase = "insert" => numbering' = p,
         \A i \in DOMAIN t.taken : t.taken[i].pos = counter + i,
         Looked(t)
  PROVE  TypeRest' /\ LogInv'
  <1>1. TypeRest'
    BY TypeParts DEF TypeRest
  <1>2. tx'[p] = t /\ \A q \in Publisher \ {p} : tx'[q] = tx[q]
    BY TypeParts DEF TypeRest
  <1>3. ASSUME NEW u, Looked(u)
        PROVE  Looked(u)'
    BY <1>3 DEF Looked, Known, Position, JustStored, Due
  <1>4. ASSUME NEW q \in Publisher
        PROVE  TxOK(tx'[q]) /\ Numbered(q, tx[q])' /\ Looked(tx[q])'
    <2>1. CASE q = p
      <3>1. Looked(t)'
        BY <1>3
      <3>2. Looked(tx[q])'
        BY <1>2, <2>1, <3>1 DEF Looked, Known, Position, JustStored, Due
      <3> QED
        BY <1>2, <2>1, <3>2 DEF Numbered
    <2>2. CASE q # p
      <3>1. tx'[q] = tx[q] /\ TxOK(tx[q]) /\ Numbered(q, tx[q]) /\ Looked(tx[q])
        BY <1>2, <2>2 DEF LogInv
      <3>2. PICK u : u = tx[q] /\ u = tx'[q]
        BY <3>1
      <3>3. Looked(u)'
        BY <1>3, <3>1, <3>2
      <3>4. Looked(tx[q])'
        BY <3>2, <3>3 DEF Looked, Known, Position, JustStored, Due
      <3> QED
        BY <2>2, <3>1, <3>4 DEF Numbered
    <2> QED
      BY <2>1, <2>2
  <1> QED
    BY <1>1, <1>4 DEF LogInv

LEMMA NoTxFacts ==
  NoTx \in Tx /\ TxOK(NoTx) /\ Looked(NoTx) /\ NoTx.taken = <<>> /\ DOMAIN NoTx.taken = {} /\ NoTx.phase = "idle"
  <1>1. <<>> \in Seq(Items)
    OBVIOUS
  <1> QED
    BY <1>1 DEF NoTx, Tx, TxOK, Looked, Phases

LEMMA BeginStep ==
  ASSUME TypeOK, LogInv, NEW p \in Publisher, NEW batch \in Batches, Begin(p, batch)
  PROVE  TypeRest' /\ LogInv'
  <1> DEFINE n == Cardinality({id \in AppIds : hot[id] # 0})
             t == [NoTx EXCEPT !.phase = "hot", !.batch = batch, !.kept = n]
  <1>1. n \in Nat
    <2>1. {id \in AppIds : hot[id] # 0} \in SUBSET Id /\ IsFiniteSet(Id)
      BY LogShape
    <2> QED
      BY <2>1, FS_Subset, FS_CardinalityType
  <1>2. tx' = [tx EXCEPT ![p] = t] /\ UNCHANGED <<hot, replay, receipt, age, counter, numbering>>
    BY DEF Begin, logVars
  <1> HIDE DEF n
  <1>3. NoTx \in Tx /\ NoTx.at = 1 /\ NoTx.taken = <<>> /\ DOMAIN NoTx.taken = {}
    BY NoTxFacts DEF NoTx
  <1>4. "hot" \in Phases
    BY DEF Phases
  <1>5. t \in Tx
    BY <1>1, <1>3, <1>4 DEF Tx
  <1>6. t.phase = "hot" /\ t.batch = batch /\ t.at = 1 /\ t.taken = <<>> /\ DOMAIN t.taken = {}
    BY <1>1, <1>3 DEF Tx
  <1> HIDE DEF t
  <1>7. TxOK(t) /\ Looked(t)
    BY <1>6, BatchFacts DEF TxOK, Looked
  <1>8. numbering' \in Publisher \union {NoOne}
    BY <1>2 DEF TypeOK
  <1> QED
    BY <1>2, <1>5, <1>6, <1>7, <1>8, OneTx

(* On to the next item of the batch, or to the commit.                     *)
LEMMA NextItemStep ==
  ASSUME TypeOK, LogInv, NEW p \in Publisher, tx[p].phase \in {"hot", "replay", "receipt"}, NextItem(p),
         UNCHANGED <<hot, replay, receipt, age, counter, numbering>>
  PROVE  TypeRest' /\ LogInv'
  <1> DEFINE t == [tx[p] EXCEPT !.phase = AfterItem(p), !.at = @ + 1]
  <1>1. tx[p] \in Tx /\ TxOK(tx[p]) /\ Numbered(p, tx[p]) /\ Looked(tx[p])
    BY TxFacts DEF LogInv
  <1>2. AfterItem(p) \in Phases /\ AfterItem(p) = IF tx[p].at < Len(tx[p].batch) THEN "hot" ELSE "commit"
    BY DEF AfterItem, Phases
  <1>3. t \in Tx
    <2> DEFINE phase == AfterItem(p)
               at == tx[p].at + 1
    <2>1. phase \in Phases /\ at \in Nat
      BY <1>1, <1>2 DEF Tx
    <2>2. t = [tx[p] EXCEPT !.phase = phase, !.at = at]
      OBVIOUS
    <2> HIDE DEF phase, at, t
    <2> QED
      BY <1>1, <2>1, <2>2 DEF Tx
  <1>4. t.phase = AfterItem(p) /\ t.at = tx[p].at + 1 /\ t.batch = tx[p].batch /\ t.taken = tx[p].taken
    BY <1>1 DEF Tx
  <1>5. tx' = [tx EXCEPT ![p] = t]
    BY DEF NextItem
  <1> HIDE DEF t
  <1>6. tx[p].batch \in Batches /\ tx[p].at \in 1..Len(tx[p].batch) /\ Len(tx[p].batch) \in Nat
    BY <1>1, ItemFacts, BatchFacts
  <1>7. TxOK(t)
    <2>1. t.at \in 1..(Len(t.batch) + 1) /\ (t.phase # "commit" => t.at <= Len(t.batch)) /\ t.phase # "idle"
      BY <1>2, <1>4, <1>6
    <2>2. \A i \in DOMAIN t.taken : \E j \in DOMAIN t.batch : j < t.at /\ t.batch[j] = t.taken[i].id
      <3> SUFFICES ASSUME NEW i \in DOMAIN t.taken PROVE \E j \in DOMAIN t.batch : j < t.at /\ t.batch[j] = t.taken[i].id
        OBVIOUS
      <3>1. PICK j \in DOMAIN tx[p].batch : j < tx[p].at /\ tx[p].batch[j] = tx[p].taken[i].id
        BY <1>1, <1>4 DEF TxOK
      <3>2. j \in Nat /\ j < t.at
        BY <1>4, <1>6, <3>1, BatchFacts
      <3> QED
        BY <1>4, <3>1, <3>2
    <2> QED
      BY <1>1, <1>4, <1>6, <2>1, <2>2 DEF TxOK
  <1>8. Looked(t)
    BY <1>1, <1>2, <1>4 DEF Looked
  <1>9. numbering' \in Publisher \union {NoOne} /\ (t.taken # <<>> \/ t.phase = "insert" => numbering' = p)
    BY <1>1, <1>2, <1>4 DEF TypeOK, Numbered
  <1>10. \A i \in DOMAIN t.taken : t.taken[i].pos = counter + i
    BY <1>1, <1>4 DEF Numbered
  <1> QED
    BY <1>3, <1>5, <1>7, <1>8, <1>9, <1>10, OneTx

(* On to the next statement about the same item.                           *)
LEMMA GotoStep ==
  ASSUME TypeOK, LogInv, NEW p \in Publisher, tx[p].phase \notin {"idle", "commit"},
         NEW phase \in Phases \ {"idle"}, NEW n \in Nat,
         tx' = [tx EXCEPT ![p] = [tx[p] EXCEPT !.phase = phase, !.kept = n]],
         UNCHANGED <<hot, replay, receipt, age, counter>>, numbering' \in {numbering, p},
         \A q \in Publisher \ {p} : numbering = q => numbering' = q,
         phase = "insert" => numbering' = p,
         phase \in {"replay", "receipt"} /\ hot[Item(p)] # 0 => JustStored(Item(p)),
         phase = "receipt" => replay[Item(p)] = 0,
         phase \in {"number", "insert"} /\ Known(Item(p)) => JustStored(Item(p))
  PROVE  TypeRest' /\ LogInv'
  <1> DEFINE t == [tx[p] EXCEPT !.phase = phase, !.kept = n]
  <1>1. tx[p] \in Tx /\ TxOK(tx[p]) /\ Numbered(p, tx[p]) /\ Looked(tx[p])
    BY TxFacts DEF LogInv
  <1>2. t \in Tx
    BY <1>1 DEF Tx
  <1>3. t.phase = phase /\ t.at = tx[p].at /\ t.batch = tx[p].batch /\ t.taken = tx[p].taken
    BY <1>1 DEF Tx
  <1>4. tx' = [tx EXCEPT ![p] = t]
    OBVIOUS
  <1> HIDE DEF t
  <1>5. Due(t) = Item(p)
    BY <1>3 DEF Due, Item
  <1>6. TxOK(t)
    BY <1>1, <1>3, ItemFacts DEF TxOK
  <1>7. Looked(t)
    BY <1>1, <1>3, <1>5 DEF Looked
  <1>8. numbering' \in Publisher \union {NoOne} /\ (t.taken # <<>> \/ t.phase = "insert" => numbering' = p)
    BY <1>1, <1>3 DEF TypeOK, Numbered
  <1>9. \A i \in DOMAIN t.taken : t.taken[i].pos = counter + i
    BY <1>1, <1>3 DEF Numbered
  <1> QED
    BY <1>2, <1>4, <1>6, <1>7, <1>8, <1>9, OneTx

LEMMA GotoIs ==
  ASSUME TypeOK, NEW p \in Publisher, NEW phase, Goto(p, phase)
  PROVE  tx' = [tx EXCEPT ![p] = [tx[p] EXCEPT !.phase = phase, !.kept = tx[p].kept]] /\ tx[p].kept \in Nat
  <1>1. tx[p] \in Tx
    BY TxFacts
  <1>2. [tx[p] EXCEPT !.phase = phase] = [tx[p] EXCEPT !.phase = phase, !.kept = tx[p].kept] /\ tx[p].kept \in Nat
    BY <1>1 DEF Tx
  <1>3. tx' = [tx EXCEPT ![p] = [tx[p] EXCEPT !.phase = phase]]
    BY DEF Goto
  <1> QED
    BY <1>2, <1>3

(* Nothing the log knew before is inserted again.                          *)
LEMMA FindStep ==
  ASSUME TypeOK, LogInv, NEW p \in Publisher, FindHot(p) \/ FindReplay(p) \/ FindReceipt(p)
  PROVE  TypeRest' /\ LogInv'
  <1>1. UNCHANGED <<hot, replay, receipt, age, counter, numbering>>
    BY DEF FindHot, FindReplay, FindReceipt, logVars
  <1>2. tx[p] \in Tx /\ TxOK(tx[p]) /\ Looked(tx[p])
    BY TxFacts DEF LogInv
  <1>3. tx[p].phase \in {"hot", "replay", "receipt"} /\ Item(p) = Due(tx[p])
    BY <1>2, ItemFacts DEF FindHot, FindReplay, FindReceipt
  <1>4. CASE NextItem(p)
    BY <1>1, <1>3, <1>4, NextItemStep
  <1>5. CASE FindHot(p) /\ ~NextItem(p)
    <2>1. hot[Item(p)] = 0 /\ Goto(p, "replay")
      BY <1>5 DEF FindHot
    <2>2. tx' = [tx EXCEPT ![p] = [tx[p] EXCEPT !.phase = "replay", !.kept = tx[p].kept]] /\ tx[p].kept \in Nat
      BY <2>1, GotoIs
    <2>3. "replay" \in Phases \ {"idle"}
      BY DEF Phases
    <2> QED
      BY <1>1, <1>3, <2>1, <2>2, <2>3, GotoStep
  <1>6. CASE FindReplay(p) /\ ~NextItem(p)
    <2>1. replay[Item(p)] = 0 /\ Goto(p, "receipt") /\ tx[p].phase = "replay"
      BY <1>6 DEF FindReplay
    <2>2. hot[Item(p)] # 0 => JustStored(Item(p))
      BY <1>2, <1>3, <2>1 DEF Looked
    <2>3. tx' = [tx EXCEPT ![p] = [tx[p] EXCEPT !.phase = "receipt", !.kept = tx[p].kept]] /\ tx[p].kept \in Nat
      BY <2>1, GotoIs
    <2>4. "receipt" \in Phases \ {"idle"}
      BY DEF Phases
    <2> QED
      BY <1>1, <1>3, <2>1, <2>2, <2>3, <2>4, GotoStep
  <1>7. CASE FindReceipt(p) /\ ~NextItem(p)
    <2>1. /\ Item(p) \notin receipt /\ tx[p].phase = "receipt"
          /\ tx' = [tx EXCEPT ![p] = [tx[p] EXCEPT !.phase = "number", !.kept = @ + 1]]
      BY <1>7 DEF FindReceipt
    <2>2. tx' = [tx EXCEPT ![p] = [tx[p] EXCEPT !.phase = "number", !.kept = tx[p].kept + 1]] /\ tx[p].kept + 1 \in Nat
      BY <2>1, TxFacts
    <2>3. Known(Item(p)) => JustStored(Item(p))
      BY <1>2, <1>3, <2>1 DEF Looked, Known, Position
    <2>4. "number" \in Phases \ {"idle"}
      BY DEF Phases
    <2> QED
      BY <1>1, <1>3, <2>2, <2>3, <2>4, GotoStep
  <1> QED
    BY <1>4, <1>5, <1>6, <1>7

LEMMA NumberStep ==
  ASSUME TypeOK, LogInv, NEW p \in Publisher, Number(p)
  PROVE  TypeRest' /\ LogInv'
  <1>1. /\ tx[p].phase = "number" /\ Goto(p, "insert") /\ numbering \in {NoOne, p} /\ numbering' = p
        /\ UNCHANGED <<hot, replay, receipt, age, counter>>
    BY DEF Number
  <1>2. TxOK(tx[p]) /\ Looked(tx[p])
    BY DEF LogInv
  <1>3. Known(Item(p)) => JustStored(Item(p))
    BY <1>1, <1>2, ItemFacts DEF Looked
  <1>4. \A q \in Publisher \ {p} : numbering # q
    BY <1>1, LogShape
  <1>5. tx' = [tx EXCEPT ![p] = [tx[p] EXCEPT !.phase = "insert", !.kept = tx[p].kept]] /\ tx[p].kept \in Nat
    BY <1>1, GotoIs
  <1>6. "insert" \in Phases \ {"idle"}
    BY DEF Phases
  <1> QED
    BY <1>1, <1>3, <1>4, <1>5, <1>6, GotoStep

LEMMA InsertStep ==
  ASSUME TypeOK, LogInv, NEW p \in Publisher, Insert(p)
  PROVE  TypeRest' /\ LogInv'
  <1> DEFINE new == [id |-> Item(p), pos |-> Place(p)]
             more == Append(tx[p].taken, new)
             step == [tx[p] EXCEPT !.phase = AfterItem(p), !.at = @ + 1]
             t == [step EXCEPT !.taken = more]
             n == Len(tx[p].taken)
  <1>1. tx[p] \in Tx /\ TxOK(tx[p]) /\ Numbered(p, tx[p]) /\ Looked(tx[p]) /\ counter \in Nat
    BY TxFacts DEF LogInv, TypeOK
  <1>2. /\ tx[p].phase = "insert" /\ hot[Item(p)] = 0
        /\ UNCHANGED <<hot, replay, receipt, age, counter, numbering>>
        /\ tx' = [tx EXCEPT ![p] = [tx[p] EXCEPT !.phase = AfterItem(p), !.at = @ + 1, !.taken = more]]
    BY DEF Insert, logVars
  <1>3. /\ tx[p].batch \in Batches /\ tx[p].at \in 1..Len(tx[p].batch) /\ Len(tx[p].batch) \in Nat
        /\ Item(p) \in Id /\ Item(p) = Due(tx[p]) /\ Item(p) = tx[p].batch[tx[p].at]
    BY <1>1, <1>2, ItemFacts, BatchFacts DEF Item
  <1>4. ~Known(Item(p))
    BY <1>1, <1>2, <1>3 DEF Looked, JustStored
  <1>5. n \in Nat /\ tx[p].taken \in Seq(Items) /\ DOMAIN tx[p].taken = 1..n
    BY TxFacts
  <1>6. new \in Items /\ new.id = Item(p) /\ new.pos = counter + n + 1
    <2>1. Place(p) = counter + n + 1 /\ Place(p) \in Nat
      BY <1>1, <1>5 DEF Place
    <2> QED
      BY <1>3, <2>1 DEF Items
  <1> HIDE DEF new, n
  <1>7. /\ more \in Seq(Items) /\ DOMAIN more = 1..(n + 1) /\ more[n + 1] = new
        /\ \A i \in 1..n : more[i] = tx[p].taken[i]
    <2> DEFINE s == tx[p].taken
    <2>1. s \in Seq(Items) /\ Len(s) = n /\ more = Append(s, new)
      BY <1>5 DEF n
    <2> HIDE DEF s, more
    <2>2. /\ more \in Seq(Items) /\ DOMAIN more = 1..(n + 1) /\ more[n + 1] = new
          /\ \A i \in 1..n : more[i] = s[i]
      BY <1>5, <1>6, <2>1
    <2> QED
      BY <2>2 DEF s
  <1>8. AfterItem(p) \in Phases /\ AfterItem(p) = IF tx[p].at < Len(tx[p].batch) THEN "hot" ELSE "commit"
    BY DEF AfterItem, Phases
  <1> HIDE DEF more
  <1>9. step \in Tx /\ step.phase = AfterItem(p) /\ step.at = tx[p].at + 1 /\ step.batch = tx[p].batch
    <2> DEFINE phase == AfterItem(p)
               at == tx[p].at + 1
    <2>1. phase \in Phases /\ at \in Nat
      BY <1>1, <1>8 DEF Tx
    <2>2. step = [tx[p] EXCEPT !.phase = phase, !.at = at]
      OBVIOUS
    <2> HIDE DEF phase, at, step
    <2>3. step \in Tx /\ step.phase = phase /\ step.at = at /\ step.batch = tx[p].batch
      BY <1>1, <2>1, <2>2 DEF Tx
    <2> QED
      BY <2>3 DEF phase, at
  <1>10. t = [tx[p] EXCEPT !.phase = AfterItem(p), !.at = @ + 1, !.taken = more]
    BY <1>1 DEF Tx
  <1> HIDE DEF step
  <1>11. t \in Tx /\ t.phase = AfterItem(p) /\ t.at = tx[p].at + 1 /\ t.batch = tx[p].batch /\ t.taken = more
    BY <1>7, <1>9 DEF Tx
  <1>12. tx' = [tx EXCEPT ![p] = t]
    BY <1>2, <1>10
  <1> HIDE DEF t
  <1>13. TxOK(t)
    <2>1. t.at \in 1..(Len(t.batch) + 1) /\ (t.phase # "commit" => t.at <= Len(t.batch)) /\ t.phase # "idle"
      BY <1>3, <1>8, <1>11
    <2>2. ASSUME NEW i \in DOMAIN more
          PROVE  \E j \in DOMAIN t.batch : j < t.at /\ t.batch[j] = more[i].id /\ (i <= n => j < tx[p].at)
      <3>1. CASE i = n + 1
        <4>1. tx[p].at \in DOMAIN t.batch /\ tx[p].at < t.at /\ t.batch[tx[p].at] = more[i].id
          BY <1>3, <1>6, <1>7, <1>11, <3>1, BatchFacts
        <4> QED
          BY <1>5, <3>1, <4>1
      <3>2. CASE i \in 1..n
        <4>1. PICK j \in DOMAIN tx[p].batch : j < tx[p].at /\ tx[p].batch[j] = tx[p].taken[i].id
          BY <1>1, <1>2, <1>5, <3>2 DEF TxOK
        <4>2. j \in Nat /\ j < t.at
          BY <1>3, <1>11, <4>1, BatchFacts
        <4> QED
          BY <1>7, <1>11, <3>2, <4>1, <4>2
      <3> QED
        BY <1>5, <1>7, <3>1, <3>2
    <2>3. ASSUME NEW i \in DOMAIN more, NEW j \in DOMAIN more, more[i].id = more[j].id
          PROVE  i = j
      <3>1. ASSUME NEW k \in 1..n PROVE more[k].id # Item(p)
        <4>1. PICK m \in DOMAIN t.batch : m < tx[p].at /\ t.batch[m] = more[k].id
          BY <1>5, <1>7, <2>2, <3>1
        <4>2. tx[p].at \in DOMAIN t.batch /\ t.batch[tx[p].at] = Item(p) /\ m # tx[p].at
          BY <1>3, <1>11, <4>1, BatchFacts
        <4> QED
          BY <1>3, <1>11, <4>1, <4>2, BatchFacts
      <3>2. CASE i \in 1..n /\ j \in 1..n
        BY <1>1, <1>2, <1>5, <1>7, <2>3, <3>2 DEF TxOK
      <3>3. CASE i = n + 1 \/ j = n + 1
        BY <1>5, <1>6, <1>7, <2>3, <3>1, <3>3
      <3> QED
        BY <1>5, <1>7, <3>2, <3>3
    <2> QED
      BY <1>3, <1>11, <2>1, <2>2, <2>3 DEF TxOK
  <1>14. \A i \in DOMAIN more : more[i].pos = counter + i /\ ~Known(more[i].id)
    <2> SUFFICES ASSUME NEW i \in DOMAIN more PROVE more[i].pos = counter + i /\ ~Known(more[i].id)
      OBVIOUS
    <2>1. CASE i = n + 1
      BY <1>1, <1>4, <1>5, <1>6, <1>7, <2>1
    <2>2. CASE i \in 1..n
      BY <1>1, <1>5, <1>7, <2>2 DEF Numbered, Looked
    <2> QED
      BY <1>5, <1>7, <2>1, <2>2
  <1>15. Looked(t)
    BY <1>8, <1>11, <1>14 DEF Looked
  <1>16. numbering' = p
    BY <1>1, <1>2 DEF Numbered
  <1> QED
    <2>1. /\ \A i \in DOMAIN t.taken : t.taken[i].pos = counter + i
          /\ numbering' \in Publisher \union {NoOne}
          /\ UNCHANGED <<hot, replay, receipt, age, counter, numbering>>
      BY <1>2, <1>11, <1>14, <1>16
    <2> QED
      BY <1>11, <1>12, <1>13, <1>15, <1>16, <2>1, OneTx

LEMMA RollbackStep ==
  ASSUME TypeOK, LogInv, NEW p \in Publisher, Collide(p) \/ Abort(p)
  PROVE  TypeRest' /\ LogInv'
  <1>1. /\ tx' = [tx EXCEPT ![p] = NoTx] /\ numbering' = (IF numbering = p THEN NoOne ELSE numbering)
        /\ UNCHANGED <<hot, replay, receipt, age, counter>>
    BY DEF Collide, Abort, Rollback
  <1>2. numbering' \in Publisher \union {NoOne} /\ \A q \in Publisher \ {p} : numbering = q => numbering' = q
    BY <1>1 DEF TypeOK
  <1> QED
    BY <1>1, <1>2, NoTxFacts, OneTx

-----------------------------------------------------------------------------
(* What a commit makes visible.                                            *)
LEMMA TakenFacts ==
  ASSUME TypeOK, LogInv, NEW p \in Publisher
  PROVE  /\ TakenIds(p) \subseteq Id
         /\ \A id \in TakenIds(p) : /\ PlaceOf(p, id) \in (counter + 1)..(counter + Len(tx[p].taken))
                                    /\ ~Known(id) /\ numbering = p
         /\ Len(tx[p].taken) \in Nat /\ (tx[p].taken = <<>> => TakenIds(p) = {} /\ Len(tx[p].taken) = 0)
         /\ (tx[p].taken # <<>> => numbering = p)
  <1> DEFINE s == tx[p].taken
  <1>1. /\ s \in Seq(Items) /\ Len(s) \in Nat /\ DOMAIN s = 1..Len(s)
        /\ \A i \in DOMAIN s : s[i].id \in Id
    BY TxFacts
  <1>2. TxOK(tx[p]) /\ Numbered(p, tx[p]) /\ Looked(tx[p]) /\ counter \in Nat
    BY DEF LogInv, TypeOK
  <1>3. \A i \in DOMAIN s : s[i].pos = counter + i /\ ~Known(s[i].id)
    BY <1>2 DEF Numbered, Looked
  <1>4. \A i, j \in DOMAIN s : s[i].id = s[j].id => i = j
    <2>1. CASE tx[p].phase = "idle"
      BY <1>2, <2>1, NoTxFacts DEF TxOK
    <2>2. CASE tx[p].phase # "idle"
      BY <1>2, <2>2 DEF TxOK
    <2> QED
      BY <2>1, <2>2
  <1>5. s # <<>> => numbering = p
    BY <1>2 DEF Numbered
  <1>6. /\ TakenIds(p) = {x.id : x \in Range(s)}
        /\ \A id : PlaceOf(p, id) = (CHOOSE x \in Range(s) : x.id = id).pos
    BY DEF TakenIds, PlaceOf
  <1>7. Range(s) = {s[i] : i \in DOMAIN s}
    BY DEF Range
  <1>8. tx[p].taken = s
    OBVIOUS
  <1> HIDE DEF s
  <1>9. ASSUME NEW id \in TakenIds(p)
        PROVE  /\ id \in Id /\ PlaceOf(p, id) \in (counter + 1)..(counter + Len(s)) /\ ~Known(id)
               /\ s # <<>>
    <2>1. PICK i \in DOMAIN s : s[i].id = id
      BY <1>6, <1>7
    <2>2. (CHOOSE x \in Range(s) : x.id = id) = s[i]
      <3>1. s[i] \in Range(s) /\ \A x \in Range(s) : x.id = id => x = s[i]
        BY <1>4, <1>7, <2>1
      <3> QED
        BY <2>1, <3>1
    <2>3. PlaceOf(p, id) = counter + i /\ i \in 1..Len(s)
      BY <1>1, <1>3, <1>6, <2>1, <2>2
    <2> QED
      BY <1>1, <1>2, <1>3, <2>1, <2>3
  <1>10. s = <<>> => TakenIds(p) = {} /\ Len(s) = 0
    BY <1>6, <1>7
  <1> QED
    BY <1>1, <1>5, <1>8, <1>9, <1>10

LEMMA CommitStep ==
  ASSUME TypeOK, LogInv, NEW p \in Publisher, Commit(p)
  PROVE  TypeRest' /\ LogInv'
  <1> DEFINE ids == TakenIds(p)
             n == Len(tx[p].taken)
  <1>1. /\ ids \subseteq Id /\ n \in Nat /\ (tx[p].taken = <<>> => ids = {} /\ n = 0)
        /\ \A id \in ids : PlaceOf(p, id) \in (counter + 1)..(counter + n) /\ ~Known(id)
        /\ tx[p].taken # <<>> => numbering = p
    BY TakenFacts
  <1>2. /\ hot' = [id \in Id |-> IF id \in ids THEN PlaceOf(p, id) ELSE hot[id]]
        /\ receipt' = receipt \union ids /\ replay' = replay
        /\ age' = [id \in Id |-> IF id \in ids THEN 0 ELSE age[id]]
        /\ counter' = counter + n /\ tx' = [tx EXCEPT ![p] = NoTx]
        /\ numbering' = IF numbering = p THEN NoOne ELSE numbering
    BY DEF Commit
  <1> HIDE DEF ids, n
  <1>3. TypeRest
    BY TypeParts
  <1>4. counter \in Nat /\ counter' \in Nat /\ counter <= counter'
    BY <1>1, <1>2, <1>3 DEF TypeRest
  <1>5. ASSUME NEW id \in Id
        PROVE  /\ hot'[id] \in Nat /\ age'[id] \in Nat /\ hot'[id] <= counter' /\ replay'[id] <= counter'
               /\ hot'[id] = 0 \/ replay'[id] = 0
               /\ id \in ids => hot'[id] # 0 /\ age'[id] = 0
               /\ id \notin ids => hot'[id] = hot[id] /\ age'[id] = age[id] /\ (id \in receipt' <=> id \in receipt)
    <2>1. hot[id] <= counter /\ replay[id] <= counter /\ (hot[id] = 0 \/ replay[id] = 0) /\ hot[id] \in Nat /\ replay[id] \in Nat /\ age[id] \in Nat
      BY <1>3 DEF LogInv, TypeRest
    <2>2. CASE id \in ids
      <3>1. hot[id] = 0 /\ replay[id] = 0
        BY <1>1, <2>1, <2>2 DEF Known, Position
      <3>2. hot'[id] = PlaceOf(p, id) /\ age'[id] = 0
        BY <1>2, <2>2
      <3>3. hot'[id] \in (counter + 1)..(counter + n)
        BY <1>1, <2>2, <3>2
      <3> QED
        BY <1>1, <1>2, <1>4, <2>2, <3>1, <3>2, <3>3
    <2>3. CASE id \notin ids
      BY <1>2, <1>4, <2>1, <2>3
    <2> QED
      BY <2>2, <2>3
  <1>6. TypeRest'
    <2>1. hot' \in [Id -> Nat] /\ age' \in [Id -> Nat]
      BY <1>2, <1>5
    <2>2. numbering' \in Publisher \union {NoOne} /\ tx' \in [Publisher -> Tx]
      BY <1>2, <1>3, NoTxFacts DEF TypeRest
    <2>3. receipt' \subseteq Id /\ replay' \in [Id -> Nat]
      BY <1>1, <1>2, <1>3 DEF TypeRest
    <2> QED
      BY <1>4, <2>1, <2>2, <2>3 DEF TypeRest
  <1>7. ASSUME NEW q \in Publisher
        PROVE  TxOK(tx'[q]) /\ Numbered(q, tx[q])' /\ Looked(tx[q])'
    <2>1. CASE q = p
      <3>1. tx'[q] = NoTx
        BY <1>2, <1>3, <2>1 DEF TypeRest
      <3> QED
        BY <3>1, NoTxFacts DEF Numbered, Looked
    <2>2. CASE q # p
      <3>1. tx'[q] = tx[q] /\ TxOK(tx[q]) /\ Numbered(q, tx[q]) /\ Looked(tx[q])
        BY <1>2, <1>3, <2>2 DEF LogInv, TypeRest
      <3>2. tx[p].taken = <<>> \/ tx[q].taken = <<>>
        BY <1>1, <2>2, <3>1 DEF Numbered
      <3>3. DOMAIN tx[q].taken # {} => n = 0 /\ ids = {}
        <4>1. tx[q].taken = <<>> => DOMAIN tx[q].taken = {}
          OBVIOUS
        <4> QED
          BY <1>1, <3>2, <4>1
      <3>4. Numbered(q, tx[q])'
        <4>1. tx[q].taken # <<>> \/ tx[q].phase = "insert" => numbering' = q
          BY <1>2, <2>2, <3>1 DEF Numbered
        <4>2. \A i \in DOMAIN tx[q].taken : tx[q].taken[i].pos = counter' + i
          BY <1>2, <1>3, <3>1, <3>3 DEF Numbered, TypeRest
        <4> QED
          BY <3>1, <4>1, <4>2 DEF Numbered
      <3>5. Looked(tx[q])'
        <4>1. \A i \in DOMAIN tx[q].taken : ~Known(tx[q].taken[i].id)'
          <5> SUFFICES ASSUME NEW i \in DOMAIN tx[q].taken PROVE ~Known(tx[q].taken[i].id)'
            OBVIOUS
          <5>1. ids = {} /\ tx[q].taken[i].id \in Id /\ ~Known(tx[q].taken[i].id)
            BY <3>1, <3>3, TxFacts DEF Looked
          <5> QED
            BY <1>2, <1>5, <5>1, <3>1 DEF Known, Position
        <4>2. CASE tx[q].phase \notin {"replay", "receipt", "number", "insert"}
          BY <3>1, <4>1, <4>2 DEF Looked
        <4>3. CASE tx[q].phase \in {"replay", "receipt", "number", "insert"}
          <5> DEFINE due == tx[q].batch[tx[q].at]
          <5>1. due \in Id /\ due = Due(tx[q])
            BY <3>1, <4>3, ItemFacts DEF Due
          <5>2. ASSUME NEW id \in Id, id = due
                PROVE  /\ tx[q].phase \in {"replay", "receipt"} /\ hot'[id] # 0 => JustStored(id)'
                       /\ tx[q].phase = "receipt" => replay'[id] = 0
                       /\ tx[q].phase \in {"number", "insert"} /\ Known(id)' => JustStored(id)'
            <6>1. /\ id \in ids => JustStored(id)'
                  /\ id \notin ids => (JustStored(id) => JustStored(id)') /\ (Known(id)' => Known(id)) /\ hot'[id] = hot[id]
              BY <1>2, <1>5 DEF JustStored, Known, Position
            <6>2. Looked(tx[q]) /\ Due(tx[q]) = id
              BY <3>1, <5>1, <5>2
            <6> QED
              BY <1>2, <6>1, <6>2 DEF Looked
          <5>3. /\ tx[q].phase \in {"replay", "receipt"} /\ hot'[due] # 0 => hot'[due] # 0 /\ age'[due] = 0
                /\ tx[q].phase = "receipt" => replay'[due] = 0
                /\ tx[q].phase \in {"number", "insert"} /\ (~(IF hot'[due] # 0 THEN hot'[due] ELSE replay'[due]) = 0 \/ due \in receipt')
                      => hot'[due] # 0 /\ age'[due] = 0
            BY <5>1, <5>2 DEF JustStored, Known, Position
          <5> QED
            BY <3>1, <4>1, <5>3 DEF Looked, Known, Position, JustStored, Due
        <4> QED
          BY <4>2, <4>3
      <3> QED
        BY <3>1, <3>4, <3>5
    <2> QED
      BY <2>1, <2>2
  <1> QED
    BY <1>5, <1>6, <1>7 DEF LogInv

-----------------------------------------------------------------------------
(* A step of the log: an id keeps its position or loses it, and only one   *)
(* the log does not know takes a position, beyond all handed out before.   *)
Advances ==
    /\ counter <= counter'
    /\ \A id \in Id : \/ Position(id)' \in {Position(id), 0}
                      \/ ~Known(id) /\ Position(id)' > counter

LEMMA TierFacts ==
  ASSUME TypeOK, NEW id \in Id
  PROVE  hot[id] \in Nat /\ replay[id] \in Nat /\ age[id] \in Nat
  BY DEF TypeOK

LEMMA PublishAdvances ==
  ASSUME TypeOK, LogInv, NEW p \in Publisher, Commit(p)
  PROVE  Advances
  <1> DEFINE ids == TakenIds(p)
             n == Len(tx[p].taken)
  <1>1. ids \subseteq Id /\ n \in Nat /\ \A id \in ids : PlaceOf(p, id) \in (counter + 1)..(counter + n) /\ ~Known(id)
    BY TakenFacts
  <1>2. /\ hot' = [id \in Id |-> IF id \in ids THEN PlaceOf(p, id) ELSE hot[id]] /\ replay' = replay
        /\ counter' = counter + n
    BY DEF Commit
  <1> HIDE DEF ids, n
  <1>3. counter \in Nat
    BY DEF TypeOK
  <1>4. ASSUME NEW id \in Id
        PROVE  Position(id)' \in {Position(id), 0} \/ (~Known(id) /\ Position(id)' > counter)
    <2>1. CASE id \in ids
      <3>1. hot'[id] \in (counter + 1)..(counter + n) /\ ~Known(id)
        BY <1>1, <1>2, <2>1
      <3>2. hot'[id] > counter /\ hot'[id] # 0
        BY <1>1, <1>3, <3>1
      <3> QED
        BY <3>1, <3>2 DEF Position
    <2>2. CASE id \notin ids
      <3>1. hot'[id] = hot[id] /\ replay'[id] = replay[id]
        BY <1>2, <2>2
      <3>2. hot[id] \in Nat /\ replay[id] \in Nat
        BY TierFacts
      <3> QED
        BY <3>1, <3>2 DEF Position
    <2> QED
      BY <2>1, <2>2
  <1> QED
    BY <1>1, <1>2, <1>3, <1>4 DEF Advances

LEMMA StillAdvances ==
  ASSUME TypeOK, UNCHANGED <<hot, replay, counter>>
  PROVE  Advances
  BY DEF Advances, Position, TypeOK

(* Retention takes nothing a publish has just stored or is about to store. *)
LEMMA TierStep ==
  ASSUME TypeOK, LogInv, TypeRest', UNCHANGED <<counter, numbering, tx>>,
         \A id \in Id : /\ hot'[id] \in {hot[id], 0}
                        /\ replay'[id] \in {replay[id], 0} \/ (hot'[id] = 0 /\ hot[id] # 0 /\ replay'[id] = hot[id])
                        /\ hot'[id] # 0 => replay'[id] = replay[id]
                        /\ id \in receipt' => id \in receipt,
         \/ \A p \in Publisher : tx[p].phase = "idle"
         \/ age' = age /\ \A id \in Id : JustStored(id) => hot'[id] = hot[id]
  PROVE  LogInv' /\ Advances
  <1>1. ASSUME NEW id \in Id
        PROVE  /\ hot'[id] <= counter' /\ replay'[id] <= counter' /\ (hot'[id] = 0 \/ replay'[id] = 0)
               /\ Position(id)' \in {Position(id), 0}
               /\ Known(id)' => Known(id)
               /\ hot'[id] # 0 => hot[id] # 0
    <2>1. /\ hot[id] <= counter /\ replay[id] <= counter /\ (hot[id] = 0 \/ replay[id] = 0)
          /\ hot[id] \in Nat /\ replay[id] \in Nat /\ counter \in Nat
      BY TypeParts DEF LogInv, TypeRest
    <2>2. /\ hot'[id] <= counter' /\ replay'[id] <= counter' /\ (hot'[id] = 0 \/ replay'[id] = 0)
          /\ hot'[id] # 0 => hot[id] # 0
      BY <2>1
    <2>3. Position(id)' \in {Position(id), 0}
      BY <2>1 DEF Position
    <2>4. Known(id)' => Known(id)
      BY <2>3 DEF Known
    <2> QED
      BY <2>2, <2>3, <2>4
  <1>2. ASSUME NEW q \in Publisher
        PROVE  TxOK(tx'[q]) /\ Numbered(q, tx[q])' /\ Looked(tx[q])'
    <2>1. tx'[q] = tx[q] /\ TxOK(tx[q]) /\ Numbered(q, tx[q]) /\ Looked(tx[q])
      BY DEF LogInv
    <2>2. Numbered(q, tx[q])'
      BY <2>1 DEF Numbered
    <2>3. CASE tx[q].phase = "idle"
      <3>1. tx'[q] = NoTx
        BY <2>1, <2>3 DEF TxOK
      <3> QED
        BY <2>1, <2>2, <3>1, NoTxFacts DEF Looked
    <2>4. CASE tx[q].phase # "idle"
      <3>1. age' = age /\ \A id \in Id : JustStored(id) => hot'[id] = hot[id]
        BY <2>4
      <3>2. \A i \in DOMAIN tx[q].taken : ~Known(tx[q].taken[i].id)'
        <4> SUFFICES ASSUME NEW i \in DOMAIN tx[q].taken PROVE ~Known(tx[q].taken[i].id)'
          OBVIOUS
        <4> DEFINE old == tx[q].taken[i].id
        <4>1. old \in Id /\ ~Known(old)
          BY <2>1, TxFacts DEF Looked
        <4>2. \A id \in Id : id = old => ~Known(id)'
          BY <1>1, <4>1
        <4> QED
          BY <4>1, <4>2 DEF Known, Position
      <3>3. CASE tx[q].phase = "hot" \/ tx[q].phase = "commit"
        <4>1. tx'[q].phase \notin {"replay", "receipt", "number", "insert"}
          BY <2>1, <3>3
        <4> QED
          BY <2>1, <2>2, <3>2, <4>1 DEF Looked, Known, Position
      <3>4. CASE tx[q].phase \notin {"idle", "hot", "commit"}
        <4> DEFINE due == tx[q].batch[tx[q].at]
        <4>1. due \in Id /\ due = Due(tx[q])
          BY <2>1, <3>4, ItemFacts DEF Due
        <4>2. ASSUME NEW id \in Id, id = due
              PROVE  /\ tx[q].phase \in {"replay", "receipt"} /\ hot'[id] # 0 => JustStored(id)'
                     /\ tx[q].phase = "receipt" => replay'[id] = 0
                     /\ tx[q].phase \in {"number", "insert"} /\ Known(id)' => JustStored(id)'
          <5>1. Looked(tx[q]) /\ Due(tx[q]) = id
            BY <2>1, <4>1, <4>2
          <5>2. JustStored(id) => JustStored(id)'
            BY <3>1 DEF JustStored
          <5>3. tx[q].phase = "receipt" => replay'[id] = 0
            BY <3>1, <5>1 DEF Looked, JustStored
          <5> QED
            BY <1>1, <5>1, <5>2, <5>3 DEF Looked
        <4>3. /\ tx[q].phase \in {"replay", "receipt"} /\ hot'[due] # 0 => hot'[due] # 0 /\ age'[due] = 0
              /\ tx[q].phase = "receipt" => replay'[due] = 0
              /\ tx[q].phase \in {"number", "insert"} /\ (~(IF hot'[due] # 0 THEN hot'[due] ELSE replay'[due]) = 0 \/ due \in receipt')
                    => hot'[due] # 0 /\ age'[due] = 0
          BY <4>1, <4>2 DEF JustStored, Known, Position
        <4> QED
          BY <2>1, <2>2, <3>2, <4>3 DEF Looked, Known, Position, JustStored, Due
      <3> QED
        BY <2>1, <2>2, <2>4, <3>3, <3>4
    <2> QED
      BY <2>3, <2>4
  <1>3. Advances
    BY <1>1 DEF Advances, TypeOK
  <1> QED
    BY <1>1, <1>2, <1>3 DEF LogInv

LEMMA TickStep ==
  ASSUME TypeOK, LogInv, Tick
  PROVE  TypeRest' /\ LogInv' /\ Advances
  <1>1. /\ UNCHANGED <<hot, replay, receipt, counter, numbering, tx>> /\ \A p \in Publisher : tx[p].phase = "idle"
        /\ age' = [id \in Id |-> IF Known(id) /\ age[id] < MaxAge THEN age[id] + 1 ELSE age[id]]
    BY DEF Tick
  <1>2. age' \in [Id -> Nat]
    BY <1>1, TypeParts DEF TypeRest
  <1>3. TypeRest'
    BY <1>1, <1>2, TypeParts DEF TypeRest
  <1>4. \A id \in Id : /\ hot'[id] \in {hot[id], 0}
                       /\ replay'[id] \in {replay[id], 0} \/ (hot'[id] = 0 /\ hot[id] # 0 /\ replay'[id] = hot[id])
                       /\ hot'[id] # 0 => replay'[id] = replay[id]
                       /\ id \in receipt' => id \in receipt
    BY <1>1, TierFacts
  <1>5. UNCHANGED <<counter, numbering, tx>> /\ \A p \in Publisher : tx[p].phase = "idle"
    BY <1>1
  <1> QED
    BY <1>3, <1>4, <1>5, TierStep

LEMMA MoveStep ==
  ASSUME TypeOK, LogInv, NEW ids \in SUBSET Id, Move(ids)
  PROVE  TypeRest' /\ LogInv' /\ Advances
  <1>1. /\ UNCHANGED <<receipt, age, counter, numbering, tx>> /\ ids \subseteq HotOver
        /\ replay' = [id \in Id |-> IF id \in ids /\ replay[id] = 0 THEN hot[id] ELSE replay[id]]
        /\ hot' = [id \in Id |-> IF id \in ids THEN 0 ELSE hot[id]]
    BY DEF Move
  <1>2. TypeRest'
    <2>1. hot' \in [Id -> Nat] /\ replay' \in [Id -> Nat]
      BY <1>1, TypeParts DEF TypeRest
    <2> QED
      BY <1>1, <2>1, TypeParts DEF TypeRest
  <1>3. ASSUME NEW id \in Id
        PROVE  /\ hot'[id] \in {hot[id], 0}
               /\ replay'[id] \in {replay[id], 0} \/ (hot'[id] = 0 /\ hot[id] # 0 /\ replay'[id] = hot[id])
               /\ hot'[id] # 0 => replay'[id] = replay[id]
               /\ id \in receipt' => id \in receipt
    <2>1. hot[id] = 0 \/ replay[id] = 0
      BY DEF LogInv
    <2>2. id \in ids => hot[id] # 0
      BY <1>1 DEF HotOver
    <2> QED
      BY <1>1, <2>1, <2>2, TierFacts
  <1>4. \A id \in Id : JustStored(id) => hot'[id] = hot[id]
    BY <1>1, LogBounds DEF HotOver, JustStored
  <1>5. UNCHANGED <<counter, numbering, tx>> /\ age' = age
    BY <1>1
  <1> QED
    BY <1>2, <1>3, <1>4, <1>5, TierStep

LEMMA DropHotStep ==
  ASSUME TypeOK, LogInv, NEW ids \in SUBSET Id, DropHot(ids), \A id \in ids : age[id] # 0
  PROVE  TypeRest' /\ LogInv' /\ Advances
  <1>1. /\ UNCHANGED <<replay, receipt, age, counter, numbering, tx>>
        /\ hot' = [id \in Id |-> IF id \in ids THEN 0 ELSE hot[id]]
    BY DEF DropHot
  <1>2. hot' \in [Id -> Nat]
    BY <1>1, TypeParts DEF TypeRest
  <1>3. TypeRest'
    BY <1>1, <1>2, TypeParts DEF TypeRest
  <1>4. \A id \in Id : JustStored(id) => hot'[id] = hot[id]
    BY <1>1 DEF JustStored
  <1> QED
    BY <1>1, <1>3, <1>4, TierStep

LEMMA PruneStep ==
  ASSUME TypeOK, LogInv, Prune
  PROVE  TypeRest' /\ LogInv' /\ Advances
  <1>1. ASSUME NEW ids \in SUBSET Id, Move(ids) PROVE TypeRest' /\ LogInv' /\ Advances
    BY <1>1, MoveStep
  <1>2. CASE DropSandbox
    <2>1. Min({HotAge, SandboxAge}) \in Nat \ {0}
      <3> DEFINE S == {HotAge, SandboxAge}
      <3>1. S \in SUBSET Nat /\ S # {} /\ 0 \notin S
        BY LogBounds
      <3>2. Min(S) \in S
        <4> HIDE DEF S
        <4> QED
          BY <3>1, MinIs
      <3> QED
        BY <3>1, <3>2
    <2>2. SandboxOver \in SUBSET Id /\ \A id \in SandboxOver : age[id] # 0
      <3> DEFINE least == Min({HotAge, SandboxAge})
      <3>1. SandboxOver = {id \in Sandbox : hot[id] # 0 /\ age[id] >= least} /\ least \in Nat \ {0}
        BY <2>1 DEF SandboxOver
      <3> HIDE DEF least
      <3>2. Sandbox \subseteq Id /\ age \in [Id -> Nat]
        BY LogShape DEF TypeOK
      <3> QED
        BY <3>1, <3>2
    <2> QED
      BY <1>2, <2>2, DropHotStep DEF DropSandbox
  <1>3. CASE DropUntiered
    <2>1. HotOver \in SUBSET Id /\ \A id \in HotOver : age[id] # 0
      BY LogBounds DEF HotOver
    <2> QED
      BY <1>3, <2>1, DropHotStep DEF DropUntiered
  <1>4. ASSUME NEW limit \in ReplayAges, DropReplay(limit) PROVE TypeRest' /\ LogInv' /\ Advances
    <2>1. /\ UNCHANGED <<hot, receipt, age, counter, numbering, tx>>
          /\ replay' = [id \in Id |-> IF id \in ReplayOver(limit) THEN 0 ELSE replay[id]]
          /\ \A id \in ReplayOver(limit) : replay[id] # 0
      BY <1>4 DEF DropReplay, ReplayOver
    <2>2. replay' \in [Id -> Nat]
      BY <2>1, TypeParts DEF TypeRest
    <2>3. TypeRest'
      BY <2>1, <2>2, TypeParts DEF TypeRest
    <2>4. \A id \in Id : hot[id] = 0 \/ replay[id] = 0
      BY DEF LogInv
    <2>5. \A id \in Id : /\ hot'[id] \in {hot[id], 0}
                         /\ replay'[id] \in {replay[id], 0} \/ (hot'[id] = 0 /\ hot[id] # 0 /\ replay'[id] = hot[id])
                         /\ hot'[id] # 0 => replay'[id] = replay[id]
                         /\ id \in receipt' => id \in receipt
      BY <2>1, <2>4, TierFacts
    <2>6. UNCHANGED <<counter, numbering, tx>> /\ age' = age /\ \A id \in Id : JustStored(id) => hot'[id] = hot[id]
      BY <2>1
    <2> QED
      BY <2>3, <2>5, <2>6, TierStep
  <1>5. CASE DropReceipts
    <2>1. UNCHANGED <<hot, replay, age, counter, numbering, tx>> /\ receipt' \subseteq receipt
      BY <1>5 DEF DropReceipts
    <2>2. TypeRest'
      BY <2>1, TypeParts DEF TypeRest
    <2>3. \A id \in Id : /\ hot'[id] \in {hot[id], 0}
                         /\ replay'[id] \in {replay[id], 0} \/ (hot'[id] = 0 /\ hot[id] # 0 /\ replay'[id] = hot[id])
                         /\ hot'[id] # 0 => replay'[id] = replay[id]
                         /\ id \in receipt' => id \in receipt
      BY <2>1, TierFacts
    <2>4. UNCHANGED <<counter, numbering, tx>> /\ age' = age /\ \A id \in Id : JustStored(id) => hot'[id] = hot[id]
      BY <2>1
    <2> QED
      BY <2>2, <2>3, <2>4, TierStep
  <1> QED
    BY <1>1, <1>2, <1>3, <1>4, <1>5 DEF Prune

(* Every step of the log, readers aside.                                   *)
LogStep ==
    \/ \E p \in Publisher, batch \in Batches : Begin(p, batch)
    \/ \E p \in Publisher : PublishStep(p) \/ Abort(p)
    \/ Tick \/ Prune

LEMMA LogSteps ==
  ASSUME TypeOK, LogInv, LogStep
  PROVE  TypeRest' /\ LogInv' /\ Advances /\ UNCHANGED readerVars
  <1>1. ASSUME NEW p \in Publisher, NEW batch \in Batches, Begin(p, batch)
        PROVE  TypeRest' /\ LogInv' /\ Advances /\ UNCHANGED readerVars
    <2>1. UNCHANGED <<hot, replay, counter>> /\ UNCHANGED readerVars
      BY <1>1 DEF Begin, logVars
    <2> QED
      BY <1>1, <2>1, BeginStep, StillAdvances
  <1>2. ASSUME NEW p \in Publisher, FindHot(p) \/ FindReplay(p) \/ FindReceipt(p)
        PROVE  TypeRest' /\ LogInv' /\ Advances /\ UNCHANGED readerVars
    <2>1. UNCHANGED <<hot, replay, counter>> /\ UNCHANGED readerVars
      BY <1>2 DEF FindHot, FindReplay, FindReceipt, logVars
    <2> QED
      BY <1>2, <2>1, FindStep, StillAdvances
  <1>3. ASSUME NEW p \in Publisher, Number(p)
        PROVE  TypeRest' /\ LogInv' /\ Advances /\ UNCHANGED readerVars
    <2>1. UNCHANGED <<hot, replay, counter>> /\ UNCHANGED readerVars
      BY <1>3 DEF Number, readerVars
    <2> QED
      BY <1>3, <2>1, NumberStep, StillAdvances
  <1>4. ASSUME NEW p \in Publisher, Insert(p)
        PROVE  TypeRest' /\ LogInv' /\ Advances /\ UNCHANGED readerVars
    <2>1. UNCHANGED <<hot, replay, counter>> /\ UNCHANGED readerVars
      BY <1>4 DEF Insert, logVars
    <2> QED
      BY <1>4, <2>1, InsertStep, StillAdvances
  <1>5. ASSUME NEW p \in Publisher, Collide(p) \/ Abort(p)
        PROVE  TypeRest' /\ LogInv' /\ Advances /\ UNCHANGED readerVars
    <2>1. UNCHANGED <<hot, replay, counter>> /\ UNCHANGED readerVars
      BY <1>5 DEF Collide, Abort, readerVars
    <2> QED
      BY <1>5, <2>1, RollbackStep, StillAdvances
  <1>6. ASSUME NEW p \in Publisher, Commit(p)
        PROVE  TypeRest' /\ LogInv' /\ Advances /\ UNCHANGED readerVars
    <2>1. UNCHANGED readerVars
      BY <1>6 DEF Commit, readerVars
    <2> QED
      BY <1>6, <2>1, CommitStep, PublishAdvances
  <1>7. CASE Tick
    <2>1. UNCHANGED readerVars
      BY <1>7 DEF Tick, readerVars
    <2> QED
      BY <1>7, <2>1, TickStep
  <1>8. CASE Prune
    <2>1. UNCHANGED readerVars
      BY <1>8 DEF Prune, Move, DropSandbox, DropUntiered, DropHot, DropReplay, DropReceipts, readerVars
    <2> QED
      BY <1>8, <2>1, PruneStep
  <1> QED
    BY <1>1, <1>2, <1>3, <1>4, <1>5, <1>6, <1>7, <1>8 DEF LogStep, PublishStep

-----------------------------------------------------------------------------
(* The readers.                                                            *)
Pulls == [phase : {"idle", "oldest", "empty", "scan", "head", "answer"}, narrow : BOOLEAN,
          from : Nat, at : Nat, rows : SUBSET Id, scanned : Nat, gap : SUBSET Nat, began : Nat]

LEMMA PullFacts ==
  ASSUME TypeOK, LogInv, ReadInv, NEW r \in Reader
  PROVE  /\ pull[r] \in Pulls /\ cursor[r] \in Nat /\ counter \in Nat /\ cursor[r] <= counter /\ Scanned(r)
         /\ pull[r].from \in Nat /\ pull[r].at \in Nat /\ pull[r].rows \in SUBSET Id /\ pull[r].scanned \in Nat
         /\ pull[r].gap \in SUBSET Nat /\ pull[r].began \in Nat /\ pull[r].narrow \in BOOLEAN
         /\ overtaken[r] \in SUBSET Nat /\ seen[r] \in SUBSET Id /\ missed[r] \in SUBSET Nat
  <1>1. pull[r] \in Pulls /\ cursor[r] \in Nat /\ counter \in Nat /\ overtaken[r] \in SUBSET Nat
    BY DEF TypeOK, Pulls
  <1>2. seen[r] \in SUBSET Id /\ missed[r] \in SUBSET Nat
    BY DEF TypeOK
  <1>3. cursor[r] <= counter /\ Scanned(r)
    BY DEF ReadInv
  <1> QED
    BY <1>1, <1>2, <1>3 DEF Pulls

LEMMA PositionFacts ==
  ASSUME TypeOK, LogInv, NEW id \in Id
  PROVE  Position(id) \in Nat /\ Position(id) <= counter /\ counter \in Nat
  <1>1. hot[id] \in Nat /\ replay[id] \in Nat /\ hot[id] <= counter /\ replay[id] <= counter /\ counter \in Nat
    BY TierFacts DEF LogInv, TypeOK
  <1> QED
    BY <1>1 DEF Position

(* Whatever the log does, nothing appears behind a cursor or a request.    *)
LEMMA ReadersStay ==
  ASSUME TypeOK, LogInv, ReadInv, Advances, TypeRest', UNCHANGED readerVars
  PROVE  TypeReads' /\ ReadInv'
  <1>1. UNCHANGED <<pull, cursor, seen, missed, overtaken>>
    BY DEF readerVars
  <1>2. TypeReads'
    BY <1>1, TypeParts DEF TypeReads
  <1>3. counter \in Nat /\ counter' \in Nat /\ counter <= counter'
    BY TypeParts DEF TypeRest, Advances
  <1>4. ASSUME NEW id \in Id
        PROVE  /\ Position(id)' \in Nat /\ Position(id) \in Nat
               /\ Position(id)' = Position(id) \/ Position(id)' = 0 \/ Position(id)' > counter
    <2>1. hot'[id] \in Nat /\ replay'[id] \in Nat
      BY DEF TypeRest
    <2>2. Position(id)' \in Nat
      BY <2>1 DEF Position
    <2> QED
      BY <2>2, PositionFacts DEF Advances
  <1>5. Wanted \subseteq Id
    BY LogShape
  <1>6. ASSUME NEW r \in Reader
        PROVE  cursor'[r] <= counter' /\ Scanned(r)'
    <2> DEFINE q == pull[r]
    <2>1. pull'[r] = pull[r] /\ cursor'[r] = cursor[r] /\ overtaken'[r] = overtaken[r]
      BY <1>1
    <2>2. /\ cursor[r] \in Nat /\ cursor[r] <= counter /\ Scanned(r)
          /\ q.from \in Nat /\ q.at \in Nat /\ q.began \in Nat
      BY PullFacts
    <2>3. q.phase # "idle" => q.from = cursor'[r] /\ q.began <= counter'
      BY <1>3, <2>1, <2>2 DEF Scanned
    <2>4. q.phase \in {"scan", "head", "answer"} => q.at <= counter'
      BY <1>3, <2>2 DEF Scanned
    <2>5. ASSUME NEW id \in Wanted, q.phase \in {"scan", "head", "answer"}, Position(id)' > q.from, Position(id)' <= q.at
          PROVE  Accounted(r, id)'
      <3>1. Position(id)' = Position(id)
        BY <1>3, <1>4, <1>5, <2>2, <2>5 DEF Scanned
      <3>2. Accounted(r, id)
        BY <2>2, <2>5, <3>1 DEF Scanned
      <3> QED
        BY <2>1, <3>1, <3>2 DEF Accounted
    <2>6. ASSUME NEW id \in Wanted, q.phase = "head", Position(id)' > q.from
          PROVE  Accounted(r, id)' \/ Position(id)' > q.began
      <3>1. CASE Position(id)' > counter
        BY <1>3, <1>4, <1>5, <2>2, <2>6, <3>1 DEF Scanned
      <3>2. CASE Position(id)' = Position(id)
        <4>1. Accounted(r, id) \/ Position(id) > q.began
          BY <2>2, <2>6, <3>2 DEF Scanned
        <4> QED
          BY <2>1, <3>2, <4>1 DEF Accounted
      <3> QED
        BY <1>4, <1>5, <2>2, <2>6, <3>1, <3>2
    <2>7. cursor'[r] <= counter'
      BY <1>3, <2>1, <2>2
    <2> QED
      BY <2>1, <2>3, <2>4, <2>5, <2>6, <2>7 DEF Scanned
  <1>7. PullMissesNothing'
    <2> SUFFICES ASSUME NEW r \in Reader, NEW id \in Wanted, Position(id)' # 0, Position(id)' <= cursor'[r]
                 PROVE  id \in seen'[r] \/ Position(id)' \in missed'[r] \union overtaken'[r]
      BY DEF PullMissesNothing
    <2>1. cursor[r] \in Nat /\ cursor[r] <= counter /\ cursor'[r] = cursor[r]
      BY <1>1, PullFacts
    <2>2. Position(id)' = Position(id)
      BY <1>3, <1>4, <1>5, <2>1
    <2> QED
      BY <1>1, <2>1, <2>2 DEF ReadInv, PullMissesNothing
  <1> QED
    BY <1>2, <1>6, <1>7 DEF ReadInv

(* A statement of one request, which nobody was given the rows of yet.     *)
LEMMA OneReader ==
  ASSUME TypeOK, LogInv, ReadInv, NEW r \in Reader, NEW q \in Pulls, pull' = [pull EXCEPT ![r] = q],
         UNCHANGED <<hot, replay, counter, cursor, seen, missed>>,
         NEW late \in SUBSET Nat, overtaken' = [overtaken EXCEPT ![r] = late], overtaken[r] \subseteq late,
         q.phase # "idle" => q.from = cursor[r] /\ q.began <= counter,
         q.phase \in {"scan", "head", "answer"} =>
            /\ q.at <= counter
            /\ \A id \in Wanted : Position(id) > q.from /\ Position(id) <= q.at =>
                  id \in q.rows \/ Position(id) \in q.gap \union late,
         q.phase = "head" =>
            \A id \in Wanted : Position(id) > q.from =>
               id \in q.rows \/ Position(id) \in q.gap \union late \/ Position(id) > q.began
  PROVE  TypeReads' /\ ReadInv'
  <1>1. /\ pull \in [Reader -> Pulls] /\ cursor \in [Reader -> Nat] /\ seen \in [Reader -> SUBSET Id]
        /\ missed \in [Reader -> SUBSET Nat] /\ overtaken \in [Reader -> SUBSET Nat]
    BY TypeParts DEF TypeReads, Pulls
  <1>2. pull' \in [Reader -> Pulls] /\ overtaken' \in [Reader -> SUBSET Nat]
    BY <1>1
  <1>3. TypeReads'
    BY <1>1, <1>2 DEF TypeReads, Pulls
  <1>4. /\ pull'[r] = q /\ overtaken'[r] = late
        /\ \A s \in Reader \ {r} : pull'[s] = pull[s] /\ overtaken'[s] = overtaken[s]
    BY <1>1
  <1>5. \A id \in Id : Position(id)' = Position(id)
    BY DEF Position
  <1>6. Wanted \subseteq Id
    BY LogShape
  <1>7. ASSUME NEW s \in Reader
        PROVE  cursor'[s] <= counter' /\ Scanned(s)'
    <2>1. CASE s = r
      <3>1. cursor[r] <= counter
        BY PullFacts
      <3>2. \A id \in Wanted : Accounted(r, id)' <=> id \in q.rows \/ Position(id) \in q.gap \union late
        BY <1>4, <1>5, <1>6 DEF Accounted
      <3> QED
        BY <1>4, <1>5, <1>6, <2>1, <3>1, <3>2 DEF Scanned
    <2>2. CASE s # r
      <3>1. Scanned(s) /\ cursor[s] <= counter /\ pull'[s] = pull[s] /\ overtaken'[s] = overtaken[s]
        BY <1>4, <2>2, PullFacts
      <3>2. \A id \in Wanted : Accounted(s, id)' <=> Accounted(s, id)
        BY <1>5, <1>6, <3>1 DEF Accounted
      <3> QED
        BY <1>5, <1>6, <3>1, <3>2 DEF Scanned
    <2> QED
      BY <2>1, <2>2
  <1>8. PullMissesNothing'
    <2> SUFFICES ASSUME NEW s \in Reader, NEW id \in Wanted, Position(id)' # 0, Position(id)' <= cursor'[s]
                 PROVE  id \in seen'[s] \/ Position(id)' \in missed'[s] \union overtaken'[s]
      BY DEF PullMissesNothing
    <2>1. id \in seen[s] \/ Position(id) \in missed[s] \union overtaken[s]
      BY <1>5, <1>6 DEF ReadInv, PullMissesNothing
    <2>2. overtaken[s] \subseteq overtaken'[s]
      BY <1>4
    <2> QED
      BY <1>5, <1>6, <2>1, <2>2
  <1> QED
    BY <1>3, <1>7, <1>8 DEF ReadInv

(* A request begins, or its answer is lost.                                *)
LEMMA PullStep ==
  ASSUME TypeOK, LogInv, ReadInv, NEW r \in Reader, Pull(r) \/ Lose(r)
  PROVE  TypeReads' /\ ReadInv'
  <1>1. /\ UNCHANGED <<hot, replay, counter, cursor, seen, missed, overtaken>>
    BY DEF Pull, Lose, logVars
  <1>2. overtaken' = [overtaken EXCEPT ![r] = overtaken[r]] /\ overtaken[r] \in SUBSET Nat
    BY <1>1, PullFacts, TypeParts DEF TypeReads
  <1>3. cursor[r] \in Nat /\ counter \in Nat
    BY PullFacts
  <1>4. NoPull \in Pulls /\ NoPull.phase = "idle"
    BY DEF NoPull, Pulls
  <1>5. CASE Lose(r)
    <2>1. pull' = [pull EXCEPT ![r] = NoPull]
      BY <1>5 DEF Lose
    <2> QED
      BY <1>1, <1>2, <1>4, <2>1, OneReader
  <1>6. ASSUME NEW narrow \in BOOLEAN,
               pull' = [pull EXCEPT ![r] = [NoPull EXCEPT !.phase = "oldest", !.narrow = narrow, !.from = cursor[r], !.began = counter]]
        PROVE  TypeReads' /\ ReadInv'
    <2> DEFINE u == [NoPull EXCEPT !.phase = "oldest", !.narrow = narrow]
               q == [u EXCEPT !.from = cursor[r], !.began = counter]
    <2>1. u \in Pulls /\ u.phase = "oldest"
      BY <1>4 DEF Pulls
    <2>2. q = [NoPull EXCEPT !.phase = "oldest", !.narrow = narrow, !.from = cursor[r], !.began = counter]
      BY <1>4 DEF Pulls
    <2> HIDE DEF u
    <2>3. q \in Pulls /\ q.phase = "oldest" /\ q.from = cursor[r] /\ q.began = counter
      BY <1>3, <2>1 DEF Pulls
    <2>4. pull' = [pull EXCEPT ![r] = q]
      BY <1>6, <2>2
    <2>5. q.began <= counter /\ q.phase \notin {"scan", "head", "answer"} /\ q.phase # "head"
      BY <1>3, <2>3
    <2> HIDE DEF q
    <2> QED
      BY <1>1, <1>2, <2>3, <2>4, <2>5, OneReader
  <1>7. Narrow \subseteq BOOLEAN
    BY LogBounds
  <1> QED
    BY <1>5, <1>6, <1>7 DEF Pull

(* The scan starts at the cursor or after the gap, which it was told of.   *)
LEMMA ScanFromStep ==
  ASSUME TypeOK, LogInv, ReadInv, NEW r \in Reader, pull[r].phase # "idle",
         NEW oldest \in 1..(counter + 1), ScanFrom(r, oldest),
         UNCHANGED <<hot, replay, counter, cursor, seen, missed, overtaken>>
  PROVE  TypeReads' /\ ReadInv'
  <1> DEFINE from == pull[r].from
             at == Max({from, oldest - 1})
             gap == IF from < oldest - 1 THEN (from + 1)..(oldest - 1) ELSE {}
             u == [pull[r] EXCEPT !.phase = "scan", !.at = at]
             q == [u EXCEPT !.gap = gap]
  <1>1. /\ pull[r] \in Pulls /\ from \in Nat /\ counter \in Nat /\ cursor[r] <= counter /\ cursor[r] \in Nat
        /\ from = cursor[r] /\ pull[r].began <= counter /\ overtaken[r] \in SUBSET Nat
    BY PullFacts DEF Scanned
  <1>2. oldest - 1 \in Nat /\ oldest - 1 <= counter
    BY <1>1
  <1>3. at = IF from <= oldest - 1 THEN oldest - 1 ELSE from
    <2> HIDE DEF from
    <2> QED
      BY <1>1, <1>2, MaxOfTwo
  <1>4. gap \in SUBSET Nat
    BY <1>1, <1>2
  <1>5. pull' = [pull EXCEPT ![r] = [pull[r] EXCEPT !.phase = "scan", !.at = at, !.gap = gap]]
    BY DEF ScanFrom
  <1> HIDE DEF at
  <1>6. at \in Nat /\ at <= counter /\ \A n \in Nat : n > from /\ n <= at => n \in gap
    BY <1>1, <1>2, <1>3
  <1> HIDE DEF gap, from
  <1>7. [pull[r] EXCEPT !.phase = "scan", !.at = at, !.gap = gap] = q
    BY <1>1 DEF Pulls
  <1>8. u \in Pulls /\ u.phase = "scan" /\ u.at = at /\ u.from = from /\ u.began = pull[r].began
    BY <1>1, <1>6 DEF Pulls, from
  <1> HIDE DEF u
  <1>9. q \in Pulls /\ q.phase = "scan" /\ q.at = at /\ q.from = from /\ q.began = pull[r].began /\ q.gap = gap
    BY <1>4, <1>8 DEF Pulls
  <1>10. pull' = [pull EXCEPT ![r] = q]
    BY <1>5, <1>7
  <1> HIDE DEF q
  <1>11. \A id \in Wanted : Position(id) > q.from /\ Position(id) <= q.at =>
            id \in q.rows \/ Position(id) \in q.gap \union overtaken[r]
    BY <1>6, <1>9, PositionFacts, LogShape
  <1>12. overtaken' = [overtaken EXCEPT ![r] = overtaken[r]]
    BY TypeParts DEF TypeReads
  <1> QED
    BY <1>1, <1>6, <1>9, <1>10, <1>11, <1>12, OneReader, ZenonT(60)

LEMMA OldestStep ==
  ASSUME TypeOK, LogInv, ReadInv, NEW r \in Reader, Oldest(r) \/ NextToCome(r)
  PROVE  TypeReads' /\ ReadInv'
  <1>1. /\ UNCHANGED <<hot, replay, counter, cursor, seen, missed, overtaken>> /\ pull[r].phase # "idle"
    BY DEF Oldest, NextToCome, logVars
  <1>2. counter \in Nat
    BY PullFacts
  <1>3. CASE NextToCome(r)
    <2>1. ScanFrom(r, counter + 1) /\ counter + 1 \in 1..(counter + 1)
      BY <1>2, <1>3 DEF NextToCome
    <2> QED
      BY <1>1, <2>1, ScanFromStep
  <1>4. CASE Oldest(r) /\ Stored = {}
    <2> DEFINE q == [pull[r] EXCEPT !.phase = "empty"]
    <2>1. pull' = [pull EXCEPT ![r] = q]
      BY <1>4 DEF Oldest
    <2>2. pull[r] \in Pulls /\ pull[r].from = cursor[r] /\ pull[r].began <= counter /\ overtaken[r] \in SUBSET Nat
      BY <1>1, PullFacts DEF Scanned
    <2>3. q \in Pulls /\ q.phase = "empty" /\ q.from = cursor[r] /\ q.began <= counter
      BY <2>2 DEF Pulls
    <2>4. overtaken' = [overtaken EXCEPT ![r] = overtaken[r]]
      BY <1>1, TypeParts DEF TypeReads
    <2> HIDE DEF q
    <2> QED
      BY <1>1, <2>1, <2>2, <2>3, <2>4, OneReader
  <1>5. CASE Oldest(r) /\ Stored # {}
    <2> DEFINE S == {Position(id) : id \in Stored}
    <2>1. \A id \in Stored : id \in Id /\ Position(id) \in 1..counter
      BY PositionFacts DEF Stored
    <2>2. S \in SUBSET Nat /\ S # {} /\ \A n \in S : n \in 1..(counter + 1)
      BY <1>2, <1>5, <2>1
    <2>3. ScanFrom(r, Min(S))
      BY <1>5 DEF Oldest
    <2> HIDE DEF S
    <2>4. Min(S) \in 1..(counter + 1)
      BY <2>2, MinIs
    <2> QED
      BY <1>1, <2>3, <2>4, ScanFromStep
  <1> QED
    BY <1>3, <1>4, <1>5 DEF Oldest

LEMMA ToHeadStep ==
  ASSUME TypeOK, LogInv, ReadInv, NEW r \in Reader, ToHead(r)
  PROVE  TypeReads' /\ ReadInv'
  <1> DEFINE at == Max({pull[r].at, counter})
             q == [pull[r] EXCEPT !.at = at, !.phase = "answer"]
             late == overtaken[r] \union ((pull[r].began + 1)..counter)
  <1>1. /\ UNCHANGED <<hot, replay, counter, cursor, seen, missed>> /\ pull[r].phase = "head"
        /\ pull' = [pull EXCEPT ![r] = [pull[r] EXCEPT !.at = Max({@, counter}), !.phase = "answer"]]
        /\ overtaken' = [overtaken EXCEPT ![r] = late]
    BY DEF ToHead, logVars
  <1>2. /\ pull[r] \in Pulls /\ pull[r].from = cursor[r] /\ pull[r].began <= counter /\ pull[r].began \in Nat
        /\ pull[r].at \in Nat /\ pull[r].at <= counter /\ counter \in Nat /\ overtaken[r] \in SUBSET Nat
        /\ \A id \in Wanted : Position(id) > pull[r].from => Accounted(r, id) \/ Position(id) > pull[r].began
    BY <1>1, PullFacts DEF Scanned
  <1>3. at = counter
    BY <1>2, MaxOfTwo
  <1>4. pull' = [pull EXCEPT ![r] = q]
    BY <1>1, <1>2 DEF Pulls
  <1> HIDE DEF at
  <1>5. /\ q \in Pulls /\ q.phase = "answer" /\ q.at = counter /\ q.from = pull[r].from /\ q.began = pull[r].began
        /\ q.rows = pull[r].rows /\ q.gap = pull[r].gap
    BY <1>2, <1>3 DEF Pulls
  <1> HIDE DEF q
  <1>6. late \in SUBSET Nat /\ overtaken[r] \subseteq late
    BY <1>2
  <1>7. ASSUME NEW id \in Wanted, Position(id) > q.from
        PROVE  id \in q.rows \/ Position(id) \in q.gap \union late
    <2>1. Accounted(r, id) \/ Position(id) > pull[r].began
      BY <1>2, <1>5, <1>7
    <2>2. Position(id) \in Nat /\ Position(id) <= counter
      BY PositionFacts, LogShape
    <2> QED
      BY <1>2, <1>5, <2>1, <2>2 DEF Accounted
  <1> HIDE DEF late
  <1>8. q.phase # "head" /\ q.at <= counter /\ q.from = cursor[r] /\ q.began <= counter
    BY <1>2, <1>5
  <1>9. overtaken' = [overtaken EXCEPT ![r] = late] /\ UNCHANGED <<hot, replay, counter, cursor, seen, missed>>
    BY <1>1
  <1> QED
    BY <1>4, <1>5, <1>6, <1>7, <1>8, <1>9, OneReader

LEMMA AnswerStep ==
  ASSUME TypeOK, LogInv, ReadInv, NEW r \in Reader, Answer(r)
  PROVE  TypeReads' /\ ReadInv'
  <1>1. /\ UNCHANGED <<hot, replay, counter, overtaken>> /\ pull[r].phase = "answer"
        /\ cursor' = [cursor EXCEPT ![r] = pull[r].at]
        /\ seen' = [seen EXCEPT ![r] = seen[r] \union pull[r].rows]
        /\ missed' = [missed EXCEPT ![r] = missed[r] \union pull[r].gap]
        /\ pull' = [pull EXCEPT ![r] = NoPull]
    BY DEF Answer, logVars
  <1>2. /\ pull[r].from = cursor[r] /\ pull[r].at \in Nat /\ pull[r].at <= counter /\ counter \in Nat /\ cursor[r] \in Nat
        /\ pull[r].rows \in SUBSET Id /\ pull[r].gap \in SUBSET Nat /\ seen[r] \in SUBSET Id /\ missed[r] \in SUBSET Nat
        /\ \A id \in Wanted : Position(id) > cursor[r] /\ Position(id) <= pull[r].at => Accounted(r, id)
    BY <1>1, PullFacts DEF Scanned
  <1>3. NoPull \in Pulls /\ NoPull.phase = "idle"
    BY DEF NoPull, Pulls
  <1>4. /\ pull \in [Reader -> Pulls] /\ cursor \in [Reader -> Nat] /\ seen \in [Reader -> SUBSET Id]
        /\ missed \in [Reader -> SUBSET Nat] /\ overtaken \in [Reader -> SUBSET Nat]
    BY TypeParts DEF TypeReads, Pulls
  <1>5. TypeReads'
    <2>1. pull' \in [Reader -> Pulls] /\ cursor' \in [Reader -> Nat]
      BY <1>1, <1>2, <1>3, <1>4
    <2>2. seen' \in [Reader -> SUBSET Id] /\ missed' \in [Reader -> SUBSET Nat]
      BY <1>1, <1>2, <1>4
    <2> QED
      BY <1>1, <1>4, <2>1, <2>2 DEF TypeReads, Pulls
  <1>6. /\ pull'[r] = NoPull /\ cursor'[r] = pull[r].at
        /\ seen'[r] = seen[r] \union pull[r].rows /\ missed'[r] = missed[r] \union pull[r].gap
        /\ \A s \in Reader \ {r} : pull'[s] = pull[s] /\ cursor'[s] = cursor[s] /\ seen'[s] = seen[s] /\ missed'[s] = missed[s]
    BY <1>1, <1>4
  <1>7. \A id \in Wanted : Position(id)' = Position(id)
    BY <1>1 DEF Position
  <1>8. ASSUME NEW s \in Reader
        PROVE  cursor'[s] <= counter' /\ Scanned(s)'
    <2>1. CASE s = r
      BY <1>1, <1>2, <1>3, <1>6, <2>1 DEF Scanned
    <2>2. CASE s # r
      <3>1. Scanned(s) /\ cursor[s] <= counter /\ pull'[s] = pull[s] /\ overtaken'[s] = overtaken[s] /\ cursor'[s] = cursor[s]
        BY <1>1, <1>6, <2>2, PullFacts
      <3>2. \A id \in Wanted : Accounted(s, id)' <=> Accounted(s, id)
        BY <1>7, <3>1 DEF Accounted
      <3> QED
        BY <1>1, <1>7, <3>1, <3>2 DEF Scanned
    <2> QED
      BY <2>1, <2>2
  <1>9. PullMissesNothing'
    <2> SUFFICES ASSUME NEW s \in Reader, NEW id \in Wanted, Position(id)' # 0, Position(id)' <= cursor'[s]
                 PROVE  id \in seen'[s] \/ Position(id)' \in missed'[s] \union overtaken'[s]
      BY DEF PullMissesNothing
    <2>1. Position(id)' = Position(id) /\ Position(id) \in Nat
      BY <1>7, PositionFacts, LogShape
    <2>2. Position(id) <= cursor[s] => id \in seen[s] \/ Position(id) \in missed[s] \union overtaken[s]
      BY <2>1 DEF ReadInv, PullMissesNothing
    <2>3. CASE s # r
      BY <1>1, <1>6, <2>1, <2>2, <2>3
    <2>4. CASE s = r
      <3>1. CASE Position(id) <= cursor[r]
        BY <1>1, <1>6, <2>1, <2>2, <2>4, <3>1
      <3>2. CASE Position(id) > cursor[r]
        <4>1. Accounted(r, id)
          BY <1>2, <1>6, <2>1, <2>4, <3>2
        <4> QED
          BY <1>1, <1>6, <2>1, <2>4, <4>1 DEF Accounted
      <3> QED
        BY <1>2, <2>1, <3>1, <3>2
    <2> QED
      BY <2>3, <2>4
  <1> QED
    BY <1>5, <1>8, <1>9 DEF ReadInv

-----------------------------------------------------------------------------
(* A page is the first of the rows, and what is examined the first of the  *)
(* page: no row up to the cursor is left out.  A page that is neither full *)
(* nor stopped in is all the rows there are.                               *)
LEMMA PageFacts ==
  ASSUME TypeOK, LogInv, ReadInv, NEW r \in Reader, NEW page \in Pages(RowsAfter(r, pull[r].at))
  PROVE  /\ Examined(r, page) \subseteq page /\ page \subseteq RowsAfter(r, pull[r].at)
         /\ Cardinality(Examined(r, page)) \in Nat
         /\ \A id \in RowsAfter(r, pull[r].at), x \in Examined(r, page) :
               Position(id) <= Position(x) => id \in Examined(r, page)
         /\ ~Full(r, Examined(r, page)) /\ Cardinality(page) # PageSize
               => Examined(r, page) = RowsAfter(r, pull[r].at)
  <1> DEFINE rows == RowsAfter(r, pull[r].at)
             part == Examined(r, page)
             upTo(id) == {x \in page : Position(x) <= Position(id)}
  <1>1. rows \subseteq Id /\ page \in SUBSET rows /\ Cardinality(page) = Min({PageSize, Cardinality(rows)})
    BY DEF RowsAfter, Stored, Pages
  <1>2. \A id \in page, later \in rows \ page : Position(id) < Position(later)
    BY DEF Pages
  <1>3. \A id \in rows : Position(id) \in Nat /\ id \in Id
    BY <1>1, PositionFacts
  <1>4. IsFiniteSet(rows) /\ Cardinality(rows) \in Nat
    BY <1>1, LogShape, FS_Subset, FS_CardinalityType
  <1>5. part = {x \in page : \A id \in page : Full(r, upTo(id)) => x \in upTo(id)}
    BY DEF Examined
  <1> HIDE DEF rows, part
  <1>7. part \subseteq page
    BY <1>5
  <1>8. Cardinality(part) \in Nat
    BY <1>1, <1>4, <1>7, FS_Subset, FS_CardinalityType
  <1>9. ASSUME NEW id \in rows, NEW x \in part, Position(id) <= Position(x)
        PROVE  id \in part
    <2>1. x \in page /\ Position(x) \in Nat /\ Position(id) \in Nat
      BY <1>1, <1>3, <1>7
    <2>2. id \in page
      BY <1>2, <1>9, <2>1
    <2>3. ASSUME NEW y \in page, Full(r, upTo(y))
          PROVE  id \in upTo(y)
      <3>1. Position(x) <= Position(y) /\ Position(y) \in Nat
        BY <1>1, <1>3, <1>5, <2>3
      <3> QED
        BY <1>9, <2>1, <2>2, <3>1
    <2> HIDE DEF upTo
    <2> QED
      BY <1>5, <2>2, <2>3
  <1>10. ASSUME Cardinality(page) # PageSize
         PROVE  page = rows
    <2> DEFINE n == Cardinality(rows)
               S == {PageSize, n}
    <2>1. S \in SUBSET Nat /\ S # {}
      BY <1>4, LogBounds
    <2>2. Min(S) \in S
      <3> HIDE DEF S
      <3> QED
        BY <2>1, MinIs
    <2>3. Cardinality(page) = Cardinality(rows)
      BY <1>1, <1>10, <2>2
    <2> QED
      BY <1>1, <1>4, <2>3, FS_Subset
  <1>11. ASSUME ~Full(r, part)
         PROVE  part = page
    <2> DEFINE stops == {id \in page : Full(r, upTo(id))}
               S == {Position(id) : id \in stops}
    <2>1. CASE stops = {}
      <3> HIDE DEF upTo
      <3> QED
        BY <1>5, <2>1
    <2>2. CASE stops # {}
      <3>1. S \in SUBSET Nat /\ S # {}
        BY <1>1, <1>3, <2>2
      <3>2. PICK m \in S : \A n \in S : m <= n
        <4> HIDE DEF S
        <4> QED
          BY <3>1, SmallestOf
      <3>3. PICK y \in stops : Position(y) = m
        BY <3>2
      <3>4. \A id \in stops : Position(y) <= Position(id)
        BY <3>2, <3>3
      <3>5. part \subseteq upTo(y)
        <4> HIDE DEF upTo
        <4> QED
          BY <1>5, <3>3
      <3>6. ASSUME NEW x \in upTo(y) PROVE x \in part
        <4>1. x \in page /\ Position(x) <= Position(y) /\ y \in page
          BY <3>3, <3>6
        <4>2. ASSUME NEW id \in page, Full(r, upTo(id)) PROVE x \in upTo(id)
          <5>1. Position(y) <= Position(id)
            <6>1. id \in stops
              BY <4>2
            <6> QED
              BY <3>4, <6>1
          <5>2. Position(x) \in Nat /\ Position(y) \in Nat /\ Position(id) \in Nat
            BY <1>1, <1>3, <4>1
          <5> QED
            BY <4>1, <5>1, <5>2
        <4> HIDE DEF upTo
        <4> QED
          BY <1>5, <4>1, <4>2
      <3>7. part = upTo(y)
        <4> HIDE DEF upTo
        <4> QED
          BY <3>5, <3>6
      <3>8. Full(r, upTo(y))
        BY <3>3
      <3> HIDE DEF upTo
      <3> QED
        BY <1>11, <3>7, <3>8
    <2> QED
      BY <2>1, <2>2
  <1>12. /\ part \subseteq page /\ page \subseteq rows /\ Cardinality(part) \in Nat
         /\ \A id \in rows, x \in part : Position(id) <= Position(x) => id \in part
         /\ ~Full(r, part) /\ Cardinality(page) # PageSize => part = rows
    BY <1>1, <1>7, <1>8, <1>9, <1>10, <1>11
  <1> QED
    BY <1>12 DEF rows, part

LEMMA ScanStep ==
  ASSUME TypeOK, LogInv, ReadInv, NEW r \in Reader, Scan(r)
  PROVE  TypeReads' /\ ReadInv'
  <1>1. UNCHANGED <<hot, replay, counter, cursor, seen, missed, overtaken>> /\ pull[r].phase = "scan"
    BY DEF Scan, logVars
  <1>2. PICK page \in Pages(RowsAfter(r, pull[r].at)) :
           pull' = [pull EXCEPT ![r] = [pull[r] EXCEPT
                      !.rows = @ \union (Wanted \intersect Examined(r, page)),
                      !.scanned = @ + Cardinality(Examined(r, page)),
                      !.at = CursorAfter(r, Examined(r, page)),
                      !.phase = IF Full(r, Examined(r, page)) THEN "answer"
                                ELSE IF Cardinality(page) = PageSize THEN "scan"
                                ELSE IF pull[r].narrow THEN "head" ELSE "answer"]]
    BY DEF Scan
  <1> DEFINE ready == RowsAfter(r, pull[r].at)
             part == Examined(r, page)
             rows == pull[r].rows \union (Wanted \intersect part)
             scanned == pull[r].scanned + Cardinality(part)
             at == CursorAfter(r, part)
             phase == IF Full(r, part) THEN "answer"
                      ELSE IF Cardinality(page) = PageSize THEN "scan"
                      ELSE IF pull[r].narrow THEN "head" ELSE "answer"
             u == [pull[r] EXCEPT !.rows = rows, !.scanned = scanned]
             q == [u EXCEPT !.at = at, !.phase = phase]
  <1>3. /\ pull[r] \in Pulls /\ pull[r].from = cursor[r] /\ pull[r].began <= counter /\ counter \in Nat
        /\ pull[r].from \in Nat /\ pull[r].at \in Nat /\ pull[r].at <= counter /\ pull[r].scanned \in Nat
        /\ pull[r].rows \in SUBSET Id /\ overtaken[r] \in SUBSET Nat
        /\ \A id \in Wanted : Position(id) > pull[r].from /\ Position(id) <= pull[r].at => Accounted(r, id)
    BY <1>1, PullFacts DEF Scanned
  <1>4. /\ part \subseteq page /\ page \subseteq ready /\ Cardinality(part) \in Nat
        /\ \A id \in ready, x \in part : Position(id) <= Position(x) => id \in part
        /\ ~Full(r, part) /\ Cardinality(page) # PageSize => part = ready
    BY PageFacts
  <1>5. /\ ready \subseteq Id /\ \A id \in Wanted : Position(id) > pull[r].at => id \in ready
    <2>1. \A id \in Wanted : id \in Id /\ Position(id) \in Nat
      BY PositionFacts, LogShape
    <2> QED
      BY <1>3, <2>1 DEF RowsAfter, Stored
  <1>6. [pull[r] EXCEPT !.rows = rows, !.scanned = scanned, !.at = at, !.phase = phase] = q
    BY <1>3 DEF Pulls
  <1>7. pull' = [pull EXCEPT ![r] = q]
    BY <1>2, <1>6
  <1>8. phase \in {"scan", "head", "answer"} /\ (phase = "head" => ~Full(r, part) /\ Cardinality(page) # PageSize)
    OBVIOUS
  <1>9. at = Max({pull[r].at} \union {Position(id) : id \in part})
    BY DEF CursorAfter
  <1> HIDE DEF ready, part, at, phase
  <1>10. /\ at \in Nat /\ at <= counter
         /\ \A id \in ready : Position(id) <= at /\ Position(id) > pull[r].at => id \in part
    <2> DEFINE S == {pull[r].at} \union {Position(id) : id \in part}
    <2>1. \A id \in part : Position(id) \in Nat /\ Position(id) <= counter
      BY <1>4, <1>5, PositionFacts
    <2>2. S \in SUBSET Nat /\ S # {} /\ \A n \in S : n <= counter
      BY <1>3, <2>1
    <2>3. Max(S) \in S
      <3> HIDE DEF S
      <3> QED
        BY <1>3, <2>2, MaxIs
    <2>4. at \in S
      BY <1>9, <2>3
    <2>5. \A id \in ready : Position(id) \in Nat
      BY <1>5, PositionFacts
    <2>6. ASSUME NEW id \in ready, Position(id) <= at, Position(id) > pull[r].at
          PROVE  id \in part
      <3>1. at # pull[r].at
        BY <1>3, <2>5, <2>6
      <3>2. PICK x \in part : Position(x) = at
        BY <2>4, <3>1
      <3> QED
        BY <1>4, <2>6, <3>2
    <2> QED
      BY <2>2, <2>4, <2>6
  <1>11. rows \in SUBSET Id /\ scanned \in Nat
    BY <1>3, <1>4, <1>5
  <1>12. rows = pull[r].rows \union (Wanted \intersect part)
    OBVIOUS
  <1> HIDE DEF rows, scanned
  <1>13. u \in Pulls /\ u.rows = rows /\ u.from = pull[r].from /\ u.began = pull[r].began /\ u.gap = pull[r].gap
    BY <1>3, <1>11 DEF Pulls
  <1> HIDE DEF u
  <1>14. /\ q \in Pulls /\ q.rows = rows /\ q.from = pull[r].from /\ q.began = pull[r].began /\ q.gap = pull[r].gap
         /\ q.at = at /\ q.phase = phase
    BY <1>8, <1>10, <1>13 DEF Pulls
  <1> HIDE DEF q
  <1>15. ASSUME NEW id \in Wanted, Position(id) > q.from, Position(id) <= q.at \/ (id \in ready => id \in part)
         PROVE  id \in q.rows \/ Position(id) \in q.gap \union overtaken[r]
    <2>1. Position(id) \in Nat
      BY PositionFacts, LogShape
    <2>2. CASE Position(id) <= pull[r].at
      <3>1. Accounted(r, id)
        BY <1>3, <1>14, <1>15, <2>2
      <3> QED
        BY <1>12, <1>14, <3>1 DEF Accounted
    <2>3. CASE Position(id) > pull[r].at
      <3>1. id \in part
        BY <1>5, <1>10, <1>14, <1>15, <2>3
      <3> QED
        BY <1>12, <1>14, <3>1
    <2> QED
      BY <1>3, <2>1, <2>2, <2>3
  <1>16. \A id \in Wanted : Position(id) > q.from /\ Position(id) <= q.at =>
            id \in q.rows \/ Position(id) \in q.gap \union overtaken[r]
    BY <1>15
  <1>17. q.phase = "head" => \A id \in Wanted : Position(id) > q.from =>
            id \in q.rows \/ Position(id) \in q.gap \union overtaken[r] \/ Position(id) > q.began
    BY <1>4, <1>8, <1>14, <1>15
  <1>18. overtaken' = [overtaken EXCEPT ![r] = overtaken[r]]
    BY <1>1, TypeParts DEF TypeReads
  <1>19. q.at <= counter /\ q.from = cursor[r] /\ q.began <= counter
    BY <1>3, <1>10, <1>14
  <1>20. UNCHANGED <<hot, replay, counter, cursor, seen, missed>>
    BY <1>1
  <1> QED
    BY <1>3, <1>7, <1>14, <1>16, <1>17, <1>18, <1>19, <1>20, OneReader

LEMMA ReaderSteps ==
  ASSUME TypeOK, LogInv, ReadInv, NEW r \in Reader, ReadStep(r) \/ Answer(r) \/ Lose(r)
  PROVE  TypeReads' /\ ReadInv' /\ UNCHANGED <<logVars, tx>>
  <1>1. UNCHANGED <<logVars, tx>>
    BY DEF ReadStep, Pull, Oldest, NextToCome, Scan, ToHead, Answer, Lose
  <1> QED
    BY <1>1, PullStep, OldestStep, ScanStep, ToHeadStep, AnswerStep DEF ReadStep

LEMMA LogStays ==
  ASSUME TypeOK, LogInv, UNCHANGED <<logVars, tx>>
  PROVE  TypeRest' /\ LogInv' /\ Advances
  <1>1. UNCHANGED <<hot, replay, receipt, age, counter, numbering, tx>>
    BY DEF logVars
  <1>2. TypeRest'
    BY <1>1, TypeParts DEF TypeRest
  <1>3. \A id \in Id : /\ hot'[id] \in {hot[id], 0}
                       /\ replay'[id] \in {replay[id], 0} \/ (hot'[id] = 0 /\ hot[id] # 0 /\ replay'[id] = hot[id])
                       /\ hot'[id] # 0 => replay'[id] = replay[id]
                       /\ id \in receipt' => id \in receipt
    BY <1>1
  <1>4. age' = age /\ \A id \in Id : JustStored(id) => hot'[id] = hot[id]
    BY <1>1
  <1>5. UNCHANGED <<counter, numbering, tx>>
    BY <1>1
  <1> QED
    BY <1>2, <1>3, <1>4, <1>5, TierStep

-----------------------------------------------------------------------------
(* The invariant holds, and every step of the log advances it.             *)
LEMMA Initially ==
  Init => IInv
  <1> SUFFICES ASSUME Init PROVE IInv
    OBVIOUS
  <1>1. TypeOK
    <2>1. TypeRest
      BY NoTxFacts DEF Init, TypeRest
    <2>2. NoPull \in Pulls
      BY DEF NoPull, Pulls
    <2>3. TypeReads
      BY <2>2 DEF Init, TypeReads, Pulls
    <2> QED
      BY <2>1, <2>3, TypeParts
  <1>2. LogInv
    <2>1. ASSUME NEW p \in Publisher PROVE TxOK(tx[p]) /\ Numbered(p, tx[p]) /\ Looked(tx[p])
      <3>1. tx[p] = NoTx
        BY DEF Init
      <3> QED
        BY <3>1, NoTxFacts DEF Numbered
    <2>2. \A id \in Id : hot[id] = 0 /\ replay[id] = 0 /\ counter = 0
      BY DEF Init
    <2> QED
      BY <2>1, <2>2 DEF LogInv
  <1>3. \A id \in Id : Position(id) = 0
    BY DEF Init, Position
  <1>4. ReadInv
    <2>1. \A r \in Reader : cursor[r] = 0 /\ counter = 0 /\ pull[r] = NoPull /\ NoPull.phase = "idle"
      BY DEF Init, NoPull
    <2> QED
      BY <1>3, <2>1, LogShape DEF ReadInv, Scanned, PullMissesNothing
  <1> QED
    BY <1>1, <1>2, <1>4 DEF IInv

LEMMA Steps ==
  IInv /\ [Next]_vars => IInv' /\ Advances
  <1> SUFFICES ASSUME IInv, [Next]_vars PROVE IInv' /\ Advances
    OBVIOUS
  <1>1. TypeOK /\ LogInv /\ ReadInv
    BY DEF IInv
  <1>2. CASE LogStep
    BY <1>1, <1>2, LogSteps, ReadersStay, TypeParts, PTL DEF IInv
  <1>3. ASSUME NEW r \in Reader, ReadStep(r) \/ Answer(r) \/ Lose(r) PROVE IInv' /\ Advances
    <2>1. TypeReads' /\ ReadInv' /\ TypeRest' /\ LogInv' /\ Advances
      BY <1>1, <1>3, ReaderSteps, LogStays
    <2> QED
      BY <2>1, TypeParts, PTL DEF IInv
  <1>4. CASE UNCHANGED vars
    <2>1. UNCHANGED <<logVars, tx>> /\ UNCHANGED readerVars
      BY <1>4 DEF vars, logVars, readerVars
    <2>2. TypeReads' /\ ReadInv' /\ TypeRest' /\ LogInv' /\ Advances
      BY <1>1, <2>1, LogStays, ReadersStay
    <2> QED
      BY <2>2, TypeParts, PTL DEF IInv
  <1> QED
    BY <1>2, <1>3, <1>4 DEF Next, LogStep

LEMMA Invariance ==
  Spec => []IInv
  <1> QED
    BY Initially, Steps, PTL DEF Spec

(* An event id is never stored twice: while the log knows an id, through   *)
(* repeated publishes that overlap, moves between the tiers and deletions, *)
(* the id keeps its position or loses it (README; store.insertBatch).      *)
THEOREM IdsKeepPositions ==
  Spec => StoredOnce
  <1>1. IInv /\ [Next]_vars => [\A id \in Id : Known(id) => Position(id)' \in {Position(id), 0}]_vars
    BY Steps DEF Advances
  <1> QED
    BY <1>1, Invariance, PTL DEF Spec, StoredOnce

(* Positions become visible in the order they are handed out, whatever the *)
(* order the publishes began in: the lock of the counter's row is held to  *)
(* the commit (store.nextSeq).                                             *)
THEOREM PositionsInCommitOrder ==
  Spec => CommitOrder
  <1>1. IInv /\ [Next]_vars => [\A id \in Id : Position(id)' \notin {0, Position(id)} => Position(id)' > counter]_vars
    BY Steps DEF Advances
  <1> QED
    BY <1>1, Invariance, PTL DEF Spec, CommitOrder

(* No cursor passes an event its reader wants: pages, gaps, answers that   *)
(* are lost, retention during a scan and the jump to the head of a         *)
(* narrowed query included (store.scan).                                   *)
THEOREM CursorsAreSound ==
  Spec => []CursorsSound
  <1>1. IInv => CursorsSound
    BY DEF IInv, ReadInv, CursorsSound
  <1> QED
    BY <1>1, Invariance, PTL
=============================================================================
