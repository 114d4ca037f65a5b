------------------------ MODULE SubscriptionsProofs ------------------------
(***************************************************************************)
(* What the subscription table keeps, for any number of consumers, of      *)
(* requests at once and of calls: what a revocation turned off stays off   *)
(* but for the race the code has, creates exceed their limits and make     *)
(* duplicates by overlapping alone, and a consumer can verify across       *)
(* rotations.                                                              *)
(*                                                                         *)
(* Each of these is about the moment a request writes, and is kept by what *)
(* the request saw earlier: SeenHolds (what its token outlived when it was *)
(* checked), LookedFirst (the rows there were when it looked for a         *)
(* duplicate), the requests that passed a count and have not inserted yet  *)
(* (InLimits), what a secret still is to a row (Usable), and what a        *)
(* control request found in the log (KeysAnswered).                        *)
(***************************************************************************)
EXTENDS Subscriptions, FiniteSetTheorems, SequenceTheorems, WellFoundedInduction, TLAPS

-----------------------------------------------------------------------------
(* Numbers, sets and sequences.                                            *)

(* A set of numbers that has a bound has a largest one.                    *)
LEMMA MaxOf ==
  ASSUME NEW S \in SUBSET Nat, S # {}, NEW b \in Nat, \A x \in S : x <= b
  PROVE  Max(S) \in S /\ \A x \in S : x <= Max(S)
  <1> DEFINE T == {b - x : x \in S}
  <1>1. T \subseteq Nat /\ T # {}
    <2>1. PICK x \in S : TRUE
      OBVIOUS
    <2>2. b - x \in T
      OBVIOUS
    <2>3. \A y \in S : b - y \in Nat
      OBVIOUS
    <2> QED
      BY <2>2, <2>3
  <1>2. PICK m \in T : \A n \in T : ~(<<n, m>> \in OpToRel(<, Nat))
    BY <1>1, NatLessThanWellFounded, WFMin, Zenon
  <1>3. PICK x \in S : m = b - x
    OBVIOUS
  <1>4. \A y \in S : y <= x
    <2> SUFFICES ASSUME NEW y \in S, y > x PROVE FALSE
      OBVIOUS
    <2>1. b - y \in T /\ b - y < m /\ b - y \in Nat /\ m \in Nat
      BY <1>3
    <2> QED
      BY <1>2, <2>1 DEF OpToRel
  <1> QED
    BY <1>4 DEF Max

(* Finitely many numbers have a bound.                                     *)
LEMMA Bounded ==
  ASSUME NEW n \in Nat, NEW f, \A i \in 1..n : f[i] \in Nat
  PROVE  \E b \in Nat : \A i \in 1..n : f[i] <= b
  <1> DEFINE Bound(m) == \E b \in Nat : \A i \in 1..m : f[i] <= b
             U == {m \in 0..n : ~Bound(m)}
  <1>1. SUFFICES ASSUME U # {} PROVE FALSE
    <2>1. n \in 0..n
      OBVIOUS
    <2> QED
      BY <2>1
  <1>2. PICK m \in U : \A k \in U : ~(<<k, m>> \in OpToRel(<, Nat))
    <2>1. U \subseteq Nat
      OBVIOUS
    <2> HIDE DEF U
    <2> QED
      BY <1>1, <2>1, NatLessThanWellFounded, WFMin, Zenon
  <1>3. m # 0
    <2>1. Bound(0)
      OBVIOUS
    <2> QED
      BY <2>1
  <1>4. Bound(m - 1)
    <2> SUFFICES ASSUME m - 1 \in U PROVE FALSE
      BY <1>3
    <2>1. <<m - 1, m>> \in OpToRel(<, Nat)
      BY <1>3 DEF OpToRel
    <2> QED
      BY <1>2, <2>1
  <1>5. PICK b \in Nat : \A i \in 1..(m - 1) : f[i] <= b
    BY <1>4
  <1>6. Bound(m)
    <2>1. m \in 1..n /\ f[m] \in Nat
      BY <1>3
    <2>2. \A i \in 1..m : f[i] <= b + f[m]
      <3> TAKE i \in 1..m
      <3>1. f[i] \in Nat /\ b + f[m] \in Nat
        BY <2>1
      <3>2. CASE i = m
        BY <2>1, <3>2
      <3>3. CASE i # m
        BY <1>5, <2>1, <3>1, <3>3
      <3> QED
        BY <3>2, <3>3
    <2>3. b + f[m] \in Nat
      BY <2>1
    <2> QED
      BY <2>2, <2>3
  <1> QED
    BY <1>6

(* A function on the places of a sequence is a sequence as long.           *)
LEMMA AsLong ==
  ASSUME NEW S, NEW s \in Seq(S), NEW T, NEW t \in [DOMAIN s -> T]
  PROVE  t \in Seq(T) /\ DOMAIN t = DOMAIN s /\ Len(t) = Len(s)
  <1>1. DOMAIN s = 1..Len(s) /\ Len(s) \in Nat
    BY LenProperties
  <1>2. t \in Seq(T)
    BY <1>1, SeqDef
  <1> QED
    BY <1>1, <1>2, LenProperties

(* What is at the places of a sequence, and of one with an entry more.     *)
LEMMA Places ==
  ASSUME NEW S, NEW s \in Seq(S)
  PROVE  /\ DOMAIN s = 1..Len(s) /\ Len(s) \in Nat
         /\ \A i \in DOMAIN s : s[i] \in S
         /\ s # <<>> => Head(s) \in S /\ Tail(s) \in Seq(S)
  <1>1. DOMAIN s = 1..Len(s) /\ Len(s) \in Nat
    BY LenProperties
  <1> QED
    BY <1>1, ElementOfSeq, HeadTailProperties

LEMMA OneMore ==
  ASSUME NEW S, NEW s \in Seq(S), NEW e \in S
  PROVE  /\ Append(s, e) \in Seq(S) /\ Len(Append(s, e)) = Len(s) + 1
         /\ DOMAIN Append(s, e) = 1..(Len(s) + 1)
         /\ \A i \in DOMAIN s : Append(s, e)[i] = s[i]
         /\ Append(s, e)[Len(s) + 1] = e
  <1>1. Append(s, e) \in Seq(S) /\ Len(Append(s, e)) = Len(s) + 1
    BY AppendProperties
  <1> QED
    BY <1>1, LenProperties, AppendProperties

-----------------------------------------------------------------------------
(* The shapes of the state.                                                *)
Row == [consumer : Consumer, env : Env, topic : Topic, enabled : BOOLEAN,
        secret : Secret, previous : Nat, until : Int]
Seen == [Scope -> Nat \union {Unchecked}]
From == [issued : Nat, seen : Seen, wrote : Nat, after : Nat, during : BOOLEAN]
Promise == [secret : Nat, until : Nat]
Pc == {"idle", "guard", "grant", "twin", "count", "quota", "insert", "toggle",
       "rotate", "look", "decide", "apply", "keep", "answer"}
ReqRec == [pc : Pc, left : Seq(Call), issued : Nat, seen : Seen, after : Nat, fresh : BOOLEAN]
News == [app : App, scope : Scope, at : Nat]
PlanRec == [calls : [Request -> Seq(Call)], ticks : Nat, withdrawals : Nat, scripts : Nat, sends : BOOLEAN]
ScriptRec == [phase : {"off", "listed", "rotated"}, rows : SUBSET Nat, secret : Nat, runs : Nat]
SendRec == [row : Nat, secret : Nat, previous : Nat, until : Int]

RowShape ==
    /\ subs \in Seq(Row) /\ DOMAIN Initial \subseteq DOMAIN subs
    /\ origin \in Seq(From) /\ DOMAIN origin = DOMAIN subs
    /\ held \in Seq(Nat) /\ DOMAIN held = DOMAIN subs
    /\ told \in Seq(Nat) /\ DOMAIN told = DOMAIN subs
    /\ promised \in Seq(SUBSET Promise) /\ DOMAIN promised = DOMAIN subs
    /\ dropped \in Seq(SUBSET Nat) /\ DOMAIN dropped = DOMAIN subs
RevokeShape ==
    /\ revoked \in [App \X Scope -> Int] /\ stored \in Seq(News)
    /\ revoking = NoRevoking \/ (revoking \in [app : App, scope : Scope, at : Nat, rows : SUBSET Nat]
                                 /\ \A i \in revoking.rows : i \in DOMAIN subs /\ subs[i].consumer = revoking.app)
NetShape ==
    /\ plan \in PlanRec /\ now \in Nat /\ now <= plan.ticks
    /\ granted \in [App -> BOOLEAN] /\ tokens \in [App -> SUBSET Nat] /\ news \subseteq News
ControlShape == log \in [Key -> [kept : BOOLEAN, enable : BOOLEAN, dry : BOOLEAN]] /\ answered \subseteq Key
SendShape ==
    /\ operator \in ScriptRec /\ operator.rows \subseteq DOMAIN subs
    /\ operator.phase = "rotated" => operator.secret \in Secret
    /\ file \in [Service -> Secret]
    /\ send \in SendRec /\ send.row \in {0} \union DOMAIN subs

(* Where a request is says what it asks, by whom, and what was checked.    *)
AppCall(r) == Op(r) # "control" /\ By(r) \in App
PcKnows(r) ==
    /\ req[r].pc # "idle" => req[r].left # <<>>
    /\ req[r].pc \in {"guard", "grant", "quota"} => AppCall(r)
    /\ req[r].pc = "guard" => Op(r) \in {"create", "enable", "disable", "rotate"}
    /\ req[r].pc = "grant" => Op(r) \in {"create", "enable"}
    /\ req[r].pc \in {"twin", "count", "quota", "insert"} => Op(r) = "create"
    /\ req[r].pc = "toggle" => Op(r) \in {"enable", "disable"}
    /\ req[r].pc = "rotate" => Op(r) = "rotate"
    /\ req[r].pc \in {"look", "decide", "apply", "keep", "answer"} => Op(r) = "control"
    /\ req[r].pc \in {"grant", "twin", "count", "quota", "insert", "toggle", "rotate"} /\ AppCall(r) =>
          req[r].seen["app"] # Unchecked
    /\ req[r].pc \in {"twin", "count", "quota", "insert"} /\ AppCall(r) => req[r].seen["subscribe"] # Unchecked
    /\ req[r].pc = "toggle" /\ AppCall(r) /\ Op(r) = "enable" => req[r].seen["subscribe"] # Unchecked
    /\ req[r].pc = "apply" => subs[Head(req[r].left).row].consumer \in Person
ReqShape == req \in [Request -> ReqRec] /\ \A r \in Request : PcKnows(r)

Shape == RowShape /\ RevokeShape /\ NetShape /\ ControlShape /\ SendShape /\ ReqShape

LEMMA ShapeIsTyped ==
  ASSUME Shape PROVE TypeOK
  <1>1. /\ now \in 0..plan.ticks
        /\ subs \in Seq([consumer : Consumer, env : Env, topic : Topic, enabled : BOOLEAN,
                         secret : Secret, previous : Nat, until : Int])
        /\ revoked \in [App \X Scope -> Int]
        /\ log \in [Key -> [kept : BOOLEAN, enable : BOOLEAN, dry : BOOLEAN]]
        /\ DOMAIN origin = DOMAIN subs /\ DOMAIN held = DOMAIN subs /\ DOMAIN told = DOMAIN subs
        /\ send.row \in {0} \union DOMAIN subs
    BY DEF Shape, RowShape, RevokeShape, NetShape, ControlShape, SendShape, PlanRec, Row
  <1>2. revoking.rows \subseteq DOMAIN subs
    BY DEF Shape, RevokeShape, NoRevoking
  <1>3. \A r \in Request :
          /\ req[r].pc \in {"idle", "guard", "grant", "twin", "count", "quota", "insert", "toggle",
                            "rotate", "look", "decide", "apply", "keep", "answer"}
          /\ req[r].pc # "idle" => req[r].left # <<>>
          /\ req[r].pc = "grant" => Op(r) \in {"create", "enable"} /\ By(r) \in App
          /\ req[r].pc \in {"twin", "count", "quota", "insert"} => Op(r) = "create"
          /\ req[r].pc = "toggle" => Op(r) \in {"enable", "disable"}
    BY DEF Shape, ReqShape, ReqRec, Pc, PcKnows, AppCall
  <1> QED
    BY <1>1, <1>2, <1>3 DEF TypeOK

(* What the calls are, by their operation.                                 *)
LEMMA CallIs ==
  ASSUME Shape, NEW r \in Request, req[r].left # <<>>
  PROVE  /\ Head(req[r].left) \in Call /\ Tail(req[r].left) \in Seq(Call)
         /\ Op(r) \in {"create", "enable", "disable", "rotate", "control"}
         /\ Op(r) # "control" => By(r) \in App \union Service /\ Head(req[r].left).env \in Env
         /\ Op(r) = "create" => Head(req[r].left).topic \in Topic
         /\ Op(r) = "rotate" => Head(req[r].left).overlap \in Nat
         /\ Op(r) = "control" =>
               /\ Head(req[r].left).key \in Key /\ Head(req[r].left).row \in DOMAIN Initial
               /\ Head(req[r].left).enable \in BOOLEAN /\ Head(req[r].left).dry \in BOOLEAN
  <1>1. req[r].left \in Seq(Call)
    BY DEF Shape, ReqShape, ReqRec
  <1>2. Head(req[r].left) \in Call /\ Tail(req[r].left) \in Seq(Call)
    BY <1>1, Places
  <1> QED
    BY <1>2 DEF Call, Op, By

(* What is at a row's place.                                               *)
LEMMA RowIs ==
  ASSUME Shape, NEW i \in DOMAIN subs
  PROVE  /\ subs[i] \in Row /\ origin[i] \in From /\ held[i] \in Nat /\ told[i] \in Nat
         /\ promised[i] \subseteq Promise /\ dropped[i] \subseteq Nat
         /\ DOMAIN subs = 1..Len(subs) /\ Len(subs) \in Nat
         /\ Len(origin) = Len(subs) /\ Len(held) = Len(subs) /\ Len(told) = Len(subs)
         /\ Len(promised) = Len(subs) /\ Len(dropped) = Len(subs)
  BY Places, LenProperties DEF Shape, RowShape

-----------------------------------------------------------------------------
(* What a step makes of a request.                                         *)
ReqIs(r, pc, left, issued, seen, after, fresh) ==
    /\ req' \in [Request -> ReqRec]
    /\ req'[r] = [pc |-> pc, left |-> left, issued |-> issued, seen |-> seen, after |-> after, fresh |-> fresh]
    /\ \A q \in Request \ {r} : req'[q] = req[q]
Same(r, pc) == ReqIs(r, pc, req[r].left, req[r].issued, req[r].seen, req[r].after, req[r].fresh)
Done(r) == ReqIs(r, "idle", Tail(req[r].left), 0, [s \in Scope |-> Unchecked], 0, TRUE)

LEMMA Goings ==
  ASSUME Shape, NEW r \in Request
  PROVE  /\ req[r].left # <<>> /\ Over(r) => Done(r)
         /\ \A pc \in Pc : Goes(r, pc) => Same(r, pc)
  <1>1. req[r].left # <<>> /\ Over(r) => Done(r)
    <2> HAVE req[r].left # <<>> /\ Over(r)
    <2>1. Waiting(Tail(req[r].left)) \in ReqRec
      BY CallIs DEF Waiting, ReqRec, Pc, Seen
    <2> QED
      BY <2>1 DEF Over, Done, ReqIs, Waiting, Shape, ReqShape
  <1>2. ASSUME NEW pc \in Pc, Goes(r, pc) PROVE Same(r, pc)
    <2>1. [req[r] EXCEPT !.pc = pc] = [pc |-> pc, left |-> req[r].left, issued |-> req[r].issued,
              seen |-> req[r].seen, after |-> req[r].after, fresh |-> req[r].fresh]
      BY DEF Shape, ReqShape, ReqRec
    <2> QED
      BY <1>2, <2>1 DEF Goes, Same, ReqIs, Shape, ReqShape, ReqRec
  <1> QED
    BY <1>1, <1>2

LEMMA CheckedIs ==
  ASSUME Shape, NEW r \in Request, NEW pc \in Pc, NEW scope \in Scope, NEW next \in Pc,
         req[r].left # <<>>, Checked(r, pc, scope, next)
  PROVE  \/ Done(r)
         \/ /\ ~Revoked(req[r].issued, revoked[<<By(r), scope>>])
            /\ ReqIs(r, next, req[r].left, req[r].issued, [req[r].seen EXCEPT ![scope] = Len(stored)],
                     req[r].after, req[r].fresh)
  <1>1. CASE Revoked(req[r].issued, revoked[<<By(r), scope>>])
    BY <1>1, Goings DEF Checked
  <1>2. CASE ~Revoked(req[r].issued, revoked[<<By(r), scope>>])
    <2> DEFINE q == [req EXCEPT ![r].pc = next]
               now2 == [pc |-> next, left |-> req[r].left, issued |-> req[r].issued, seen |-> req[r].seen,
                        after |-> req[r].after, fresh |-> req[r].fresh]
               seen2 == [req[r].seen EXCEPT ![scope] = Len(stored)]
    <2>1. req' = [q EXCEPT ![r].seen[scope] = Len(stored)]
      BY <1>2 DEF Checked
    <2>2. q = [req EXCEPT ![r] = now2]
      <3>1. req[r] \in ReqRec
        BY DEF Shape, ReqShape
      <3>2. [req[r] EXCEPT !.pc = next] = now2
        BY <3>1 DEF ReqRec
      <3> HIDE DEF now2
      <3> QED
        BY <3>2
    <2>3. q[r] = now2 /\ r \in DOMAIN q
      BY <2>2 DEF Shape, ReqShape
    <2> HIDE DEF q
    <2>4. req' = [q EXCEPT ![r] = [now2 EXCEPT !.seen = seen2]]
      BY <2>1, <2>3
    <2>5. Len(stored) \in Nat
      BY LenProperties DEF Shape, RevokeShape
    <2>6. seen2 \in Seen
      BY <2>5 DEF Seen, Shape, ReqShape, ReqRec
    <2> HIDE DEF seen2
    <2>7. [now2 EXCEPT !.seen = seen2] = [pc |-> next, left |-> req[r].left, issued |-> req[r].issued,
             seen |-> seen2, after |-> req[r].after, fresh |-> req[r].fresh]
      OBVIOUS
    <2> HIDE DEF now2
    <2>8. ReqIs(r, next, req[r].left, req[r].issued, seen2, req[r].after, req[r].fresh)
      BY <2>2, <2>4, <2>6, <2>7 DEF ReqIs, Shape, ReqShape, ReqRec
    <2> QED
      BY <1>2, <2>8 DEF seen2
  <1> QED
    BY <1>1, <1>2

(* The pc and another field.                                               *)
LEMMA PcAnd ==
  ASSUME Shape, NEW r \in Request, NEW pc \in Pc
  PROVE  /\ \A v \in Nat : req' = [req EXCEPT ![r].pc = pc, ![r].issued = v] =>
               ReqIs(r, pc, req[r].left, v, req[r].seen, req[r].after, req[r].fresh)
         /\ \A v \in Nat : req' = [req EXCEPT ![r].pc = pc, ![r].after = v] =>
               ReqIs(r, pc, req[r].left, req[r].issued, req[r].seen, v, req[r].fresh)
         /\ \A v \in BOOLEAN : req' = [req EXCEPT ![r].pc = pc, ![r].fresh = v] =>
               ReqIs(r, pc, req[r].left, req[r].issued, req[r].seen, req[r].after, v)
  <1> DEFINE q == [req EXCEPT ![r].pc = pc]
             moved == [pc |-> pc, left |-> req[r].left, issued |-> req[r].issued, seen |-> req[r].seen,
                       after |-> req[r].after, fresh |-> req[r].fresh]
  <1>1. req[r] \in ReqRec /\ req \in [Request -> ReqRec]
    BY DEF Shape, ReqShape
  <1>2. [req[r] EXCEPT !.pc = pc] = moved
    BY <1>1 DEF ReqRec
  <1>3. moved \in ReqRec
    BY <1>1 DEF ReqRec
  <1>4. q = [req EXCEPT ![r] = moved]
    BY <1>2
  <1>5. q \in [Request -> ReqRec] /\ q[r] = moved /\ \A p \in Request \ {r} : q[p] = req[p]
    <2> HIDE DEF moved
    <2> QED
      BY <1>1, <1>3, <1>4
  <1>6. ASSUME NEW v \in Nat
        PROVE  /\ [moved EXCEPT !.issued = v] = [pc |-> pc, left |-> req[r].left, issued |-> v,
                     seen |-> req[r].seen, after |-> req[r].after, fresh |-> req[r].fresh]
               /\ [moved EXCEPT !.after = v] = [pc |-> pc, left |-> req[r].left, issued |-> req[r].issued,
                     seen |-> req[r].seen, after |-> v, fresh |-> req[r].fresh]
    OBVIOUS
  <1>7. ASSUME NEW v \in BOOLEAN
        PROVE  [moved EXCEPT !.fresh = v] = [pc |-> pc, left |-> req[r].left, issued |-> req[r].issued,
                     seen |-> req[r].seen, after |-> req[r].after, fresh |-> v]
    OBVIOUS
  <1>8. \A v \in Nat : [moved EXCEPT !.issued = v] \in ReqRec /\ [moved EXCEPT !.after = v] \in ReqRec
    BY <1>1, <1>6 DEF ReqRec
  <1>9. \A v \in BOOLEAN : [moved EXCEPT !.fresh = v] \in ReqRec
    BY <1>1, <1>7 DEF ReqRec
  <1> HIDE DEF q, moved
  <1>10. ASSUME NEW v \in Nat, req' = [req EXCEPT ![r].pc = pc, ![r].issued = v]
         PROVE  ReqIs(r, pc, req[r].left, v, req[r].seen, req[r].after, req[r].fresh)
    <2>1. req' = [q EXCEPT ![r].issued = v]
      BY <1>10 DEF q
    <2>2. req' = [q EXCEPT ![r] = [moved EXCEPT !.issued = v]]
      BY <1>5, <2>1
    <2>3. [moved EXCEPT !.issued = v] \in ReqRec
      BY <1>8
    <2>4. req' \in [Request -> ReqRec] /\ req'[r] = [moved EXCEPT !.issued = v]
          /\ \A p \in Request \ {r} : req'[p] = req[p]
      BY <1>5, <2>2, <2>3
    <2> QED
      BY <1>6, <2>4 DEF ReqIs
  <1>11. ASSUME NEW v \in Nat, req' = [req EXCEPT ![r].pc = pc, ![r].after = v]
         PROVE  ReqIs(r, pc, req[r].left, req[r].issued, req[r].seen, v, req[r].fresh)
    <2>1. req' = [q EXCEPT ![r].after = v]
      BY <1>11 DEF q
    <2>2. req' = [q EXCEPT ![r] = [moved EXCEPT !.after = v]]
      BY <1>5, <2>1
    <2>3. [moved EXCEPT !.after = v] \in ReqRec
      BY <1>8
    <2>4. req' \in [Request -> ReqRec] /\ req'[r] = [moved EXCEPT !.after = v]
          /\ \A p \in Request \ {r} : req'[p] = req[p]
      BY <1>5, <2>2, <2>3
    <2> QED
      BY <1>6, <2>4 DEF ReqIs
  <1>12. ASSUME NEW v \in BOOLEAN, req' = [req EXCEPT ![r].pc = pc, ![r].fresh = v]
         PROVE  ReqIs(r, pc, req[r].left, req[r].issued, req[r].seen, req[r].after, v)
    <2>1. req' = [q EXCEPT ![r].fresh = v]
      BY <1>12 DEF q
    <2>2. req' = [q EXCEPT ![r] = [moved EXCEPT !.fresh = v]]
      BY <1>5, <2>1
    <2>3. [moved EXCEPT !.fresh = v] \in ReqRec
      BY <1>9
    <2>4. req' \in [Request -> ReqRec] /\ req'[r] = [moved EXCEPT !.fresh = v]
          /\ \A p \in Request \ {r} : req'[p] = req[p]
      BY <1>5, <2>2, <2>3
    <2> QED
      BY <1>7, <2>4 DEF ReqIs
  <1> QED
    BY <1>10, <1>11, <1>12

LEMMA StartIs ==
  ASSUME Shape, NEW r \in Request, Start(r)
  PROVE  /\ req[r].left # <<>> /\ req[r].pc = "idle"
         /\ \/ /\ Op(r) = "control"
               /\ ReqIs(r, "look", req[r].left, req[r].issued, req[r].seen, req[r].after,
                        Head(req[r].left).key \notin answered)
            \/ /\ AppCall(r)
               /\ \E at \in tokens[By(r)] :
                     ReqIs(r, "guard", req[r].left, at, req[r].seen, req[r].after, req[r].fresh)
            \/ /\ Op(r) # "control" /\ By(r) \notin App
               /\ \E pc \in {"twin", "rotate", "toggle"} :
                     /\ pc = "twin" => Op(r) = "create"
                     /\ pc = "rotate" => Op(r) = "rotate"
                     /\ pc = "toggle" => Op(r) \notin {"create", "rotate"}
                     /\ ReqIs(r, pc, req[r].left, now, req[r].seen, req[r].after, req[r].fresh)
  <1>1. req[r].left # <<>> /\ req[r].pc = "idle"
    BY DEF Start
  <1>2. CASE Op(r) = "control"
    <2>1. req' = [req EXCEPT ![r].pc = "look", ![r].fresh = Head(req[r].left).key \notin answered]
      BY <1>2 DEF Start, Op
    <2>2. (Head(req[r].left).key \notin answered) \in BOOLEAN /\ "look" \in Pc
      BY DEF Pc
    <2>3. ReqIs(r, "look", req[r].left, req[r].issued, req[r].seen, req[r].after, Head(req[r].left).key \notin answered)
      BY <2>1, <2>2, PcAnd
    <2> QED
      BY <1>1, <1>2, <2>3
  <1>3. CASE AppCall(r)
    <2>1. PICK at \in tokens[By(r)] : req' = [req EXCEPT ![r].pc = "guard", ![r].issued = at]
      BY <1>3 DEF Start, Op, By, AppCall
    <2>2. at \in Nat /\ "guard" \in Pc
      BY <1>3 DEF Shape, NetShape, AppCall, Pc
    <2> QED
      BY <1>1, <1>3, <2>1, <2>2, PcAnd
  <1>4. CASE Op(r) # "control" /\ By(r) \notin App
    <2> DEFINE pc == CASE Op(r) = "create" -> "twin" [] Op(r) = "rotate" -> "rotate" [] OTHER -> "toggle"
    <2>1. req' = [req EXCEPT ![r].pc = pc, ![r].issued = now]
      BY <1>4 DEF Start, Op, By
    <2>2. /\ pc \in Pc /\ now \in Nat /\ pc \in {"twin", "rotate", "toggle"}
          /\ pc = "twin" => Op(r) = "create"
          /\ pc = "rotate" => Op(r) = "rotate"
          /\ pc = "toggle" => Op(r) \notin {"create", "rotate"}
      BY DEF Pc, Shape, NetShape
    <2> HIDE DEF pc
    <2>3. ReqIs(r, pc, req[r].left, now, req[r].seen, req[r].after, req[r].fresh)
      BY <2>1, <2>2, PcAnd
    <2> QED
      BY <1>1, <1>4, <2>2, <2>3
  <1> QED
    BY <1>2, <1>3, <1>4 DEF AppCall

-----------------------------------------------------------------------------
(* What a step makes of a row.                                             *)
RowNow(i, on, secret, previous, until) ==
    subs'[i] = [consumer |-> subs[i].consumer, env |-> subs[i].env, topic |-> subs[i].topic, enabled |-> on,
                secret |-> secret, previous |-> previous, until |-> until]
SameRows ==
    /\ DOMAIN subs \subseteq DOMAIN subs'
    /\ \A i \in DOMAIN subs : /\ subs'[i].consumer = subs[i].consumer
                              /\ subs'[i].env = subs[i].env /\ subs'[i].topic = subs[i].topic

(* The rows of one set are turned on or off, and nothing else of them.     *)
Turned(rows, on) ==
    /\ subs' \in Seq(Row) /\ DOMAIN subs' = DOMAIN subs
    /\ \A i \in rows : RowNow(i, on, subs[i].secret, subs[i].previous, subs[i].until)
    /\ \A i \in DOMAIN subs \ rows : subs'[i] = subs[i]

LEMMA Turning ==
  ASSUME Shape, NEW rows \in SUBSET DOMAIN subs, NEW on \in BOOLEAN,
         subs' = [i \in DOMAIN subs |-> IF i \in rows THEN [subs[i] EXCEPT !.enabled = on] ELSE subs[i]]
  PROVE  Turned(rows, on)
  <1>1. \A i \in DOMAIN subs : subs[i] \in Row
    BY RowIs
  <1>2. \A i \in DOMAIN subs :
          [subs[i] EXCEPT !.enabled = on] =
             [consumer |-> subs[i].consumer, env |-> subs[i].env, topic |-> subs[i].topic, enabled |-> on,
              secret |-> subs[i].secret, previous |-> subs[i].previous, until |-> subs[i].until]
    BY <1>1 DEF Row
  <1>3. \A i \in DOMAIN subs : [subs[i] EXCEPT !.enabled = on] \in Row
    BY <1>1, <1>2 DEF Row
  <1>4. subs' \in [DOMAIN subs -> Row]
    BY <1>1, <1>3
  <1>5. subs' \in Seq(Row) /\ DOMAIN subs' = DOMAIN subs
    BY <1>4, AsLong DEF Shape, RowShape
  <1> QED
    BY <1>2, <1>5 DEF Turned, RowNow

LEMMA TurningOne ==
  ASSUME Shape, NEW i \in DOMAIN subs, NEW on \in BOOLEAN, subs' = [subs EXCEPT ![i].enabled = on]
  PROVE  Turned({i}, on)
  <1>1. subs' = [j \in DOMAIN subs |-> IF j \in {i} THEN [subs[j] EXCEPT !.enabled = on] ELSE subs[j]]
    <2>1. subs = [j \in DOMAIN subs |-> subs[j]]
      BY DEF Shape, RowShape
    <2> QED
      BY <2>1
  <1> QED
    BY <1>1, Turning

(* A new secret is larger than any there is.                               *)
LEMMA Newest ==
  ASSUME Shape
  PROVE  NewSecret \in Secret /\ \A i \in DOMAIN subs : subs[i].secret < NewSecret
  <1> DEFINE secrets == {subs[i].secret : i \in DOMAIN subs}
             f == [i \in DOMAIN subs |-> subs[i].secret]
  <1>1. DOMAIN subs = 1..Len(subs) /\ Len(subs) \in Nat /\ \A i \in DOMAIN subs : subs[i].secret \in Nat
    <2>1. subs \in Seq(Row)
      BY DEF Shape, RowShape
    <2>2. DOMAIN subs = 1..Len(subs) /\ Len(subs) \in Nat /\ \A i \in DOMAIN subs : subs[i] \in Row
      BY <2>1, Places
    <2> QED
      BY <2>2 DEF Row, Secret
  <1>2. PICK b \in Nat : \A i \in 1..Len(subs) : f[i] <= b
    <2>1. \A i \in 1..Len(subs) : f[i] \in Nat
      BY <1>1
    <2> HIDE DEF f
    <2> QED
      BY <1>1, <2>1, Bounded
  <1>3. /\ {0} \union secrets \in SUBSET Nat /\ {0} \union secrets # {}
        /\ \A x \in {0} \union secrets : x <= b
    BY <1>1, <1>2
  <1>4. /\ Max({0} \union secrets) \in {0} \union secrets
        /\ \A x \in {0} \union secrets : x <= Max({0} \union secrets)
    <2> HIDE DEF secrets
    <2> QED
      BY <1>3, MaxOf
  <1>5. NewSecret = Max({0} \union secrets) + 1
    BY DEF NewSecret
  <1>6. \A i \in DOMAIN subs : subs[i].secret \in secrets
    OBVIOUS
  <1> HIDE DEF secrets
  <1> QED
    <2>1. Max({0} \union secrets) \in Nat
      BY <1>3, <1>4
    <2>2. \A i \in DOMAIN subs : subs[i].secret \in Nat /\ subs[i].secret <= Max({0} \union secrets)
      BY <1>1, <1>4, <1>6
    <2> QED
      BY <1>5, <2>1, <2>2 DEF Secret

(* A rotation: the rows of one set have another secret, and the old one    *)
(* until the overlap ends.                                                 *)
LEMMA Rotating ==
  ASSUME Shape, NEW rows \in SUBSET DOMAIN subs, NEW secret \in Secret, NEW overlap \in Nat,
         Rotated(rows, secret, overlap)
  PROVE  /\ subs' \in Seq(Row) /\ DOMAIN subs' = DOMAIN subs
         /\ \A i \in rows : RowNow(i, subs[i].enabled, secret, subs[i].secret, now + overlap)
         /\ promised' \in Seq(SUBSET Promise) /\ DOMAIN promised' = DOMAIN subs
         /\ \A i \in rows : promised'[i] = promised[i] \union {[secret |-> subs[i].secret, until |-> now + overlap]}
         /\ dropped' \in Seq(SUBSET Nat) /\ DOMAIN dropped' = DOMAIN subs
         /\ \A i \in rows : dropped'[i] = dropped[i] \union (IF subs[i].until > now THEN {subs[i].previous} ELSE {})
         /\ \A i \in DOMAIN subs \ rows :
               subs'[i] = subs[i] /\ promised'[i] = promised[i] /\ dropped'[i] = dropped[i]
  <1>1. /\ \A i \in DOMAIN subs : /\ subs[i] \in Row /\ promised[i] \in SUBSET Promise /\ dropped[i] \in SUBSET Nat
        /\ now + overlap \in Nat
    BY RowIs DEF Shape, NetShape
  <1>2. \A i \in DOMAIN subs :
          [subs[i] EXCEPT !.previous = subs[i].secret, !.until = now + overlap, !.secret = secret] =
             [consumer |-> subs[i].consumer, env |-> subs[i].env, topic |-> subs[i].topic,
              enabled |-> subs[i].enabled, secret |-> secret, previous |-> subs[i].secret, until |-> now + overlap]
    <2> TAKE i \in DOMAIN subs
    <2> DEFINE a == [subs[i] EXCEPT !.previous = subs[i].secret]
               b == [a EXCEPT !.until = now + overlap]
    <2>1. a = [consumer |-> subs[i].consumer, env |-> subs[i].env, topic |-> subs[i].topic,
               enabled |-> subs[i].enabled, secret |-> subs[i].secret, previous |-> subs[i].secret,
               until |-> subs[i].until]
      BY <1>1 DEF Row
    <2>2. [subs[i] EXCEPT !.previous = subs[i].secret, !.until = now + overlap, !.secret = secret]
             = [b EXCEPT !.secret = secret]
      BY <1>1 DEF Row
    <2> HIDE DEF a
    <2>3. b = [consumer |-> subs[i].consumer, env |-> subs[i].env, topic |-> subs[i].topic,
               enabled |-> subs[i].enabled, secret |-> subs[i].secret, previous |-> subs[i].secret,
               until |-> now + overlap]
      BY <2>1
    <2> HIDE DEF b
    <2> QED
      BY <2>2, <2>3
  <1>3. \A i \in DOMAIN subs :
          [subs[i] EXCEPT !.previous = subs[i].secret, !.until = now + overlap, !.secret = secret] \in Row
    <2> TAKE i \in DOMAIN subs
    <2>1. /\ subs[i].consumer \in Consumer /\ subs[i].env \in Env /\ subs[i].topic \in Topic
          /\ subs[i].enabled \in BOOLEAN /\ subs[i].secret \in Nat /\ now + overlap \in Int
      BY <1>1 DEF Row, Secret
    <2> QED
      BY <1>2, <2>1 DEF Row
  <1>4. subs' \in [DOMAIN subs -> Row] /\ \A i \in DOMAIN subs : subs'[i] = IF i \in rows
           THEN [subs[i] EXCEPT !.previous = subs[i].secret, !.until = now + overlap, !.secret = secret] ELSE subs[i]
    BY <1>1, <1>3 DEF Rotated
  <1>5. subs' \in Seq(Row) /\ DOMAIN subs' = DOMAIN subs
    BY <1>4, AsLong DEF Shape, RowShape
  <1>6. \A i \in rows : RowNow(i, subs[i].enabled, secret, subs[i].secret, now + overlap)
    BY <1>2, <1>4 DEF RowNow
  <1>7. \A i \in DOMAIN subs : [secret |-> subs[i].secret, until |-> now + overlap] \in Promise
    BY <1>1 DEF Row, Secret, Promise
  <1>8. /\ promised' \in [DOMAIN subs -> SUBSET Promise]
        /\ \A i \in rows : promised'[i] = promised[i] \union {[secret |-> subs[i].secret, until |-> now + overlap]}
        /\ \A i \in DOMAIN subs \ rows : promised'[i] = promised[i]
    BY <1>1, <1>7 DEF Rotated
  <1>9. promised' \in Seq(SUBSET Promise) /\ DOMAIN promised' = DOMAIN subs
    BY <1>8, AsLong DEF Shape, RowShape
  <1>10. /\ dropped' \in [DOMAIN subs -> SUBSET Nat]
         /\ \A i \in rows : dropped'[i] = dropped[i] \union (IF subs[i].until > now THEN {subs[i].previous} ELSE {})
         /\ \A i \in DOMAIN subs \ rows : dropped'[i] = dropped[i]
    BY <1>1 DEF Rotated, Row
  <1>11. dropped' \in Seq(SUBSET Nat) /\ DOMAIN dropped' = DOMAIN subs
    BY <1>10, AsLong DEF Shape, RowShape
  <1> QED
    BY <1>4, <1>5, <1>6, <1>8, <1>9, <1>10, <1>11

-----------------------------------------------------------------------------
(* Which steps change what.                                                *)
RowStep ==
    \/ RevokeCommits \/ ScriptRotates
    \/ \E r \in Request : Insert(r) \/ Toggle(r) \/ Rotate(r) \/ Apply(r)
    \/ \E i \in DOMAIN subs : Adopt(i)
    \/ \E c \in Service : Restart(c)
NetStep == Tick \/ (\E a \in App : Regrant(a) \/ \E scope \in Scope : Withdraw(a, scope)) \/ \E v \in news : Revoke(v)
ReqStep == \E r \in Request : Start(r) \/ Creates(r) \/ Changes(r) \/ Controls(r) \/ Abandon(r)
ControlStep == \E r \in Request : Look(r) \/ Keep(r) \/ Answer(r)

LEMMA Cases ==
  ASSUME [Next]_vars
  PROVE  /\ RowStep \/ UNCHANGED rowVars
         /\ RevokeCommits \/ (\E v \in news : Revoke(v)) \/ UNCHANGED revokeVars
         /\ NetStep \/ UNCHANGED <<plan, now, netVars>>
         /\ ControlStep \/ UNCHANGED controlVars
         /\ Script \/ Delivery \/ UNCHANGED sendVars
         /\ ReqStep \/ UNCHANGED req
         /\ NetStep \/ Revocation \/ Script \/ Delivery \/ Switch \/ ReqStep \/ UNCHANGED vars
  <1>1. CASE UNCHANGED vars
    BY <1>1 DEF vars
  <1>2. CASE Tick
    BY <1>2 DEF Tick, NetStep, rowVars, revokeVars, netVars, controlVars, sendVars, secretVars
  <1>3. CASE Network
    BY <1>3 DEF Network, Regrant, Withdraw, NetStep, rowVars, revokeVars, netVars, controlVars, sendVars, secretVars
  <1>4. CASE Revocation
    BY <1>4 DEF Revocation, Revoke, RevokeCommits, NetStep, RowStep, rowVars, revokeVars, netVars, controlVars,
                sendVars, secretVars
  <1>5. ASSUME NEW r \in Request, Start(r) \/ Abandon(r) PROVE ReqStep /\ UNCHANGED <<plan, now, rowVars, revokeVars, controlVars, netVars, sendVars>>
    BY <1>5 DEF ReqStep, Start, Abandon
  <1>6. ASSUME NEW r \in Request, Creates(r)
        PROVE  /\ ReqStep /\ UNCHANGED <<plan, now, revokeVars, controlVars, netVars, sendVars>>
               /\ RowStep \/ UNCHANGED rowVars
    BY <1>6 DEF ReqStep, Creates, Guard, Grant, Checked, FindTwin, CountOwn, CountProject, Statement, Insert, RowStep
  <1>7. ASSUME NEW r \in Request, Changes(r)
        PROVE  /\ ReqStep /\ UNCHANGED <<plan, now, revokeVars, controlVars, netVars, sendVars>>
               /\ RowStep \/ UNCHANGED rowVars
    BY <1>7 DEF ReqStep, Changes, NotFound, Toggle, Rotate, RowStep
  <1>8. ASSUME NEW r \in Request, Controls(r)
        PROVE  /\ ReqStep /\ UNCHANGED <<plan, now, revokeVars, netVars, sendVars>>
               /\ RowStep \/ UNCHANGED rowVars
               /\ ControlStep \/ UNCHANGED controlVars
    BY <1>8 DEF ReqStep, Controls, Look, Decide, Apply, Keep, Answer, RowStep, ControlStep
  <1>9. CASE Script
    BY <1>9 DEF Script, ScriptRotates, ScriptDies, ScriptLists, ScriptWrites, RowStep, rowVars, revokeVars, netVars,
                controlVars, sendVars, secretVars
  <1>10. CASE Delivery
    BY <1>10 DEF Delivery, Post, ReadRow, rowVars, revokeVars, netVars, controlVars, sendVars, secretVars
  <1>11. CASE Switch
    BY <1>11 DEF Switch, Adopt, Restart, RowStep, rowVars, revokeVars, netVars, controlVars, sendVars, secretVars
  <1> QED
    BY <1>1, <1>2, <1>3, <1>4, <1>5, <1>6, <1>7, <1>8, <1>9, <1>10, <1>11 DEF Next

-----------------------------------------------------------------------------
(* What the steps that write rows make of them.                            *)
LEMMA RevokedRows ==
  ASSUME Shape, RevokeCommits
  PROVE  /\ Turned(revoking.rows, FALSE)
         /\ \A i \in revoking.rows : i \in DOMAIN subs /\ subs[i].consumer = revoking.app
         /\ revoking \in [app : App, scope : Scope, at : Nat, rows : SUBSET Nat]
  <1>1. /\ revoking \in [app : App, scope : Scope, at : Nat, rows : SUBSET Nat]
        /\ \A i \in revoking.rows : i \in DOMAIN subs /\ subs[i].consumer = revoking.app
    BY DEF RevokeCommits, Shape, RevokeShape
  <1>2. subs' = [i \in DOMAIN subs |-> IF i \in revoking.rows THEN [subs[i] EXCEPT !.enabled = FALSE] ELSE subs[i]]
    BY DEF RevokeCommits
  <1> QED
    BY <1>1, <1>2, Turning

LEMMA ToggledRow ==
  ASSUME Shape, NEW r \in Request, Toggle(r)
  PROVE  /\ Op(r) \in {"enable", "disable"} /\ req[r].left # <<>>
         /\ \E i \in Own(r) \intersect Unlocked :
               /\ i \in DOMAIN subs /\ subs[i].consumer = By(r) /\ i \notin revoking.rows
               /\ Turned({i}, Op(r) = "enable")
               /\ origin' \in Seq(From) /\ DOMAIN origin' = DOMAIN origin
               /\ origin'[i] = [issued |-> req[r].issued, seen |-> req[r].seen, after |-> origin[i].after,
                                wrote |-> Len(stored) + (IF revoking = NoRevoking THEN 0 ELSE 1),
                                during |-> origin[i].during]
               /\ \A j \in DOMAIN subs \ {i} : origin'[j] = origin[j]
               /\ UNCHANGED secretVars
  <1>1. Op(r) \in {"enable", "disable"} /\ req[r].left # <<>> /\ req[r] \in ReqRec
    BY DEF Toggle, Shape, ReqShape, PcKnows
  <1>2. PICK i \in Own(r) \intersect Unlocked :
          /\ subs' = [subs EXCEPT ![i].enabled = (Op(r) = "enable")]
          /\ origin' = [origin EXCEPT ![i] = [Origin(r) EXCEPT !.after = origin[i].after, !.during = origin[i].during]]
    BY DEF Toggle
  <1>3. i \in DOMAIN subs /\ subs[i].consumer = By(r) /\ i \notin revoking.rows
    BY DEF Own, Of, Unlocked
  <1>4. Turned({i}, Op(r) = "enable")
    <2>1. (Op(r) = "enable") \in BOOLEAN
      OBVIOUS
    <2> QED
      BY <1>2, <1>3, <2>1, TurningOne
  <1> DEFINE wrote == Len(stored) + (IF revoking = NoRevoking THEN 0 ELSE 1)
             new == [issued |-> req[r].issued, seen |-> req[r].seen, after |-> origin[i].after, wrote |-> wrote,
                     during |-> origin[i].during]
  <1>5. [Origin(r) EXCEPT !.after = origin[i].after, !.during = origin[i].during] = new
    <2> DEFINE o == Origin(r)
               a == [o EXCEPT !.after = origin[i].after]
    <2>1. o = [issued |-> req[r].issued, seen |-> req[r].seen, after |-> req[r].after, wrote |-> wrote,
               during |-> operator.phase # "off"]
      BY DEF Origin
    <2> HIDE DEF o, wrote
    <2>2. a = [issued |-> req[r].issued, seen |-> req[r].seen, after |-> origin[i].after, wrote |-> wrote,
               during |-> operator.phase # "off"]
      BY <2>1
    <2>3. [o EXCEPT !.after = origin[i].after, !.during = origin[i].during] = [a EXCEPT !.during = origin[i].during]
      BY <2>1
    <2> HIDE DEF a
    <2>4. [a EXCEPT !.during = origin[i].during] = new
      BY <2>2
    <2> QED
      BY <2>3, <2>4 DEF o
  <1>6. new \in From
    <2>1. Len(stored) \in Nat
      BY LenProperties DEF Shape, RevokeShape
    <2>2. wrote \in Nat
      BY <2>1
    <2> HIDE DEF wrote
    <2> QED
      BY <1>1, <1>3, <2>2, RowIs DEF ReqRec, From
  <1>7. origin' = [origin EXCEPT ![i] = new]
    BY <1>2, <1>5
  <1> HIDE DEF new
  <1>8. /\ origin' \in [DOMAIN origin -> From] /\ origin'[i] = new
        /\ \A j \in DOMAIN subs \ {i} : origin'[j] = origin[j]
    <2>1. \A j \in DOMAIN origin : origin[j] \in From
      BY RowIs DEF Shape, RowShape
    <2>2. DOMAIN origin = DOMAIN subs
      BY DEF Shape, RowShape
    <2>3. origin \in [DOMAIN origin -> From]
      BY <2>1, Places, IsASeq DEF Shape, RowShape
    <2> QED
      BY <1>3, <1>6, <1>7, <2>2, <2>3
  <1>9. origin' \in Seq(From) /\ DOMAIN origin' = DOMAIN origin
    BY <1>8, AsLong DEF Shape, RowShape
  <1> QED
    BY <1>1, <1>3, <1>4, <1>8, <1>9 DEF Toggle, new

LEMMA AppliedRow ==
  ASSUME Shape, NEW r \in Request, Apply(r)
  PROVE  /\ Op(r) = "control" /\ req[r].left # <<>>
         /\ Head(req[r].left).row \in DOMAIN subs /\ subs[Head(req[r].left).row].consumer \in Person
         /\ Turned({Head(req[r].left).row}, Head(req[r].left).enable)
         /\ UNCHANGED <<origin, secretVars>>
  <1>1. Op(r) = "control" /\ req[r].left # <<>> /\ subs[Head(req[r].left).row].consumer \in Person
    BY DEF Apply, Shape, ReqShape, PcKnows
  <1>2. Head(req[r].left).row \in DOMAIN subs /\ Head(req[r].left).enable \in BOOLEAN
    BY <1>1, CallIs DEF Shape, RowShape
  <1>3. subs' = [subs EXCEPT ![Head(req[r].left).row].enabled = Head(req[r].left).enable]
    BY DEF Apply
  <1>4. Turned({Head(req[r].left).row}, Head(req[r].left).enable)
    BY <1>2, <1>3, TurningOne
  <1> QED
    BY <1>1, <1>2, <1>4 DEF Apply

LEMMA InsertedRow ==
  ASSUME Shape, NEW r \in Request, Insert(r)
  PROVE  LET call == Head(req[r].left)
             secret == IF call.by \in App THEN NewSecret ELSE file[call.by]
             n == Len(subs) + 1
         IN  /\ Op(r) = "create" /\ req[r].left # <<>> /\ secret \in Secret
             /\ By(r) \in App \union Service /\ call.env \in Env /\ call.topic \in Topic
             /\ RowShape' /\ DOMAIN subs = 1..(n - 1) /\ n \in Nat /\ DOMAIN subs' = 1..n
             /\ \A i \in DOMAIN subs : /\ subs'[i] = subs[i] /\ origin'[i] = origin[i]
                                       /\ held'[i] = held[i] /\ told'[i] = told[i]
                                       /\ promised'[i] = promised[i] /\ dropped'[i] = dropped[i]
             /\ subs'[n] = [consumer |-> By(r), env |-> call.env, topic |-> call.topic, enabled |-> TRUE,
                            secret |-> secret, previous |-> NoSecret, until |-> NoTime]
             /\ origin'[n] = Origin(r)
             /\ held'[n] = secret /\ told'[n] = secret /\ promised'[n] = {} /\ dropped'[n] = {}
  <1> DEFINE call == Head(req[r].left)
             secret == IF call.by \in App THEN NewSecret ELSE file[call.by]
             n == Len(subs) + 1
             new == [consumer |-> call.by, env |-> call.env, topic |-> call.topic, enabled |-> TRUE,
                     secret |-> secret, previous |-> NoSecret, until |-> NoTime]
  <1>1. Op(r) = "create" /\ req[r].left # <<>> /\ req[r] \in ReqRec
    BY DEF Insert, Shape, ReqShape, PcKnows
  <1>2. By(r) \in App \union Service /\ call.env \in Env /\ call.topic \in Topic /\ call.by = By(r)
    BY <1>1, CallIs DEF By
  <1>3. secret \in Secret
    BY <1>2, Newest DEF Shape, SendShape
  <1>4. /\ subs' = Append(subs, new) /\ held' = Append(held, secret) /\ told' = Append(told, secret)
        /\ origin' = Append(origin, Origin(r)) /\ promised' = Append(promised, {}) /\ dropped' = Append(dropped, {})
    BY DEF Insert
  <1> HIDE DEF secret
  <1>5. new \in Row
    BY <1>2, <1>3 DEF Row, Consumer, NoSecret, NoTime
  <1>6. Origin(r) \in From
    <2>1. Len(stored) \in Nat
      BY LenProperties DEF Shape, RevokeShape
    <2>2. Len(stored) + (IF revoking = NoRevoking THEN 0 ELSE 1) \in Nat
      BY <2>1
    <2>3. (operator.phase # "off") \in BOOLEAN
      OBVIOUS
    <2> QED
      BY <1>1, <2>2, <2>3 DEF Origin, ReqRec, From
  <1>7. /\ subs \in Seq(Row) /\ origin \in Seq(From) /\ held \in Seq(Nat) /\ told \in Seq(Nat)
        /\ promised \in Seq(SUBSET Promise) /\ dropped \in Seq(SUBSET Nat) /\ DOMAIN Initial \subseteq DOMAIN subs
        /\ DOMAIN origin = DOMAIN subs /\ DOMAIN held = DOMAIN subs /\ DOMAIN told = DOMAIN subs
        /\ DOMAIN promised = DOMAIN subs /\ DOMAIN dropped = DOMAIN subs
    BY DEF Shape, RowShape
  <1>8. /\ DOMAIN subs = 1..Len(subs) /\ Len(subs) \in Nat
        /\ Len(origin) = Len(subs) /\ Len(held) = Len(subs) /\ Len(told) = Len(subs)
        /\ Len(promised) = Len(subs) /\ Len(dropped) = Len(subs)
    BY <1>7, LenProperties
  <1> HIDE DEF new
  <1>9. secret \in Nat /\ {} \in SUBSET Promise /\ {} \in SUBSET Nat
    BY <1>3 DEF Secret
  <1>10. /\ subs' \in Seq(Row) /\ DOMAIN subs' = 1..n /\ subs'[n] = new
         /\ \A i \in DOMAIN subs : subs'[i] = subs[i]
    BY <1>4, <1>5, <1>7, <1>8, OneMore
  <1>11. /\ origin' \in Seq(From) /\ DOMAIN origin' = 1..n /\ origin'[n] = Origin(r)
         /\ \A i \in DOMAIN subs : origin'[i] = origin[i]
    BY <1>4, <1>6, <1>7, <1>8, OneMore
  <1>12. /\ held' \in Seq(Nat) /\ DOMAIN held' = 1..n /\ held'[n] = secret
         /\ \A i \in DOMAIN subs : held'[i] = held[i]
    BY <1>4, <1>7, <1>8, <1>9, OneMore
  <1>16. /\ told' \in Seq(Nat) /\ DOMAIN told' = 1..n /\ told'[n] = secret
         /\ \A i \in DOMAIN subs : told'[i] = told[i]
    BY <1>4, <1>7, <1>8, <1>9, OneMore
  <1>13. /\ promised' \in Seq(SUBSET Promise) /\ DOMAIN promised' = 1..n /\ promised'[n] = {}
         /\ \A i \in DOMAIN subs : promised'[i] = promised[i]
    BY <1>4, <1>7, <1>8, <1>9, OneMore
  <1>14. /\ dropped' \in Seq(SUBSET Nat) /\ DOMAIN dropped' = 1..n /\ dropped'[n] = {}
         /\ \A i \in DOMAIN subs : dropped'[i] = dropped[i]
    BY <1>4, <1>7, <1>8, <1>9, OneMore
  <1>15. RowShape'
    BY <1>7, <1>8, <1>10, <1>11, <1>12, <1>13, <1>14, <1>16 DEF RowShape
  <1>17. n \in Nat /\ DOMAIN subs = 1..(n - 1)
    BY <1>8
  <1>18. new = [consumer |-> By(r), env |-> call.env, topic |-> call.topic, enabled |-> TRUE,
                secret |-> secret, previous |-> NoSecret, until |-> NoTime]
    BY <1>2 DEF new
  <1> HIDE DEF n, call
  <1>19. /\ subs'[n] = [consumer |-> By(r), env |-> call.env, topic |-> call.topic, enabled |-> TRUE,
                        secret |-> secret, previous |-> NoSecret, until |-> NoTime]
         /\ origin'[n] = Origin(r) /\ held'[n] = secret /\ told'[n] = secret
         /\ promised'[n] = {} /\ dropped'[n] = {}
    BY <1>10, <1>11, <1>12, <1>13, <1>14, <1>16, <1>18
  <1>20. \A i \in DOMAIN subs : /\ subs'[i] = subs[i] /\ origin'[i] = origin[i]
                                /\ held'[i] = held[i] /\ told'[i] = told[i]
                                /\ promised'[i] = promised[i] /\ dropped'[i] = dropped[i]
    BY <1>10, <1>11, <1>12, <1>13, <1>14, <1>16
  <1> QED
    BY <1>1, <1>2, <1>3, <1>10, <1>15, <1>17, <1>19, <1>20 DEF n, secret, call

(* A secret of its own, or the script's: what the rotations make.          *)
LEMMA RotatedRow ==
  ASSUME Shape, NEW r \in Request, Rotate(r)
  PROVE  /\ Op(r) = "rotate" /\ req[r].left # <<>> /\ Head(req[r].left).overlap \in Nat
         /\ UNCHANGED <<origin, held>>
         /\ \E i \in DOMAIN subs :
               /\ i \notin revoking.rows
               /\ Rotated({i}, NewSecret, Head(req[r].left).overlap)
               /\ told' \in Seq(Nat) /\ DOMAIN told' = DOMAIN subs
               /\ told' = told \/ (told'[i] = NewSecret /\ \A j \in DOMAIN subs \ {i} : told'[j] = told[j])
  <1>1. Op(r) = "rotate" /\ req[r].left # <<>>
    BY DEF Rotate, Shape, ReqShape, PcKnows
  <1>2. PICK i \in Own(r) \intersect Unlocked :
          /\ Rotated({i}, NewSecret, Head(req[r].left).overlap)
          /\ told' \in {told, [told EXCEPT ![i] = NewSecret]}
    BY DEF Rotate
  <1>3. i \in DOMAIN subs /\ i \notin revoking.rows
    BY DEF Own, Of, Unlocked
  <1>4. told \in Seq(Nat) /\ DOMAIN told = DOMAIN subs /\ NewSecret \in Nat
    BY Newest DEF Shape, RowShape, Secret
  <1> HIDE DEF NewSecret
  <1>5. told \in [DOMAIN told -> Nat]
    BY <1>4, Places, IsASeq
  <1>6. told' \in [DOMAIN told -> Nat]
    BY <1>2, <1>4, <1>5
  <1>7. told' \in Seq(Nat) /\ DOMAIN told' = DOMAIN subs
    BY <1>4, <1>6, AsLong
  <1> QED
    BY <1>1, <1>2, <1>3, <1>4, <1>5, <1>7, CallIs DEF Rotate

LEMMA RowShapeNext ==
  ASSUME Shape, [Next]_vars
  PROVE  RowShape' /\ SameRows
  <1>1. ASSUME UNCHANGED rowVars PROVE RowShape' /\ SameRows
    BY <1>1 DEF Shape, RowShape, SameRows, rowVars, secretVars
  <1>2. ASSUME NEW rows \in SUBSET DOMAIN subs, NEW on \in BOOLEAN, Turned(rows, on), UNCHANGED secretVars,
               origin' \in Seq(From), DOMAIN origin' = DOMAIN origin
        PROVE  RowShape' /\ SameRows
    <2>1. SameRows
      <3> SUFFICES ASSUME NEW j \in DOMAIN subs
                   PROVE  subs'[j].consumer = subs[j].consumer /\ subs'[j].env = subs[j].env /\ subs'[j].topic = subs[j].topic
        BY <1>2 DEF SameRows, Turned
      <3>1. CASE j \in rows
        <4>1. RowNow(j, on, subs[j].secret, subs[j].previous, subs[j].until)
          BY <1>2, <3>1 DEF Turned
        <4> QED
          BY <4>1 DEF RowNow
      <3>2. CASE j \notin rows
        BY <1>2, <3>2 DEF Turned
      <3> QED
        BY <3>1, <3>2
    <2>2. RowShape'
      BY <1>2 DEF Shape, RowShape, Turned, secretVars
    <2> QED
      BY <2>1, <2>2
  <1>3. ASSUME RevokeCommits PROVE RowShape' /\ SameRows
    <2>1. Turned(revoking.rows, FALSE) /\ revoking.rows \in SUBSET DOMAIN subs
      BY <1>3, RevokedRows
    <2>2. UNCHANGED <<origin, secretVars>> /\ origin \in Seq(From)
      BY <1>3 DEF RevokeCommits, Shape, RowShape
    <2> QED
      BY <1>2, <2>1, <2>2
  <1>4. ASSUME NEW r \in Request, Toggle(r) PROVE RowShape' /\ SameRows
    <2>1. (Op(r) = "enable") \in BOOLEAN
      OBVIOUS
    <2> QED
      BY <1>2, <1>4, <2>1, ToggledRow
  <1>5. ASSUME NEW r \in Request, Apply(r) PROVE RowShape' /\ SameRows
    <2>1. Head(req[r].left).enable \in BOOLEAN
      BY <1>5, AppliedRow, CallIs
    <2>2. origin \in Seq(From)
      BY DEF Shape, RowShape
    <2> QED
      BY <1>2, <1>5, <2>1, <2>2, AppliedRow
  <1>6. ASSUME NEW r \in Request, Insert(r) PROVE RowShape' /\ SameRows
    <2> DEFINE n == Len(subs) + 1
    <2>1. RowShape' /\ DOMAIN subs = 1..(n - 1) /\ n \in Nat /\ DOMAIN subs' = 1..n
      BY <1>6, InsertedRow
    <2>2. \A i \in DOMAIN subs : subs'[i] = subs[i]
      BY <1>6, InsertedRow
    <2> HIDE DEF n
    <2> QED
      BY <2>1, <2>2 DEF SameRows
  <1>7. ASSUME NEW rows \in SUBSET DOMAIN subs, NEW secret \in Secret, NEW overlap \in Nat,
               Rotated(rows, secret, overlap), UNCHANGED <<origin, held>>, told' \in Seq(Nat), DOMAIN told' = DOMAIN subs
        PROVE  RowShape' /\ SameRows
    <2>1. /\ subs' \in Seq(Row) /\ DOMAIN subs' = DOMAIN subs
          /\ \A i \in rows : RowNow(i, subs[i].enabled, secret, subs[i].secret, now + overlap)
          /\ \A i \in DOMAIN subs \ rows : subs'[i] = subs[i]
          /\ promised' \in Seq(SUBSET Promise) /\ DOMAIN promised' = DOMAIN subs
          /\ dropped' \in Seq(SUBSET Nat) /\ DOMAIN dropped' = DOMAIN subs
      BY <1>7, Rotating
    <2> QED
      <3>1. SameRows
        <4> SUFFICES ASSUME NEW j \in DOMAIN subs
                     PROVE  subs'[j].consumer = subs[j].consumer /\ subs'[j].env = subs[j].env /\ subs'[j].topic = subs[j].topic
          BY <2>1 DEF SameRows
        <4>1. CASE j \in rows
          <5>1. RowNow(j, subs[j].enabled, secret, subs[j].secret, now + overlap)
            BY <2>1, <4>1
          <5> QED
            BY <5>1 DEF RowNow
        <4>2. CASE j \notin rows
          BY <2>1, <4>2
        <4> QED
          BY <4>1, <4>2
      <3>2. RowShape'
        BY <1>7, <2>1 DEF Shape, RowShape
      <3> QED
        BY <3>1, <3>2
  <1>8. ASSUME NEW r \in Request, Rotate(r) PROVE RowShape' /\ SameRows
    <2>1. PICK i \in DOMAIN subs : /\ Rotated({i}, NewSecret, Head(req[r].left).overlap)
                                   /\ told' \in Seq(Nat) /\ DOMAIN told' = DOMAIN subs
      BY <1>8, RotatedRow
    <2>2. {i} \in SUBSET DOMAIN subs /\ Head(req[r].left).overlap \in Nat /\ UNCHANGED <<origin, held>>
      BY <1>8, RotatedRow
    <2> QED
      BY <1>7, <2>1, <2>2, Newest
  <1>9. ASSUME ScriptRotates PROVE RowShape' /\ SameRows
    <2>1. Rotated(operator.rows, NewSecret, OperatorOverlap) /\ UNCHANGED <<origin, held, told>>
      BY <1>9 DEF ScriptRotates
    <2>2. operator.rows \in SUBSET DOMAIN subs /\ told \in Seq(Nat) /\ DOMAIN told = DOMAIN subs
      BY DEF Shape, SendShape, RowShape
    <2> QED
      BY <1>7, <2>1, <2>2, Newest, SubscriptionBounds
  <1>10. ASSUME held' \in [DOMAIN held -> Nat], UNCHANGED <<subs, origin, told, promised, dropped>>
         PROVE  RowShape' /\ SameRows
    <2>1. held' \in Seq(Nat) /\ DOMAIN held' = DOMAIN held
      BY <1>10, AsLong DEF Shape, RowShape
    <2> QED
      BY <1>10, <2>1 DEF Shape, RowShape, SameRows
  <1>11. ASSUME NEW i \in DOMAIN subs, Adopt(i) PROVE RowShape' /\ SameRows
    <2>1. held \in [DOMAIN held -> Nat] /\ told[i] \in Nat
      BY RowIs, Places, IsASeq DEF Shape, RowShape
    <2> QED
      BY <1>10, <1>11, <2>1 DEF Adopt
  <1>12. ASSUME NEW c \in Service, Restart(c) PROVE RowShape' /\ SameRows
    <2>1. \A i \in DOMAIN subs : held[i] \in Nat
      BY RowIs
    <2>2. file[c] \in Nat /\ DOMAIN held = DOMAIN subs
      BY DEF Shape, SendShape, RowShape, Secret
    <2> QED
      BY <1>10, <1>12, <2>1, <2>2 DEF Restart
  <1> QED
    BY <1>1, <1>3, <1>4, <1>5, <1>6, <1>8, <1>9, <1>11, <1>12, Cases DEF RowStep

LEMMA NetShapeNext ==
  ASSUME Shape, [Next]_vars
  PROVE  NetShape'
  <1>1. CASE UNCHANGED <<plan, now, netVars>>
    BY <1>1 DEF Shape, NetShape, netVars
  <1>2. CASE Tick
    BY <1>2 DEF Tick, Shape, NetShape, PlanRec
  <1>3. ASSUME NEW a \in App, Regrant(a) PROVE NetShape'
    BY <1>3 DEF Regrant, Shape, NetShape
  <1>4. ASSUME NEW a \in App, NEW scope \in Scope, Withdraw(a, scope) PROVE NetShape'
    BY <1>4 DEF Withdraw, Shape, NetShape, News
  <1>5. ASSUME NEW v \in news, Revoke(v) PROVE NetShape'
    BY <1>5 DEF Revoke, Shape, NetShape
  <1> QED
    BY <1>1, <1>2, <1>3, <1>4, <1>5, Cases DEF NetStep

LEMMA RevokeShapeNext ==
  ASSUME Shape, [Next]_vars
  PROVE  RevokeShape'
  <1>1. SameRows
    BY RowShapeNext
  <1>2. CASE UNCHANGED revokeVars
    BY <1>1, <1>2 DEF Shape, RevokeShape, SameRows, revokeVars
  <1>3. ASSUME NEW v \in news, Revoke(v) PROVE RevokeShape'
    <2> DEFINE rows == {i \in DOMAIN subs : subs[i].consumer = v.app /\ subs[i].enabled}
    <2>1. revoking' = [app |-> v.app, scope |-> v.scope, at |-> v.at, rows |-> rows] /\ UNCHANGED <<subs, revoked, stored>>
      BY <1>3 DEF Revoke, rowVars
    <2>2. v \in News /\ rows \in SUBSET Nat
      BY Places DEF Shape, NetShape, RowShape
    <2>3. revoking' \in [app : App, scope : Scope, at : Nat, rows : SUBSET Nat]
      BY <2>1, <2>2 DEF News
    <2> QED
      BY <2>1, <2>3 DEF Shape, RevokeShape
  <1>4. CASE RevokeCommits
    <2>1. revoking \in [app : App, scope : Scope, at : Nat, rows : SUBSET Nat]
      BY <1>4, RevokedRows
    <2>2. stored' \in Seq(News)
      <3>1. [app |-> revoking.app, scope |-> revoking.scope, at |-> revoking.at] \in News
        BY <2>1 DEF News
      <3> QED
        BY <1>4, <3>1, AppendProperties DEF RevokeCommits, Shape, RevokeShape
    <2>3. revoked' \in [App \X Scope -> Int]
      <3>1. <<revoking.app, revoking.scope>> \in App \X Scope
        BY <2>1
      <3>2. Latest(revoked[<<revoking.app, revoking.scope>>], revoking.at) \in Int
        BY <2>1, <3>1 DEF Latest, Shape, RevokeShape
      <3> QED
        BY <1>4, <3>1, <3>2 DEF RevokeCommits, Shape, RevokeShape
    <2> QED
      BY <1>4, <2>2, <2>3 DEF RevokeCommits, RevokeShape
  <1> QED
    BY <1>2, <1>3, <1>4, Cases

LEMMA ControlShapeNext ==
  ASSUME Shape, [Next]_vars
  PROVE  ControlShape'
  <1>1. CASE UNCHANGED controlVars
    BY <1>1 DEF Shape, ControlShape, controlVars
  <1>2. ASSUME NEW r \in Request, req[r].pc \in {"look", "keep", "answer"}
        PROVE  Head(req[r].left).key \in Key /\ Entry(Head(req[r].left)) \in [kept : BOOLEAN, enable : BOOLEAN, dry : BOOLEAN]
    <2>1. req[r].left # <<>> /\ Op(r) = "control"
      BY <1>2 DEF Shape, ReqShape, PcKnows
    <2> QED
      BY <2>1, CallIs DEF Entry
  <1>3. ASSUME NEW r \in Request, Look(r) PROVE ControlShape'
    BY <1>2, <1>3 DEF Look, Shape, ControlShape
  <1>4. ASSUME NEW r \in Request, Keep(r) PROVE ControlShape'
    BY <1>2, <1>4 DEF Keep, Kept, Shape, ControlShape
  <1>5. ASSUME NEW r \in Request, Answer(r) PROVE ControlShape'
    BY <1>2, <1>5 DEF Answer, Shape, ControlShape
  <1> QED
    BY <1>1, <1>3, <1>4, <1>5, Cases DEF ControlStep

LEMMA SendShapeNext ==
  ASSUME Shape, [Next]_vars
  PROVE  SendShape'
  <1>1. DOMAIN subs \subseteq DOMAIN subs' /\ DOMAIN subs \subseteq Nat
    BY RowShapeNext, Places, SMTT(30) DEF SameRows, Shape, RowShape
  <1>2. CASE UNCHANGED sendVars
    BY <1>1, <1>2 DEF Shape, SendShape, sendVars
  <1>3. CASE Script
    <2> DEFINE script == /\ operator' \in ScriptRec /\ operator'.rows \subseteq DOMAIN subs
                         /\ operator'.phase = "rotated" => operator'.secret \in Secret
    <2>1. operator \in ScriptRec /\ operator.rows \subseteq DOMAIN subs /\ operator.runs \in Nat
      BY DEF Shape, SendShape, ScriptRec
    <2>2. ASSUME operator' = [NoScript EXCEPT !.runs = operator.runs] PROVE script
      <3>1. operator' = [phase |-> "off", rows |-> {}, secret |-> NoSecret, runs |-> operator.runs]
        BY <2>2 DEF NoScript
      <3> QED
        BY <2>1, <3>1 DEF NoSecret, ScriptRec
    <2>3. ASSUME ScriptDies PROVE script /\ UNCHANGED <<file, send>>
      BY <2>2, <2>3 DEF ScriptDies
    <2>4. ASSUME NEW c \in Service, ScriptLists(c) PROVE script /\ UNCHANGED <<file, send>>
      <3>1. Of(c) \subseteq DOMAIN subs
        BY DEF Of
      <3> QED
        BY <1>1, <2>1, <2>4, <3>1 DEF ScriptLists, NoSecret, ScriptRec
    <2>5. ASSUME NEW c \in Service, ScriptWrites(c)
          PROVE  script /\ file' \in [Service -> Secret] /\ UNCHANGED send
      <3>1. script
        BY <2>2, <2>5 DEF ScriptWrites
      <3> HIDE DEF script
      <3> QED
        BY <2>5, <3>1 DEF ScriptWrites, Shape, SendShape
    <2>6. ASSUME ScriptRotates PROVE script /\ UNCHANGED <<file, send>>
      <3> DEFINE a == [operator EXCEPT !.phase = "rotated"]
      <3>1. operator' = [a EXCEPT !.secret = NewSecret]
        BY <2>6 DEF ScriptRotates
      <3>2. a \in ScriptRec /\ a.rows = operator.rows
        BY <2>1 DEF ScriptRec
      <3>3. NewSecret \in Nat /\ NewSecret \in Secret
        BY Newest DEF Secret
      <3> HIDE DEF a, NewSecret
      <3>4. operator' \in ScriptRec /\ operator'.rows = operator.rows /\ operator'.secret = NewSecret
        BY <3>1, <3>2, <3>3 DEF ScriptRec
      <3> QED
        BY <2>1, <2>6, <3>3, <3>4 DEF ScriptRotates
    <2>7. script /\ file' \in [Service -> Secret] /\ UNCHANGED send
      <3>1. file \in [Service -> Secret]
        BY DEF Shape, SendShape
      <3> HIDE DEF script
      <3> QED
        BY <1>3, <2>3, <2>4, <2>5, <2>6, <3>1 DEF Script
    <2> QED
      BY <1>1, <2>7 DEF Shape, SendShape
  <1>4. CASE Delivery
    <2>1. UNCHANGED <<operator, file>>
      BY <1>4 DEF Delivery, Post, ReadRow
    <2>2. send' \in SendRec /\ send'.row \in {0} \union DOMAIN subs
      <3>1. CASE Post
        BY <3>1 DEF Post, NoSend, SendRec, NoSecret, NoTime
      <3>2. ASSUME NEW i \in DOMAIN subs, ReadRow(i) PROVE send' \in SendRec /\ send'.row \in {0} \union DOMAIN subs
        <4>1. subs[i].secret \in Nat /\ subs[i].previous \in Nat /\ subs[i].until \in Int /\ i \in Nat
          BY <1>1, RowIs DEF Row, Secret
        <4> QED
          BY <3>2, <4>1 DEF ReadRow, SendRec
      <3> QED
        BY <1>4, <3>1, <3>2 DEF Delivery
    <2> QED
      BY <1>1, <2>1, <2>2 DEF Shape, SendShape
  <1> QED
    BY <1>2, <1>3, <1>4, Cases

-----------------------------------------------------------------------------
(* What a step makes of a request.                                         *)
Stays(r) == req' \in [Request -> ReqRec] /\ \A q \in Request \ {r} : req'[q] = req[q]
SameCall(r) == req'[r].left = req[r].left /\ req[r].left # <<>>

(* A statement of a request takes it where it knows what it did before.    *)
Asked(r) ==
    /\ SameCall(r) /\ req'[r].issued = req[r].issued /\ req'[r].pc # "idle"
    /\ \/ req'[r].seen = req[r].seen
       \/ \E scope \in Scope :
             /\ req'[r].seen = [req[r].seen EXCEPT ![scope] = Len(stored)]
             /\ AppCall(r) => ~Revoked(req[r].issued, revoked[<<By(r), scope>>])

LEMMA Statements ==
  ASSUME Shape, NEW r \in Request, Start(r) \/ Creates(r) \/ Changes(r) \/ Controls(r) \/ Abandon(r)
  PROVE  /\ Stays(r) /\ req[r].left # <<>>
         /\ Done(r) \/ (Start(r) /\ SameCall(r)) \/ Asked(r)
         /\ PcKnows(r)'
  <1>1. \A i \in DOMAIN Initial : i \in DOMAIN subs
    BY DEF Shape, RowShape
  <1>2. PcKnows(r) /\ req[r] \in ReqRec /\ req[r].seen \in Seen /\ Len(stored) \in Nat
    BY LenProperties DEF Shape, ReqShape, RevokeShape, ReqRec
  <1>3. ASSUME Done(r), req[r].left # <<>>
        PROVE  Stays(r) /\ PcKnows(r)'
    BY <1>3 DEF Done, ReqIs, Stays, PcKnows
  <1>4. ASSUME Start(r) PROVE Stays(r) /\ SameCall(r) /\ PcKnows(r)'
    <2>1. req[r].left # <<>>
      BY <1>4, StartIs
    <2>2. PICK pc \in {"look", "guard", "twin", "rotate", "toggle"} :
            /\ pc = "look" => Op(r) = "control"
            /\ pc = "guard" => AppCall(r)
            /\ pc = "twin" => Op(r) = "create" /\ ~AppCall(r)
            /\ pc = "rotate" => Op(r) = "rotate" /\ ~AppCall(r)
            /\ pc = "toggle" => Op(r) \notin {"control", "create", "rotate"} /\ ~AppCall(r)
            /\ \E issued, fresh : ReqIs(r, pc, req[r].left, issued, req[r].seen, req[r].after, fresh)
      <3>1. CASE Op(r) = "control" /\ ReqIs(r, "look", req[r].left, req[r].issued, req[r].seen, req[r].after,
                                             Head(req[r].left).key \notin answered)
        BY <3>1, Zenon
      <3>2. CASE AppCall(r) /\ \E at \in tokens[By(r)] :
                    ReqIs(r, "guard", req[r].left, at, req[r].seen, req[r].after, req[r].fresh)
        BY <3>2, Zenon
      <3>3. ASSUME NEW pc \in {"twin", "rotate", "toggle"}, Op(r) # "control", By(r) \notin App,
                   pc = "twin" => Op(r) = "create", pc = "rotate" => Op(r) = "rotate",
                   pc = "toggle" => Op(r) \notin {"create", "rotate"},
                   ReqIs(r, pc, req[r].left, now, req[r].seen, req[r].after, req[r].fresh)
            PROVE  /\ pc = "twin" => Op(r) = "create" /\ ~AppCall(r)
                   /\ pc = "rotate" => Op(r) = "rotate" /\ ~AppCall(r)
                   /\ pc = "toggle" => Op(r) \notin {"control", "create", "rotate"} /\ ~AppCall(r)
                   /\ pc # "look" /\ pc # "guard"
        BY <3>3 DEF AppCall
      <3> QED
        BY <1>4, <3>1, <3>2, <3>3, StartIs
    <2>3. Stays(r) /\ req'[r].left = req[r].left /\ req'[r].pc = pc
      BY <2>2 DEF ReqIs, Stays
    <2>4. Op(r)' = Op(r) /\ By(r)' = By(r) /\ (AppCall(r)' <=> AppCall(r))
      BY <2>3 DEF Op, By, AppCall
    <2>5. Op(r) \in {"create", "enable", "disable", "rotate", "control"}
      BY <2>1, CallIs
    <2> QED
      BY <2>1, <2>2, <2>3, <2>4, <2>5 DEF PcKnows, SameCall, AppCall
  <1>5. ASSUME NEW pc \in Pc, Same(r, pc), req[r].pc # "idle", pc # "idle"
        PROVE  Stays(r) /\ Asked(r) /\ req[r].left # <<>>
               /\ req'[r].pc = pc /\ req'[r].seen = req[r].seen
               /\ Op(r)' = Op(r) /\ By(r)' = By(r) /\ (AppCall(r)' <=> AppCall(r))
               /\ Head(req'[r].left) = Head(req[r].left)
    BY <1>2, <1>5 DEF Same, ReqIs, Stays, Asked, SameCall, Op, By, AppCall, PcKnows
  <1>6. ASSUME NEW pc \in Pc, NEW scope \in Scope, NEW next \in Pc, Checked(r, pc, scope, next),
               pc # "idle", next # "idle"
        PROVE  /\ Stays(r) /\ req[r].left # <<>>
               /\ \/ Done(r)
                  \/ /\ Asked(r) /\ req'[r].pc = next
                     /\ req'[r].seen = [req[r].seen EXCEPT ![scope] = Len(stored)]
                     /\ Op(r)' = Op(r) /\ By(r)' = By(r) /\ (AppCall(r)' <=> AppCall(r))
    <2>1. req[r].left # <<>>
      BY <1>2, <1>6 DEF Checked, PcKnows
    <2>2. CASE Done(r)
      BY <1>3, <2>1, <2>2
    <2>3. CASE /\ ~Revoked(req[r].issued, revoked[<<By(r), scope>>])
               /\ ReqIs(r, next, req[r].left, req[r].issued, [req[r].seen EXCEPT ![scope] = Len(stored)],
                        req[r].after, req[r].fresh)
      <3>1. /\ Stays(r) /\ SameCall(r) /\ req'[r].pc = next /\ req'[r].issued = req[r].issued
            /\ req'[r].seen = [req[r].seen EXCEPT ![scope] = Len(stored)]
        BY <2>1, <2>3 DEF ReqIs, Stays, SameCall
      <3>2. Op(r)' = Op(r) /\ By(r)' = By(r) /\ (AppCall(r)' <=> AppCall(r))
        BY <3>1 DEF SameCall, Op, By, AppCall
      <3> QED
        BY <1>6, <2>1, <2>3, <3>1, <3>2 DEF Asked
    <2> QED
      BY <1>6, <2>1, <2>2, <2>3, CheckedIs
  <1>7. ASSUME Guard(r) PROVE Stays(r) /\ req[r].left # <<>> /\ (Done(r) \/ Asked(r)) /\ PcKnows(r)'
    <2>1. "guard" \in Pc /\ AfterGuard(Op(r)) \in {"grant", "toggle", "rotate"} /\ AfterGuard(Op(r)) \in Pc
          /\ req[r].pc = "guard"
      BY <1>7 DEF Pc, AfterGuard, Guard, Checked
    <2>2. /\ AfterGuard(Op(r)) = "grant" => Op(r) \in {"create", "enable"}
          /\ AfterGuard(Op(r)) = "toggle" => Op(r) = "disable"
          /\ AfterGuard(Op(r)) = "rotate" => Op(r) = "rotate"
      BY <1>2, <2>1 DEF AfterGuard, PcKnows
    <2>3. CASE Done(r)
      BY <1>3, <1>6, <1>7, <2>1, <2>3 DEF Guard, Scope
    <2>4. CASE ~Done(r)
      <3>1. /\ Stays(r) /\ Asked(r) /\ req[r].left # <<>> /\ req'[r].pc = AfterGuard(Op(r))
            /\ req'[r].seen = [req[r].seen EXCEPT !["app"] = Len(stored)]
            /\ Op(r)' = Op(r) /\ (AppCall(r)' <=> AppCall(r))
        BY <1>6, <1>7, <2>1, <2>4 DEF Guard, Scope
      <3>2. req'[r].seen["app"] # Unchecked
        BY <1>2, <3>1 DEF Seen, Scope, Unchecked
      <3>3. PcKnows(r)'
        BY <1>2, <2>1, <2>2, <3>1, <3>2 DEF PcKnows, Asked, SameCall, AppCall
      <3> QED
        BY <3>1, <3>3
    <2> QED
      BY <2>3, <2>4
  <1>8. ASSUME Grant(r) PROVE Stays(r) /\ req[r].left # <<>> /\ (Done(r) \/ Asked(r)) /\ PcKnows(r)'
    <2> DEFINE next == IF Op(r) = "create" THEN "twin" ELSE "toggle"
    <2>1. "grant" \in Pc /\ next \in Pc /\ req[r].pc = "grant" /\ Checked(r, "grant", "subscribe", next)
      BY <1>8 DEF Pc, Grant, Checked
    <2>2. CASE Done(r)
      BY <1>3, <1>6, <2>1, <2>2 DEF Scope
    <2>3. CASE ~Done(r)
      <3>1. /\ Stays(r) /\ Asked(r) /\ req[r].left # <<>> /\ req'[r].pc = next
            /\ req'[r].seen = [req[r].seen EXCEPT !["subscribe"] = Len(stored)]
            /\ Op(r)' = Op(r) /\ (AppCall(r)' <=> AppCall(r))
        BY <1>6, <2>1, <2>3 DEF Scope
      <3>2. req'[r].seen["subscribe"] # Unchecked /\ req'[r].seen["app"] = req[r].seen["app"]
        BY <1>2, <3>1 DEF Seen, Scope, Unchecked
      <3>3. PcKnows(r)'
        BY <1>2, <2>1, <3>1, <3>2 DEF PcKnows, Asked, SameCall, AppCall
      <3> QED
        BY <3>1, <3>3
    <2> QED
      BY <2>2, <2>3
  <1>9. ASSUME FindTwin(r) PROVE Stays(r) /\ req[r].left # <<>> /\ (Done(r) \/ Asked(r)) /\ PcKnows(r)'
    <2>1. req[r].left # <<>> /\ req[r].pc = "twin" /\ Op(r) = "create" /\ "count" \in Pc /\ Len(subs) \in Nat
      BY <1>2, <1>9, LenProperties DEF FindTwin, PcKnows, Pc, Shape, RowShape
    <2>2. CASE Twins(By(r), Head(req[r].left).topic) = {}
      <3>1. ReqIs(r, "count", req[r].left, req[r].issued, req[r].seen, Len(subs), req[r].fresh)
        BY <1>9, <2>1, <2>2, PcAnd DEF FindTwin
      <3>2. Stays(r) /\ Asked(r) /\ req'[r].pc = "count" /\ req'[r].seen = req[r].seen
            /\ Op(r)' = Op(r) /\ (AppCall(r)' <=> AppCall(r))
        BY <2>1, <3>1 DEF ReqIs, Stays, Asked, SameCall, Op, By, AppCall
      <3> QED
        BY <1>2, <2>1, <3>2 DEF PcKnows, Asked, SameCall, AppCall
    <2>3. CASE Twins(By(r), Head(req[r].left).topic) # {}
      BY <1>3, <1>9, <2>1, <2>3, Goings DEF FindTwin
    <2> QED
      BY <2>2, <2>3
  <1>10. ASSUME CountOwn(r) \/ CountProject(r) PROVE Stays(r) /\ req[r].left # <<>> /\ (Done(r) \/ Asked(r)) /\ PcKnows(r)'
    <2>1. req[r].left # <<>> /\ req[r].pc \in {"count", "quota"} /\ Op(r) = "create"
      BY <1>2, <1>10 DEF CountOwn, CountProject, Statement, PcKnows
    <2>2. CASE Over(r)
      BY <1>3, <2>1, <2>2, Goings
    <2>3. CASE Goes(r, "quota") /\ By(r) \in App
      <3>1. "quota" \in Pc /\ Same(r, "quota") /\ req[r].pc # "idle"
        BY <2>1, <2>3, Goings DEF Pc
      <3>2. /\ Stays(r) /\ Asked(r) /\ req'[r].pc = "quota" /\ req'[r].seen = req[r].seen
            /\ Op(r)' = Op(r) /\ (AppCall(r)' <=> AppCall(r))
        BY <1>5, <3>1
      <3> QED
        BY <1>2, <2>1, <2>3, <3>2 DEF PcKnows, Asked, SameCall, AppCall
    <2>4. CASE Goes(r, "insert")
      <3>1. "insert" \in Pc /\ Same(r, "insert") /\ req[r].pc # "idle"
        BY <2>1, <2>4, Goings DEF Pc
      <3>2. /\ Stays(r) /\ Asked(r) /\ req'[r].pc = "insert" /\ req'[r].seen = req[r].seen
            /\ Op(r)' = Op(r) /\ (AppCall(r)' <=> AppCall(r))
        BY <1>5, <3>1
      <3> QED
        BY <1>2, <2>1, <2>4, <3>2 DEF PcKnows, Asked, SameCall, AppCall
    <2> QED
      BY <1>10, <2>2, <2>3, <2>4 DEF CountOwn, CountProject, Statement
  <1>11. ASSUME Insert(r) \/ NotFound(r) \/ Toggle(r) \/ Rotate(r) \/ Answer(r) \/ Abandon(r)
         PROVE  Stays(r) /\ req[r].left # <<>> /\ Done(r) /\ PcKnows(r)'
    <2>1. req[r].left # <<>> /\ Over(r)
      BY <1>2, <1>11 DEF Insert, NotFound, Toggle, Rotate, Answer, Abandon, PcKnows
    <2> QED
      BY <1>3, <2>1, Goings
  <1>12. ASSUME Look(r) \/ Decide(r) \/ Apply(r) \/ Keep(r)
         PROVE  Stays(r) /\ req[r].left # <<>> /\ (Done(r) \/ Asked(r)) /\ PcKnows(r)'
    <2>1. req[r].left # <<>> /\ Op(r) = "control" /\ req[r].pc # "idle" /\ Head(req[r].left).row \in DOMAIN subs
      BY <1>1, <1>2, <1>12, CallIs DEF Look, Decide, Apply, Keep, PcKnows
    <2>2. CASE Over(r)
      BY <1>3, <2>1, <2>2, Goings
    <2>3. CASE Goes(r, "decide") \/ Goes(r, "keep") \/ Goes(r, "answer")
      <3>1. PICK pc \in {"decide", "keep", "answer"} : Same(r, pc) /\ pc \in Pc
        BY <2>3, Goings DEF Pc
      <3> QED
        <4>1. /\ Stays(r) /\ Asked(r) /\ req'[r].pc = pc /\ Op(r)' = Op(r)
          BY <1>5, <2>1, <3>1
        <4> QED
          BY <2>1, <3>1, <4>1 DEF PcKnows, Asked, SameCall, AppCall
    <2>4. CASE Goes(r, "apply") /\ subs[Head(req[r].left).row].consumer \in Person /\ UNCHANGED subs
      <3>1. Same(r, "apply") /\ "apply" \in Pc
        BY <2>4, Goings DEF Pc
      <3> QED
        <4>1. /\ Stays(r) /\ Asked(r) /\ req'[r].pc = "apply" /\ Op(r)' = Op(r)
              /\ Head(req'[r].left) = Head(req[r].left)
          BY <1>5, <2>1, <3>1
        <4> QED
          BY <2>1, <2>4, <4>1 DEF PcKnows, Asked, SameCall, AppCall
    <2> QED
      BY <1>12, <2>2, <2>3, <2>4 DEF Look, Decide, Apply, Keep, rowVars
  <1> QED
    BY <1>4, <1>7, <1>8, <1>9, <1>10, <1>11, <1>12, StartIs DEF Creates, Changes, Controls

LEMMA ReqShapeNext ==
  ASSUME Shape, [Next]_vars
  PROVE  ReqShape'
  <1>1. ASSUME NEW q \in Request, req'[q] = req[q] PROVE PcKnows(q)'
    <2>1. PcKnows(q) /\ SameRows
      BY RowShapeNext DEF Shape, ReqShape
    <2>2. Op(q)' = Op(q) /\ By(q)' = By(q) /\ (AppCall(q)' <=> AppCall(q))
      BY <1>1 DEF Op, By, AppCall
    <2>3. req[q].pc = "apply" => Head(req[q].left).row \in DOMAIN subs
      BY <2>1, CallIs DEF PcKnows, Shape, RowShape
    <2> QED
      BY <1>1, <2>1, <2>2, <2>3 DEF PcKnows, SameRows, AppCall
  <1>2. CASE UNCHANGED req
    BY <1>1, <1>2 DEF Shape, ReqShape
  <1>3. CASE ReqStep
    <2>1. PICK r \in Request : Start(r) \/ Creates(r) \/ Changes(r) \/ Controls(r) \/ Abandon(r)
      BY <1>3 DEF ReqStep
    <2>2. Stays(r) /\ PcKnows(r)'
      BY <2>1, Statements
    <2> QED
      BY <1>1, <2>2 DEF Stays, ReqShape
  <1> QED
    BY <1>2, <1>3, Cases

LEMMA ShapeNext ==
  ASSUME Shape, [Next]_vars
  PROVE  Shape' /\ SameRows
  BY RowShapeNext, NetShapeNext, RevokeShapeNext, ControlShapeNext, SendShapeNext, ReqShapeNext DEF Shape

-----------------------------------------------------------------------------
(* What a request wrote of a row that is on, and when.                     *)
WrittenBy(i, r) ==
    /\ subs'[i].consumer = By(r) /\ Op(r) # "control" /\ req[r].left # <<>>
    /\ origin'[i].issued = req[r].issued /\ origin'[i].seen = req[r].seen
    /\ origin'[i].wrote = Len(stored) + (IF revoking = NoRevoking THEN 0 ELSE 1)
    /\ subs'[i].enabled /\ AppCall(r) => \A s \in Scope : req[r].seen[s] # Unchecked
    /\ UNCHANGED revokeVars
LeftOn(i) ==
    /\ i \in DOMAIN subs /\ subs'[i].consumer = subs[i].consumer /\ origin'[i] = origin[i]
    /\ subs'[i].enabled /\ subs'[i].consumer \notin Person => subs[i].enabled

LEMMA WhoTurnedOn ==
  ASSUME Shape, [Next]_vars, NEW i \in DOMAIN subs'
  PROVE  LeftOn(i) \/ \E r \in Request : WrittenBy(i, r)
  <1>1. Scope = {"app", "subscribe"}
    BY DEF Scope
  <1>2. CASE UNCHANGED rowVars
    BY <1>2 DEF rowVars, LeftOn
  <1>3. ASSUME NEW rows \in SUBSET DOMAIN subs, NEW on \in BOOLEAN, Turned(rows, on), UNCHANGED origin,
               on => \A j \in rows : subs[j].consumer \in Person
        PROVE  LeftOn(i)
    <2>1. i \in DOMAIN subs
      BY <1>3 DEF Turned
    <2>2. CASE i \in rows
      <3>1. RowNow(i, on, subs[i].secret, subs[i].previous, subs[i].until)
        BY <1>3, <2>2 DEF Turned
      <3> QED
        BY <1>3, <2>1, <2>2, <3>1 DEF LeftOn, RowNow
    <2>3. CASE i \notin rows
      BY <1>3, <2>1, <2>3 DEF LeftOn, Turned
    <2> QED
      BY <2>2, <2>3
  <1>4. CASE RevokeCommits
    <2>1. Turned(revoking.rows, FALSE) /\ revoking.rows \in SUBSET DOMAIN subs /\ UNCHANGED origin
      BY <1>4, RevokedRows DEF RevokeCommits
    <2> QED
      BY <1>3, <2>1
  <1>5. ASSUME NEW r \in Request, Apply(r) PROVE LeftOn(i)
    <2>1. Head(req[r].left).enable \in BOOLEAN
      BY <1>5, AppliedRow, CallIs
    <2> QED
      BY <1>3, <1>5, <2>1, AppliedRow
  <1>6. ASSUME NEW rows \in SUBSET DOMAIN subs, NEW secret \in Secret, NEW overlap \in Nat,
               Rotated(rows, secret, overlap), UNCHANGED origin
        PROVE  LeftOn(i)
    <2>1. /\ DOMAIN subs' = DOMAIN subs
          /\ \A j \in rows : RowNow(j, subs[j].enabled, secret, subs[j].secret, now + overlap)
          /\ \A j \in DOMAIN subs \ rows : subs'[j] = subs[j]
      BY <1>6, Rotating
    <2>2. CASE i \in rows
      <3>1. RowNow(i, subs[i].enabled, secret, subs[i].secret, now + overlap)
        BY <2>1, <2>2
      <3> QED
        BY <1>6, <2>1, <3>1 DEF LeftOn, RowNow
    <2>3. CASE i \notin rows
      BY <1>6, <2>1, <2>3 DEF LeftOn
    <2> QED
      BY <2>2, <2>3
  <1>7. ASSUME NEW r \in Request, Rotate(r) PROVE LeftOn(i)
    <2>1. PICK j \in DOMAIN subs : Rotated({j}, NewSecret, Head(req[r].left).overlap)
      BY <1>7, RotatedRow
    <2> QED
      BY <1>6, <1>7, <2>1, RotatedRow, Newest
  <1>8. CASE ScriptRotates
    <2>1. Rotated(operator.rows, NewSecret, OperatorOverlap) /\ UNCHANGED origin
      BY <1>8 DEF ScriptRotates
    <2> QED
      BY <1>6, <2>1, Newest, SubscriptionBounds DEF Shape, SendShape
  <1>9. ASSUME NEW r \in Request, Toggle(r) PROVE LeftOn(i) \/ WrittenBy(i, r)
    <2>1. PICK j \in Own(r) \intersect Unlocked :
               /\ j \in DOMAIN subs /\ subs[j].consumer = By(r)
               /\ Turned({j}, Op(r) = "enable")
               /\ origin'[j] = [issued |-> req[r].issued, seen |-> req[r].seen, after |-> origin[j].after,
                                wrote |-> Len(stored) + (IF revoking = NoRevoking THEN 0 ELSE 1),
                                during |-> origin[j].during]
               /\ \A k \in DOMAIN subs \ {j} : origin'[k] = origin[k]
      BY <1>9, ToggledRow
    <2>2. i \in DOMAIN subs
      BY <2>1 DEF Turned
    <2>3. CASE i = j
      <3>1. RowNow(i, Op(r) = "enable", subs[i].secret, subs[i].previous, subs[i].until)
        BY <2>1, <2>3 DEF Turned
      <3>2. subs'[i].consumer = By(r) /\ subs'[i].enabled = (Op(r) = "enable")
        BY <2>1, <2>3, <3>1 DEF RowNow
      <3>3. req[r].pc = "toggle" /\ PcKnows(r) /\ UNCHANGED revokeVars
        BY <1>9 DEF Toggle, Shape, ReqShape
      <3>4. Op(r) \in {"enable", "disable"} /\ req[r].left # <<>>
        BY <1>9, ToggledRow
      <3>5. subs'[i].enabled /\ AppCall(r) => req[r].seen["app"] # Unchecked /\ req[r].seen["subscribe"] # Unchecked
        BY <3>2, <3>3 DEF PcKnows
      <3> QED
        BY <1>1, <2>1, <2>3, <3>2, <3>3, <3>4, <3>5 DEF WrittenBy
    <2>4. CASE i # j
      BY <2>1, <2>2, <2>4 DEF LeftOn, Turned
    <2> QED
      BY <2>3, <2>4
  <1>10. ASSUME NEW r \in Request, Insert(r) PROVE LeftOn(i) \/ WrittenBy(i, r)
    <2> DEFINE n == Len(subs) + 1
               call == Head(req[r].left)
               secret == IF call.by \in App THEN NewSecret ELSE file[call.by]
    <2>1. /\ DOMAIN subs = 1..(n - 1) /\ n \in Nat /\ DOMAIN subs' = 1..n
          /\ subs'[n] = [consumer |-> By(r), env |-> call.env, topic |-> call.topic, enabled |-> TRUE,
                         secret |-> secret, previous |-> NoSecret, until |-> NoTime]
          /\ origin'[n] = Origin(r)
      BY <1>10, InsertedRow
    <2>2. \A k \in DOMAIN subs : subs'[k] = subs[k] /\ origin'[k] = origin[k]
      BY <1>10, InsertedRow
    <2> HIDE DEF n, secret
    <2>3. CASE i = n
      <3>1. PcKnows(r) /\ req[r].pc = "insert" /\ UNCHANGED revokeVars
        BY <1>10 DEF Insert, Shape, ReqShape
      <3>2. Op(r) = "create" /\ req[r].left # <<>>
            /\ (AppCall(r) => req[r].seen["app"] # Unchecked /\ req[r].seen["subscribe"] # Unchecked)
        BY <3>1 DEF PcKnows
      <3>3. subs'[i].consumer = By(r)
        BY <2>1, <2>3
      <3>4. /\ origin'[i].issued = req[r].issued /\ origin'[i].seen = req[r].seen
            /\ origin'[i].wrote = Len(stored) + (IF revoking = NoRevoking THEN 0 ELSE 1)
        BY <2>1, <2>3 DEF Origin
      <3> QED
        BY <1>1, <3>1, <3>2, <3>3, <3>4 DEF WrittenBy
    <2>4. CASE i # n
      <3>1. i \in DOMAIN subs
        BY <2>1, <2>4
      <3> QED
        BY <2>2, <3>1 DEF LeftOn
    <2> QED
      BY <2>3, <2>4
  <1>11. CASE \E j \in DOMAIN subs : Adopt(j)
    BY <1>11 DEF Adopt, LeftOn
  <1>12. CASE \E c \in Service : Restart(c)
    BY <1>12 DEF Restart, LeftOn
  <1> QED
    BY <1>2, <1>4, <1>5, <1>7, <1>8, <1>9, <1>10, <1>11, <1>12, Cases DEF RowStep

-----------------------------------------------------------------------------
(* Revocations.  app_revocations has the latest of each.                   *)
LatestStored == \A n \in DOMAIN stored : stored[n].at <= revoked[<<stored[n].app, stored[n].scope>>]

(* A token that passed a check was issued after what was stored by then.   *)
SeenHolds ==
    \A r \in Request :
       /\ req[r].pc = "idle" => req[r].seen = [s \in Scope |-> Unchecked]
       /\ \A s \in Scope : req[r].seen[s] <= Len(stored)
       /\ req[r].left # <<>> /\ AppCall(r) =>
             \A n \in DOMAIN stored :
                stored[n].app = By(r) /\ n <= req[r].seen[stored[n].scope] => req[r].issued > stored[n].at

(* A subscription of an app is on by a request that was checked.           *)
OnIsChecked ==
    \A i \in DOMAIN subs : subs[i].enabled /\ subs[i].consumer \in App =>
       \A s \in Scope : origin[i].seen[s] \in 0..Len(stored)

(* What a revocation in progress did not find on was turned on during it.  *)
OnSince ==
    revoking # NoRevoking => \A i \in DOMAIN subs \ revoking.rows :
       subs[i].enabled /\ subs[i].consumer = revoking.app => origin[i].wrote >= Len(stored) + 1

RevokeInv == LatestStored /\ SeenHolds /\ OnIsChecked /\ OnSince /\ RevokedStaysOff

(* The seconds of a token's iat are none later than it.                    *)
LEMMA Floor ==
  ASSUME NEW t \in Nat
  PROVE  (t \div Second) * Second <= t
  BY SubscriptionBounds

LEMMA StoredIs ==
  ASSUME Shape
  PROVE  /\ DOMAIN stored = 1..Len(stored) /\ Len(stored) \in Nat
         /\ \A n \in DOMAIN stored : stored[n] \in News
  BY Places DEF Shape, RevokeShape

(* The revocations that are stored stay, in their order.                   *)
StoredGrows ==
    /\ DOMAIN stored \subseteq DOMAIN stored' /\ Len(stored) <= Len(stored')
    /\ \A n \in DOMAIN stored : stored'[n] = stored[n]

LEMMA Storing ==
  ASSUME Shape, [Next]_vars
  PROVE  /\ StoredGrows
         /\ \/ RevokeCommits /\ UNCHANGED req
            \/ (\E v \in news : Revoke(v)) /\ UNCHANGED <<req, stored, revoked>>
            \/ UNCHANGED revokeVars
  <1>1. \/ RevokeCommits /\ UNCHANGED req
        \/ (\E v \in news : Revoke(v)) /\ UNCHANGED <<req, stored, revoked>>
        \/ UNCHANGED revokeVars
    BY Cases DEF RevokeCommits, Revoke
  <1>2. CASE RevokeCommits
    <2>1. stored' = Append(stored, [app |-> revoking.app, scope |-> revoking.scope, at |-> revoking.at])
      BY <1>2 DEF RevokeCommits
    <2>2. [app |-> revoking.app, scope |-> revoking.scope, at |-> revoking.at] \in News /\ stored \in Seq(News)
      BY <1>2, RevokedRows DEF News, Shape, RevokeShape
    <2>3. Len(stored') = Len(stored) + 1 /\ \A n \in DOMAIN stored : stored'[n] = stored[n]
      BY <2>1, <2>2, OneMore
    <2>4. DOMAIN stored' = 1..(Len(stored) + 1) /\ DOMAIN stored = 1..Len(stored) /\ Len(stored) \in Nat
      BY <2>1, <2>2, OneMore, StoredIs
    <2> QED
      BY <1>1, <2>3, <2>4 DEF StoredGrows
  <1>3. CASE UNCHANGED stored
    BY <1>1, <1>3, StoredIs DEF StoredGrows
  <1> QED
    BY <1>1, <1>2, <1>3 DEF revokeVars

LEMMA LatestStoredNext ==
  ASSUME Shape, [Next]_vars, LatestStored
  PROVE  LatestStored'
  <1>1. CASE UNCHANGED <<stored, revoked>>
    BY <1>1 DEF LatestStored
  <1>2. CASE RevokeCommits
    <2> DEFINE last == [app |-> revoking.app, scope |-> revoking.scope, at |-> revoking.at]
               at == <<revoking.app, revoking.scope>>
    <2>1. last \in News /\ stored \in Seq(News) /\ at \in App \X Scope /\ revoking.at \in Nat
      BY <1>2, RevokedRows DEF News, Shape, RevokeShape
    <2>2. stored' = Append(stored, last) /\ revoked' = [revoked EXCEPT ![at] = Latest(@, revoking.at)]
      BY <1>2 DEF RevokeCommits
    <2>3. /\ DOMAIN stored' = 1..(Len(stored) + 1) /\ Len(stored) \in Nat /\ DOMAIN stored = 1..Len(stored)
          /\ stored'[Len(stored) + 1] = last /\ \A n \in DOMAIN stored : stored'[n] = stored[n]
      BY <2>1, <2>2, OneMore, StoredIs
    <2>4. /\ \A x \in App \X Scope : revoked[x] \in Int /\ revoked'[x] \in Int /\ revoked[x] <= revoked'[x]
          /\ revoking.at <= revoked'[at]
      <3>1. revoked \in [App \X Scope -> Int] /\ revoked[at] \in Int
        BY <2>1 DEF Shape, RevokeShape
      <3> HIDE DEF at
      <3>2. /\ Latest(revoked[at], revoking.at) \in Int /\ revoked[at] <= Latest(revoked[at], revoking.at)
            /\ revoking.at <= Latest(revoked[at], revoking.at)
        BY <2>1, <3>1 DEF Latest
      <3> QED
        BY <2>1, <2>2, <3>1, <3>2
    <2>5. ASSUME NEW n \in DOMAIN stored'
          PROVE  stored'[n].at <= revoked'[<<stored'[n].app, stored'[n].scope>>]
      <3>1. CASE n = Len(stored) + 1
        BY <2>3, <2>4, <3>1
      <3>2. CASE n # Len(stored) + 1
        <4>1. n \in DOMAIN stored /\ stored'[n] = stored[n] /\ stored[n] \in News
          BY <2>3, <2>5, <3>2, StoredIs
        <4>2. stored[n].at <= revoked[<<stored[n].app, stored[n].scope>>]
          BY <4>1 DEF LatestStored
        <4>3. <<stored[n].app, stored[n].scope>> \in App \X Scope /\ stored[n].at \in Int
          BY <4>1 DEF News
        <4> HIDE DEF at, last
        <4>4. revoked[<<stored[n].app, stored[n].scope>>] <= revoked'[<<stored[n].app, stored[n].scope>>]
              /\ revoked[<<stored[n].app, stored[n].scope>>] \in Int
              /\ revoked'[<<stored[n].app, stored[n].scope>>] \in Int
          BY <2>4, <4>3
        <4> QED
          BY <4>1, <4>2, <4>3, <4>4
      <3> QED
        BY <3>1, <3>2
    <2> QED
      BY <2>5 DEF LatestStored
  <1> QED
    BY <1>1, <1>2, Storing DEF revokeVars

SeenOf(r) ==
    /\ req[r].pc = "idle" => req[r].seen = [s \in Scope |-> Unchecked]
    /\ \A s \in Scope : req[r].seen[s] <= Len(stored)
    /\ req[r].left # <<>> /\ AppCall(r) =>
          \A n \in DOMAIN stored :
             stored[n].app = By(r) /\ n <= req[r].seen[stored[n].scope] => req[r].issued > stored[n].at

LEMMA SeenHoldsNext ==
  ASSUME Shape, [Next]_vars, LatestStored, SeenHolds
  PROVE  SeenHolds'
  <1>1. StoredGrows /\ \A r \in Request : SeenOf(r)
    BY Storing DEF SeenHolds, SeenOf
  <1>2. /\ DOMAIN stored = 1..Len(stored) /\ Len(stored) \in Nat /\ \A n \in DOMAIN stored : stored[n] \in News
        /\ DOMAIN stored' = 1..Len(stored') /\ Len(stored') \in Nat /\ \A n \in DOMAIN stored' : stored'[n] \in News
    <2>1. RevokeShape'
      BY RevokeShapeNext
    <2>2. stored' \in Seq(News)
      BY <2>1 DEF RevokeShape
    <2> QED
      BY <2>2, StoredIs, Places
  <1>3. \A r \in Request : req[r] \in ReqRec /\ req[r].seen \in Seen
    BY DEF Shape, ReqShape, ReqRec
  <1>4. ASSUME NEW r \in Request, req'[r].left = req[r].left, req'[r].issued = req[r].issued,
               req'[r].seen = req[r].seen, req'[r].pc = "idle" => req[r].pc = "idle"
        PROVE  SeenOf(r)'
    <2>1. By(r)' = By(r) /\ (AppCall(r)' <=> AppCall(r))
      BY <1>4 DEF By, Op, AppCall
    <2>2. \A s \in Scope : req[r].seen[s] \in Int /\ req[r].seen[s] <= Len(stored)
      BY <1>1, <1>3 DEF SeenOf, Seen, Unchecked
    <2>3. \A s \in Scope : req'[r].seen[s] <= Len(stored')
      BY <1>1, <1>2, <1>4, <2>2 DEF StoredGrows
    <2>4. ASSUME req[r].left # <<>>, AppCall(r), NEW n \in DOMAIN stored', stored'[n].app = By(r),
                 n <= req[r].seen[stored'[n].scope]
          PROVE  req[r].issued > stored'[n].at
      <3>1. stored'[n].scope \in Scope
        BY <1>2 DEF News
      <3>2. n \in DOMAIN stored
        BY <1>2, <2>2, <2>4, <3>1
      <3> QED
        BY <1>1, <2>4, <3>2 DEF SeenOf, StoredGrows
    <2> QED
      BY <1>1, <1>4, <2>1, <2>3, <2>4 DEF SeenOf
  <1>5. CASE UNCHANGED req
    BY <1>4, <1>5 DEF SeenHolds, SeenOf
  <1>6. CASE ReqStep /\ ~UNCHANGED req
    <2>1. PICK r \in Request : Start(r) \/ Creates(r) \/ Changes(r) \/ Controls(r) \/ Abandon(r)
      BY <1>6 DEF ReqStep
    <2>2. UNCHANGED revokeVars
      <3>1. ~RevokeCommits \/ UNCHANGED req
        BY Storing DEF RevokeCommits
      <3> QED
        BY <1>6, Storing
    <2>3. /\ Stays(r) /\ req[r].left # <<>>
          /\ Done(r) \/ (Start(r) /\ SameCall(r)) \/ Asked(r)
      BY <2>1, Statements
    <2>4. \A q \in Request \ {r} : SeenOf(q)'
      BY <1>4, <2>3 DEF Stays
    <2>5. ASSUME Done(r) PROVE SeenOf(r)'
      <3>1. req'[r].seen = [s \in Scope |-> Unchecked]
        BY <2>5 DEF Done, ReqIs
      <3>2. \A s \in Scope : req'[r].seen[s] = -1
        BY <3>1 DEF Unchecked
      <3>3. \A n \in DOMAIN stored' : n > -1 /\ stored'[n].scope \in Scope
        BY <1>2 DEF News
      <3>4. \A s \in Scope : req'[r].seen[s] <= Len(stored')
        BY <1>2, <3>2
      <3>5. \A n \in DOMAIN stored' : ~(n <= req'[r].seen[stored'[n].scope])
        BY <1>2, <3>2, <3>3
      <3> QED
        BY <3>1, <3>4, <3>5 DEF SeenOf
    <2>6. ASSUME Start(r) PROVE SeenOf(r)'
      <3>1. req[r].pc = "idle" /\ req'[r].seen = req[r].seen
        <4>1. \E pc, issued, fresh : ReqIs(r, pc, req[r].left, issued, req[r].seen, req[r].after, fresh)
          BY <2>6, StartIs, Zenon
        <4> QED
          BY <2>6, <4>1 DEF ReqIs, Start
      <3>2. \A s \in Scope : req'[r].seen[s] = -1
        BY <1>1, <3>1 DEF SeenOf, Unchecked
      <3>3. \A n \in DOMAIN stored' : ~(n <= req'[r].seen[stored'[n].scope])
        BY <1>2, <3>2 DEF News
      <3>4. \A s \in Scope : req'[r].seen[s] <= Len(stored')
        BY <1>2, <3>2
      <3>5. req'[r].seen = [s \in Scope |-> Unchecked]
        BY <1>1, <3>1 DEF SeenOf
      <3> QED
        BY <3>3, <3>4, <3>5 DEF SeenOf
    <2>7. ASSUME Asked(r) PROVE SeenOf(r)'
      <3>1. /\ req'[r].left = req[r].left /\ req'[r].issued = req[r].issued /\ req'[r].pc # "idle"
            /\ \/ req'[r].seen = req[r].seen
               \/ \E scope \in Scope :
                     /\ req'[r].seen = [req[r].seen EXCEPT ![scope] = Len(stored)]
                     /\ AppCall(r) => ~Revoked(req[r].issued, revoked[<<By(r), scope>>])
        BY <2>7 DEF Asked, SameCall
      <3>2. CASE req'[r].seen = req[r].seen
        BY <1>4, <3>1, <3>2
      <3>3. ASSUME NEW scope \in Scope, req'[r].seen = [req[r].seen EXCEPT ![scope] = Len(stored)],
                   AppCall(r) => ~Revoked(req[r].issued, revoked[<<By(r), scope>>])
            PROVE  SeenOf(r)'
        <4>1. By(r)' = By(r) /\ (AppCall(r)' <=> AppCall(r)) /\ UNCHANGED <<stored, revoked>>
          BY <2>2, <3>1 DEF By, Op, AppCall, revokeVars
        <4>2. /\ \A s \in Scope : req[r].seen[s] \in Int /\ req[r].seen[s] <= Len(stored)
              /\ \A s \in Scope : req'[r].seen[s] = IF s = scope THEN Len(stored) ELSE req[r].seen[s]
              /\ req[r].issued \in Nat
          BY <1>1, <1>3, <3>3 DEF SeenOf, Seen, Unchecked, ReqRec
        <4>3. \A s \in Scope : req'[r].seen[s] <= Len(stored)
          BY <1>2, <4>2
        <4>4. ASSUME AppCall(r), NEW n \in DOMAIN stored, stored[n].app = By(r), n <= req'[r].seen[stored[n].scope]
              PROVE  req[r].issued > stored[n].at
          <5>1. stored[n].scope \in Scope /\ stored[n].at \in Nat /\ stored[n].app \in App
            BY <1>2 DEF News
          <5>2. CASE stored[n].scope # scope
            BY <1>1, <2>3, <4>2, <4>4, <5>1, <5>2 DEF SeenOf
          <5>3. CASE stored[n].scope = scope
            <6> DEFINE at == revoked[<<By(r), scope>>]
            <6>1. stored[n].at <= at /\ at \in Int
              BY <4>4, <5>1, <5>3 DEF LatestStored, Shape, RevokeShape
            <6>2. ~Revoked(req[r].issued, at)
              BY <3>3, <4>4
            <6> HIDE DEF at
            <6>3. ~((req[r].issued \div Second) * Second <= at)
              BY <5>1, <6>1, <6>2 DEF Revoked, NoTime
            <6>4. (req[r].issued \div Second) * Second <= req[r].issued /\ (req[r].issued \div Second) * Second \in Int
              <7>1. (req[r].issued \div Second) * Second <= req[r].issued
                BY <4>2, Floor
              <7>2. req[r].issued \div Second \in Int
                BY <4>2, SubscriptionBounds
              <7> QED
                BY <7>1, <7>2, SubscriptionBounds
            <6> QED
              BY <4>2, <5>1, <6>1, <6>3, <6>4
          <5> QED
            BY <5>2, <5>3
        <4> QED
          BY <3>1, <4>1, <4>3, <4>4 DEF SeenOf
      <3> QED
        BY <3>1, <3>2, <3>3
    <2>8. SeenOf(r)'
      BY <2>3, <2>5, <2>6, <2>7
    <2> QED
      BY <2>4, <2>8 DEF SeenHolds, SeenOf
  <1> QED
    BY <1>5, <1>6, Cases

LEMMA OnNext ==
  ASSUME Shape, [Next]_vars, SeenHolds, OnIsChecked, OnSince, RevokedStaysOff
  PROVE  OnIsChecked' /\ OnSince' /\ RevokedStaysOff'
  <1>1. StoredGrows /\ \A n \in DOMAIN stored : stored[n] \in News
    BY Storing, StoredIs
  <1>2. DOMAIN stored = 1..Len(stored) /\ Len(stored) \in Nat /\ Len(stored') \in Nat
    <2>1. stored' \in Seq(News)
      BY RevokeShapeNext DEF RevokeShape
    <2> QED
      BY <2>1, StoredIs, Places
  <1>3. \A i \in DOMAIN subs : subs[i] \in Row /\ origin[i] \in From
    BY RowIs
  <1>4. ASSUME NEW i \in DOMAIN subs', LeftOn(i), subs'[i].enabled, subs'[i].consumer \in App
        PROVE  /\ i \in DOMAIN subs /\ subs[i].enabled /\ subs[i].consumer = subs'[i].consumer
               /\ origin'[i] = origin[i] /\ \A s \in Scope : origin[i].seen[s] \in 0..Len(stored)
    <2>1. subs'[i].consumer \notin Person
      BY <1>4, ConsumersApart
    <2> QED
      BY <1>4, <2>1 DEF LeftOn, OnIsChecked
  <1>5. ASSUME NEW i \in DOMAIN subs', NEW r \in Request, WrittenBy(i, r), subs'[i].enabled, subs'[i].consumer \in App
        PROVE  /\ UNCHANGED revokeVars /\ origin'[i].issued = req[r].issued /\ origin'[i].seen = req[r].seen
               /\ origin'[i].wrote = Len(stored) + (IF revoking = NoRevoking THEN 0 ELSE 1)
               /\ \A s \in Scope : req[r].seen[s] \in 0..Len(stored)
               /\ \A n \in DOMAIN stored :
                    stored[n].app = subs'[i].consumer /\ n <= req[r].seen[stored[n].scope] => req[r].issued > stored[n].at
    <2>1. AppCall(r) /\ By(r) = subs'[i].consumer /\ req[r].left # <<>>
      BY <1>5 DEF WrittenBy, AppCall
    <2>2. \A s \in Scope : req[r].seen[s] # Unchecked /\ req[r].seen[s] <= Len(stored)
      BY <1>5, <2>1 DEF WrittenBy, SeenHolds
    <2>3. \A s \in Scope : req[r].seen[s] \in Nat \union {Unchecked}
      BY DEF Shape, ReqShape, ReqRec, Seen
    <2>4. \A s \in Scope : req[r].seen[s] \in 0..Len(stored)
      BY <1>2, <2>2, <2>3
    <2> QED
      BY <1>5, <2>1, <2>4 DEF WrittenBy, SeenHolds
  <1>6. OnIsChecked'
    <2> SUFFICES ASSUME NEW i \in DOMAIN subs', subs'[i].enabled, subs'[i].consumer \in App, NEW s \in Scope
                 PROVE  origin'[i].seen[s] \in 0..Len(stored')
      BY DEF OnIsChecked
    <2>1. origin'[i].seen[s] \in 0..Len(stored)
      BY <1>4, <1>5, WhoTurnedOn
    <2> QED
      BY <1>1, <1>2, <2>1 DEF StoredGrows
  <1>7. OnSince'
    <2> SUFFICES ASSUME revoking' # NoRevoking, NEW i \in DOMAIN subs' \ revoking'.rows, subs'[i].enabled,
                        subs'[i].consumer = revoking'.app
                 PROVE  origin'[i].wrote >= Len(stored') + 1
      BY DEF OnSince
    <2>1. CASE RevokeCommits
      BY <2>1 DEF RevokeCommits
    <2>2. ASSUME NEW v \in news, Revoke(v) PROVE FALSE
      <3>1. /\ subs' = subs
            /\ revoking' = [app |-> v.app, scope |-> v.scope, at |-> v.at,
                            rows |-> {j \in DOMAIN subs : subs[j].consumer = v.app /\ subs[j].enabled}]
        BY <2>2 DEF Revoke, rowVars
      <3> QED
        BY <3>1
    <2>3. CASE UNCHANGED revokeVars
      <3>1. UNCHANGED <<revoking, stored>> /\ revoking.app \in App /\ revoking # NoRevoking
        BY <2>3 DEF revokeVars, Shape, RevokeShape
      <3>2. CASE LeftOn(i)
        BY <1>4, <3>1, <3>2 DEF OnSince
      <3>3. CASE \E r \in Request : WrittenBy(i, r)
        BY <1>2, <1>5, <3>1, <3>3
      <3> QED
        BY <3>2, <3>3, WhoTurnedOn
    <2> QED
      BY <2>1, <2>2, <2>3, Storing
  <1>8. RevokedStaysOff'
    <2> SUFFICES ASSUME NEW i \in DOMAIN subs', NEW n \in DOMAIN stored', subs'[i].enabled,
                        subs'[i].consumer = stored'[n].app
                 PROVE  \/ origin'[i].issued > stored'[n].at
                        \/ origin'[i].seen[stored'[n].scope] \in 0..(n - 1) /\ origin'[i].wrote >= n
      BY DEF RevokedStaysOff
    <2>1. stored'[n] \in News /\ subs'[i].consumer \in App
      <3>1. stored' \in Seq(News)
        BY RevokeShapeNext DEF RevokeShape
      <3>2. stored'[n] \in News
        BY <3>1, Places
      <3> QED
        BY <3>2 DEF News
    <2>2. CASE n \in DOMAIN stored
      <3>1. stored'[n] = stored[n] /\ stored[n].scope \in Scope
        BY <1>1, <2>1, <2>2 DEF StoredGrows, News
      <3>2. CASE LeftOn(i)
        BY <1>4, <2>1, <2>2, <3>1, <3>2 DEF RevokedStaysOff
      <3>3. ASSUME NEW r \in Request, WrittenBy(i, r)
            PROVE  \/ origin'[i].issued > stored'[n].at
                   \/ origin'[i].seen[stored'[n].scope] \in 0..(n - 1) /\ origin'[i].wrote >= n
        <4>1. /\ origin'[i].issued = req[r].issued /\ origin'[i].seen = req[r].seen
              /\ origin'[i].wrote = Len(stored) + (IF revoking = NoRevoking THEN 0 ELSE 1)
              /\ req[r].seen[stored[n].scope] \in 0..Len(stored)
              /\ n <= req[r].seen[stored[n].scope] => req[r].issued > stored[n].at
          BY <1>5, <2>1, <2>2, <3>1, <3>3
        <4>2. origin'[i].wrote >= n
          BY <1>2, <2>2, <4>1
        <4> QED
          BY <1>2, <2>2, <3>1, <4>1, <4>2
      <3> QED
        BY <3>2, <3>3, WhoTurnedOn
    <2>3. CASE n \notin DOMAIN stored
      <3>1. RevokeCommits
        BY <2>3, Storing DEF revokeVars
      <3>2. /\ revoking \in [app : App, scope : Scope, at : Nat, rows : SUBSET Nat]
            /\ Turned(revoking.rows, FALSE) /\ revoking # NoRevoking
        BY <3>1, RevokedRows DEF RevokeCommits
      <3>3. n = Len(stored) + 1 /\ stored'[n] = [app |-> revoking.app, scope |-> revoking.scope, at |-> revoking.at]
        <4>1. [app |-> revoking.app, scope |-> revoking.scope, at |-> revoking.at] \in News /\ stored \in Seq(News)
          BY <3>2 DEF News, Shape, RevokeShape
        <4> QED
          BY <1>2, <2>3, <3>1, <4>1, OneMore DEF RevokeCommits
      <3>4. LeftOn(i)
        <4>1. revoking' # revoking
          BY <3>1 DEF RevokeCommits
        <4> QED
          BY <4>1, WhoTurnedOn DEF WrittenBy, revokeVars
      <3>5. i \in DOMAIN subs \ revoking.rows
        <4>1. ASSUME i \in revoking.rows PROVE ~subs'[i].enabled
          <5>1. RowNow(i, FALSE, subs[i].secret, subs[i].previous, subs[i].until)
            BY <3>2, <4>1 DEF Turned
          <5> QED
            BY <5>1 DEF RowNow
        <4> QED
          BY <3>4, <4>1 DEF LeftOn
      <3>6. origin[i].wrote >= Len(stored) + 1
        BY <1>4, <2>1, <3>2, <3>3, <3>4, <3>5 DEF OnSince
      <3>7. origin[i].seen[stored'[n].scope] \in 0..Len(stored) /\ origin'[i] = origin[i]
        BY <1>4, <2>1, <3>4 DEF News
      <3> QED
        BY <1>2, <3>3, <3>6, <3>7
    <2> QED
      BY <2>2, <2>3
  <1> QED
    BY <1>6, <1>7, <1>8

-----------------------------------------------------------------------------
(* Creates.  Of its kind there was none when a request looked for one.     *)
LookedFirst ==
    \A r \in Request : req[r].pc \in {"count", "quota", "insert"} =>
       /\ req[r].after <= Len(subs)
       /\ \A i \in 1..req[r].after : ~(subs[i].consumer = By(r) /\ subs[i].topic = Head(req[r].left).topic)

(* The requests that a count let through and that have not inserted yet.   *)
Through(c) == {r \in Request : req[r].pc \in {"quota", "insert"} /\ By(r) = c}
ThroughProject(env) == {r \in Request : req[r].pc = "insert" /\ By(r) \in App /\ Head(req[r].left).env = env}

(* Each count was below its limit when it let a request through, and the   *)
(* others on their way are fewer than the requests there are.              *)
InLimits ==
    /\ \A c \in Consumer : Cardinality(Of(c)) + Cardinality(Through(c)) <= MaxPerConsumer + Cardinality(Request) - 1
    /\ \A env \in Env : Cardinality(OfProject(env)) + Cardinality(ThroughProject(env))
                           <= MaxPerProject + Cardinality(Request) - 1

CreateInv == LookedFirst /\ InLimits /\ TwinsOverlapped

(* The request that steps to a place between its look for a duplicate and  *)
(* its insert.                                                             *)
OnTheWay(r) ==
    /\ UNCHANGED rowVars /\ SameCall(r)
    /\ \/ /\ req'[r].pc = "count" /\ req'[r].after = Len(subs)
          /\ Twins(By(r), Head(req[r].left).topic) = {}
       \/ /\ req[r].pc = "count" /\ req'[r].after = req[r].after
          /\ req'[r].pc = (IF By(r) \in App THEN "quota" ELSE "insert")
          /\ Room(Of(By(r)), MaxPerConsumer)
       \/ /\ req[r].pc = "quota" /\ req'[r].after = req[r].after /\ req'[r].pc = "insert"
          /\ Room(OfProject(Head(req[r].left).env), MaxPerProject)

LEMMA WhoIsOnTheWay ==
  ASSUME Shape, NEW r \in Request, Start(r) \/ Creates(r) \/ Changes(r) \/ Controls(r) \/ Abandon(r),
         req'[r].pc \in {"count", "quota", "insert"}
  PROVE  OnTheWay(r)
  <1>1. PcKnows(r)
    BY DEF Shape, ReqShape
  <1>2. ~Done(r)
    BY DEF Done, ReqIs
  <1>3. ASSUME Start(r) PROVE FALSE
    <2>1. \E pc \in {"look", "guard", "twin", "rotate", "toggle"} : \E issued, fresh :
             ReqIs(r, pc, req[r].left, issued, req[r].seen, req[r].after, fresh)
      BY <1>3, StartIs, Zenon
    <2> QED
      BY <2>1 DEF ReqIs
  <1>4. ASSUME NEW scope \in Scope, NEW pc \in Pc, NEW next \in Pc \ {"count", "quota", "insert"},
               Checked(r, pc, scope, next), pc # "idle"
        PROVE  FALSE
    <2>1. req[r].left # <<>>
      BY <1>1, <1>4 DEF Checked, PcKnows
    <2>2. ReqIs(r, next, req[r].left, req[r].issued, [req[r].seen EXCEPT ![scope] = Len(stored)],
                req[r].after, req[r].fresh)
      BY <1>2, <1>4, <2>1, CheckedIs
    <2> QED
      BY <1>4, <2>2 DEF ReqIs
  <1>5. ASSUME Guard(r) PROVE FALSE
    BY <1>4, <1>5 DEF Guard, AfterGuard, Scope, Pc
  <1>6. ASSUME Grant(r) PROVE FALSE
    BY <1>4, <1>6 DEF Grant, Scope, Pc
  <1>7. ASSUME FindTwin(r) PROVE OnTheWay(r)
    <2>1. req[r].left # <<>> /\ "count" \in Pc /\ Len(subs) \in Nat
      BY <1>1, <1>7, LenProperties DEF FindTwin, PcKnows, Pc, Shape, RowShape
    <2>2. Twins(By(r), Head(req[r].left).topic) = {}
      BY <1>2, <1>7, <2>1, Goings DEF FindTwin
    <2>3. ReqIs(r, "count", req[r].left, req[r].issued, req[r].seen, Len(subs), req[r].fresh)
      BY <1>7, <2>1, <2>2, PcAnd DEF FindTwin
    <2> QED
      BY <1>7, <2>1, <2>2, <2>3 DEF OnTheWay, SameCall, ReqIs, FindTwin
  <1>8. ASSUME CountOwn(r) \/ CountProject(r) PROVE OnTheWay(r)
    <2>1. req[r].left # <<>> /\ UNCHANGED rowVars /\ "quota" \in Pc /\ "insert" \in Pc
      BY <1>1, <1>8 DEF CountOwn, CountProject, Statement, PcKnows, Pc
    <2>2. ~Over(r)
      BY <1>2, <2>1, Goings
    <2>3. CASE CountOwn(r)
      <3>1. /\ req[r].pc = "count" /\ Room(Of(By(r)), MaxPerConsumer)
            /\ Goes(r, IF By(r) \in App THEN "quota" ELSE "insert")
        BY <2>2, <2>3 DEF CountOwn, Statement
      <3>2. Same(r, IF By(r) \in App THEN "quota" ELSE "insert")
        BY <2>1, <3>1, Goings
      <3> QED
        BY <2>1, <3>1, <3>2 DEF OnTheWay, SameCall, Same, ReqIs
    <2>4. CASE CountProject(r)
      <3>1. /\ req[r].pc = "quota" /\ Room(OfProject(Head(req[r].left).env), MaxPerProject) /\ Goes(r, "insert")
        BY <2>2, <2>4 DEF CountProject, Statement
      <3>2. Same(r, "insert")
        BY <2>1, <3>1, Goings
      <3> QED
        BY <2>1, <3>1, <3>2 DEF OnTheWay, SameCall, Same, ReqIs
    <2> QED
      BY <1>8, <2>3, <2>4
  <1>9. ASSUME Insert(r) \/ Changes(r) \/ Answer(r) \/ Abandon(r) PROVE FALSE
    <2>1. req[r].left # <<>> /\ Over(r)
      BY <1>1, <1>9 DEF Insert, Changes, NotFound, Toggle, Rotate, Answer, Abandon, PcKnows
    <2> QED
      BY <1>2, <2>1, Goings
  <1>10. ASSUME Look(r) \/ Decide(r) \/ Apply(r) \/ Keep(r) PROVE FALSE
    <2>1. req[r].left # <<>>
      BY <1>1, <1>10 DEF Look, Decide, Apply, Keep, PcKnows
    <2>2. Over(r) \/ \E pc \in {"decide", "keep", "apply", "answer"} : Goes(r, pc)
      BY <1>10 DEF Look, Decide, Apply, Keep
    <2>3. \A pc \in {"decide", "keep", "apply", "answer"} : pc \in Pc
      BY DEF Pc
    <2>4. PICK pc \in {"decide", "keep", "apply", "answer"} : Goes(r, pc)
      BY <1>2, <2>1, <2>2, Goings
    <2>5. Same(r, pc)
      BY <2>3, <2>4, Goings
    <2> QED
      BY <2>4, <2>5 DEF Same, ReqIs
  <1> QED
    BY <1>3, <1>5, <1>6, <1>7, <1>8, <1>9, <1>10 DEF Creates, Controls

(* A step leaves the rows there are, or inserts one after them.            *)
LEMMA InsertsOne ==
  ASSUME Shape, [Next]_vars
  PROVE  \/ /\ DOMAIN subs' = DOMAIN subs
            /\ \A i \in DOMAIN subs : origin'[i].after = origin[i].after /\ origin'[i].during = origin[i].during
         \/ \E r \in Request : Insert(r)
  <1>1. CASE UNCHANGED rowVars
    BY <1>1 DEF rowVars
  <1>2. CASE RevokeCommits
    BY <1>2, RevokedRows DEF RevokeCommits, Turned
  <1>3. ASSUME NEW rows \in SUBSET DOMAIN subs, NEW secret \in Secret, NEW overlap \in Nat,
               Rotated(rows, secret, overlap)
        PROVE  DOMAIN subs' = DOMAIN subs
    BY <1>3, Rotating
  <1>4. CASE ScriptRotates
    <2>1. Rotated(operator.rows, NewSecret, OperatorOverlap) /\ UNCHANGED origin
      BY <1>4 DEF ScriptRotates
    <2> QED
      BY <1>3, <2>1, Newest, SubscriptionBounds DEF Shape, SendShape
  <1>5. ASSUME NEW r \in Request, Rotate(r) PROVE DOMAIN subs' = DOMAIN subs /\ UNCHANGED origin
    <2>1. PICK j \in DOMAIN subs : Rotated({j}, NewSecret, Head(req[r].left).overlap)
      BY <1>5, RotatedRow
    <2> QED
      BY <1>3, <1>5, <2>1, RotatedRow, Newest
  <1>6. ASSUME NEW r \in Request, Toggle(r)
        PROVE  /\ DOMAIN subs' = DOMAIN subs
               /\ \A i \in DOMAIN subs : origin'[i].after = origin[i].after /\ origin'[i].during = origin[i].during
    <2>1. PICK i \in Own(r) \intersect Unlocked :
               /\ i \in DOMAIN subs
               /\ Turned({i}, Op(r) = "enable")
               /\ origin'[i] = [issued |-> req[r].issued, seen |-> req[r].seen, after |-> origin[i].after,
                                wrote |-> Len(stored) + (IF revoking = NoRevoking THEN 0 ELSE 1),
                                during |-> origin[i].during]
               /\ \A j \in DOMAIN subs \ {i} : origin'[j] = origin[j]
      BY <1>6, ToggledRow
    <2>2. origin'[i].after = origin[i].after /\ origin'[i].during = origin[i].during
      BY <2>1
    <2> QED
      BY <2>1, <2>2 DEF Turned
  <1>7. ASSUME NEW r \in Request, Apply(r) PROVE DOMAIN subs' = DOMAIN subs /\ UNCHANGED origin
    BY <1>7, AppliedRow DEF Turned
  <1>8. ASSUME (\E j \in DOMAIN subs : Adopt(j)) \/ \E c \in Service : Restart(c)
        PROVE  UNCHANGED <<subs, origin>>
    BY <1>8 DEF Adopt, Restart
  <1> QED
    BY <1>1, <1>2, <1>4, <1>5, <1>6, <1>7, <1>8, Cases DEF RowStep

LEMMA LookedFirstNext ==
  ASSUME Shape, [Next]_vars, LookedFirst
  PROVE  LookedFirst'
  <1>1. SameRows /\ DOMAIN subs = 1..Len(subs) /\ Len(subs) \in Nat
        /\ DOMAIN subs' = 1..Len(subs') /\ Len(subs') \in Nat
    <2>1. subs' \in Seq(Row)
      BY RowShapeNext DEF RowShape
    <2> QED
      BY <2>1, RowShapeNext, Places DEF Shape, RowShape
  <1>2. Len(subs) <= Len(subs')
    BY <1>1 DEF SameRows
  <1> DEFINE Looked(r) == /\ req[r].after <= Len(subs)
                          /\ \A i \in 1..req[r].after :
                                ~(subs[i].consumer = By(r) /\ subs[i].topic = Head(req[r].left).topic)
  <1>3. \A r \in Request : req[r].after \in Nat
    BY DEF Shape, ReqShape, ReqRec
  <1>4. ASSUME NEW r \in Request, Looked(r), req'[r].left = req[r].left, req'[r].after = req[r].after
        PROVE  Looked(r)'
    <2>1. 1..req[r].after \subseteq DOMAIN subs /\ req[r].after <= Len(subs')
      BY <1>1, <1>2, <1>3, <1>4
    <2>2. By(r)' = By(r)
      BY <1>4 DEF By
    <2> QED
      BY <1>1, <1>4, <2>1, <2>2 DEF SameRows
  <1>5. ASSUME NEW r \in Request, OnTheWay(r), req[r].pc \in {"count", "quota"} => Looked(r)
        PROVE  Looked(r)'
    <2>1. UNCHANGED subs /\ req'[r].left = req[r].left
      BY <1>5 DEF OnTheWay, SameCall, rowVars
    <2>2. CASE req[r].pc \in {"count", "quota"} /\ req'[r].after = req[r].after
      BY <1>4, <1>5, <2>1, <2>2
    <2>3. CASE req'[r].after = Len(subs) /\ Twins(By(r), Head(req[r].left).topic) = {}
      <3>1. \A i \in 1..Len(subs) : ~(subs[i].consumer = By(r) /\ subs[i].topic = Head(req[r].left).topic)
        BY <1>1, <2>3 DEF Twins, Of
      <3> QED
        BY <1>1, <2>1, <2>3, <3>1 DEF By
    <2> QED
      BY <1>5, <2>2, <2>3 DEF OnTheWay
  <1>6. \A r \in Request : req[r].pc \in {"count", "quota", "insert"} => Looked(r)
    BY DEF LookedFirst
  <1>7. ASSUME NEW r \in Request, req'[r].pc \in {"count", "quota", "insert"} PROVE Looked(r)'
    <2>1. CASE req'[r] = req[r]
      BY <1>4, <1>6, <1>7, <2>1
    <2>2. CASE req'[r] # req[r]
      <3>1. PICK q \in Request : Start(q) \/ Creates(q) \/ Changes(q) \/ Controls(q) \/ Abandon(q)
        BY <2>2, Cases DEF ReqStep
      <3>2. q = r
        BY <2>2, <3>1, Statements DEF Stays
      <3> QED
        BY <1>5, <1>6, <1>7, <3>1, <3>2, WhoIsOnTheWay
    <2> QED
      BY <2>1, <2>2
  <1> QED
    BY <1>7 DEF LookedFirst

LEMMA TwinsOverlappedNext ==
  ASSUME Shape, [Next]_vars, LookedFirst, TwinsOverlapped
  PROVE  TwinsOverlapped'
  <1>1. SameRows
    BY RowShapeNext
  <1> SUFFICES ASSUME NEW i \in DOMAIN subs', NEW j \in DOMAIN subs', i < j,
                      subs'[i].consumer = subs'[j].consumer, subs'[i].topic = subs'[j].topic
               PROVE  origin'[j].after < i
    BY DEF TwinsOverlapped
  <1>2. CASE /\ DOMAIN subs' = DOMAIN subs
             /\ \A k \in DOMAIN subs : origin'[k].after = origin[k].after
    BY <1>1, <1>2 DEF TwinsOverlapped, SameRows
  <1>3. ASSUME NEW r \in Request, Insert(r) PROVE origin'[j].after < i
    <2> DEFINE n == Len(subs) + 1
               call == Head(req[r].left)
               secret == IF call.by \in App THEN NewSecret ELSE file[call.by]
    <2>1. /\ DOMAIN subs = 1..(n - 1) /\ n \in Nat /\ DOMAIN subs' = 1..n
          /\ subs'[n] = [consumer |-> By(r), env |-> call.env, topic |-> call.topic, enabled |-> TRUE,
                         secret |-> secret, previous |-> NoSecret, until |-> NoTime]
          /\ origin'[n] = Origin(r)
      BY <1>3, InsertedRow
    <2>2. \A k \in DOMAIN subs : subs'[k] = subs[k] /\ origin'[k] = origin[k]
      BY <1>3, InsertedRow
    <2> HIDE DEF n, secret
    <2>3. subs'[n].consumer = By(r) /\ subs'[n].topic = Head(req[r].left).topic /\ origin'[n].after = req[r].after
      BY <2>1 DEF Origin
    <2>4. CASE j = n
      <3>1. i \in DOMAIN subs /\ subs[i].consumer = By(r) /\ subs[i].topic = Head(req[r].left).topic
        BY <2>1, <2>2, <2>3, <2>4
      <3>2. i \notin 1..req[r].after /\ req[r].after \in Nat
        BY <1>3, <3>1 DEF LookedFirst, Insert, Shape, ReqShape, ReqRec
      <3> QED
        BY <2>1, <2>3, <2>4, <3>1, <3>2
    <2>5. CASE j # n
      <3>1. i \in DOMAIN subs /\ j \in DOMAIN subs
        BY <2>1, <2>5
      <3> QED
        BY <2>2, <3>1 DEF TwinsOverlapped
    <2> QED
      BY <2>4, <2>5
  <1> QED
    BY <1>2, <1>3, InsertsOne

(* What a count and an insert make of a table and of those on their way.   *)
LEMMA StaysInLimit ==
  ASSUME NEW rows, NEW rows2, NEW through \in SUBSET Request, NEW through2 \in SUBSET Request, NEW max \in Nat,
         IsFiniteSet(rows), Cardinality(rows) + Cardinality(through) <= max + Cardinality(Request) - 1,
         \/ rows2 = rows /\ through2 \subseteq through
         \/ rows2 = rows /\ Cardinality(rows) < max
         \/ \E r \in through : \E n : rows2 = rows \union {n} /\ n \notin rows /\ through2 \subseteq through \ {r}
  PROVE  Cardinality(rows2) + Cardinality(through2) <= max + Cardinality(Request) - 1
  <1>1. IsFiniteSet(Request) /\ Cardinality(Request) \in Nat
    BY SubscriptionShape, FS_CardinalityType
  <1>2. /\ IsFiniteSet(through) /\ Cardinality(through) \in Nat /\ Cardinality(through) <= Cardinality(Request)
        /\ IsFiniteSet(through2) /\ Cardinality(through2) \in Nat /\ Cardinality(through2) <= Cardinality(Request)
    BY <1>1, FS_Subset, FS_CardinalityType
  <1>3. Cardinality(rows) \in Nat
    BY FS_CardinalityType
  <1>4. CASE rows2 = rows /\ through2 \subseteq through
    <2>1. Cardinality(through2) <= Cardinality(through)
      BY <1>2, <1>4, FS_Subset
    <2> QED
      BY <1>1, <1>2, <1>3, <1>4, <2>1
  <1>5. CASE rows2 = rows /\ Cardinality(rows) < max
    BY <1>1, <1>2, <1>3, <1>5
  <1>6. ASSUME NEW r \in through, NEW n, rows2 = rows \union {n}, n \notin rows, through2 \subseteq through \ {r}
        PROVE  Cardinality(rows2) + Cardinality(through2) <= max + Cardinality(Request) - 1
    <2>1. Cardinality(rows2) = Cardinality(rows) + 1
      BY <1>6, FS_AddElement
    <2>2. IsFiniteSet(through \ {r}) /\ Cardinality(through \ {r}) = Cardinality(through) - 1
      BY <1>2, FS_RemoveElement
    <2>3. Cardinality(through2) <= Cardinality(through \ {r})
      BY <1>6, <2>2, FS_Subset
    <2> QED
      BY <1>1, <1>2, <1>3, <2>1, <2>2, <2>3
  <1> QED
    BY <1>4, <1>5, <1>6

(* Who is let through is on the way.                                       *)
LEMMA ComesThrough ==
  ASSUME Shape, [Next]_vars, NEW r \in Request, req'[r].pc \in {"count", "quota", "insert"}
  PROVE  \/ req'[r] = req[r]
         \/ OnTheWay(r) /\ \A q \in Request \ {r} : req'[q] = req[q]
  <1>1. CASE req'[r] # req[r]
    <2>1. PICK q \in Request : Start(q) \/ Creates(q) \/ Changes(q) \/ Controls(q) \/ Abandon(q)
      BY <1>1, Cases DEF ReqStep
    <2>2. Stays(q)
      BY <2>1, Statements
    <2>3. q = r
      BY <1>1, <2>2 DEF Stays
    <2> QED
      BY <2>1, <2>2, <2>3, WhoIsOnTheWay DEF Stays
  <1> QED
    BY <1>1

LEMMA InLimitsNext ==
  ASSUME Shape, [Next]_vars, InLimits
  PROVE  InLimits'
  <1>1. SameRows /\ DOMAIN subs = 1..Len(subs) /\ Len(subs) \in Nat /\ IsFiniteSet(DOMAIN subs)
    <2>1. DOMAIN subs = 1..Len(subs) /\ Len(subs) \in Nat
      BY Places DEF Shape, RowShape
    <2> QED
      BY <2>1, RowShapeNext, FS_Interval
  <1>2. /\ \A c : IsFiniteSet(Of(c)) /\ Through(c) \in SUBSET Request /\ Through(c)' \in SUBSET Request
        /\ \A env : IsFiniteSet(OfProject(env)) /\ ThroughProject(env) \in SUBSET Request
                    /\ ThroughProject(env)' \in SUBSET Request
    BY <1>1, FS_Subset DEF Of, OfProject, Through, ThroughProject
  <1>3. \A r \in Request : PcKnows(r)
    BY DEF Shape, ReqShape
  <1>4. ASSUME NEW r \in Request, req'[r] = req[r]
        PROVE  /\ \A c : r \in Through(c)' => r \in Through(c)
               /\ \A env : r \in ThroughProject(env)' => r \in ThroughProject(env)
    BY <1>4 DEF Through, ThroughProject, By
  <1>5. CASE DOMAIN subs' = DOMAIN subs
    <2>1. /\ \A c : Of(c)' = Of(c)
          /\ \A env : OfProject(env)' = OfProject(env)
      BY <1>1, <1>5 DEF Of, OfProject, SameRows
    <2>2. ASSUME NEW c \in Consumer
          PROVE  Through(c)' \subseteq Through(c) \/ Cardinality(Of(c)) < MaxPerConsumer
      <3> SUFFICES ASSUME NEW r \in Request, r \in Through(c)', r \notin Through(c)
                   PROVE  Cardinality(Of(c)) < MaxPerConsumer
        BY <1>2
      <3>1. req'[r].pc \in {"quota", "insert"} /\ By(r)' = c
        BY <2>2 DEF Through
      <3>2. OnTheWay(r)
        BY <1>4, <2>2, <3>1, ComesThrough
      <3>3. By(r) = c
        BY <3>1, <3>2 DEF OnTheWay, SameCall, By
      <3>4. req[r].pc # "quota"
        BY <2>2, <3>3 DEF Through
      <3> QED
        BY <3>1, <3>2, <3>3, <3>4 DEF OnTheWay, Room
    <2>3. ASSUME NEW env \in Env
          PROVE  ThroughProject(env)' \subseteq ThroughProject(env) \/ Cardinality(OfProject(env)) < MaxPerProject
      <3> SUFFICES ASSUME NEW r \in Request, r \in ThroughProject(env)', r \notin ThroughProject(env)
                   PROVE  Cardinality(OfProject(env)) < MaxPerProject
        BY <1>2
      <3>1. req'[r].pc = "insert" /\ By(r)' \in App /\ Head(req'[r].left).env = env
        BY <2>3 DEF ThroughProject
      <3>2. OnTheWay(r)
        BY <1>4, <2>3, <3>1, ComesThrough
      <3>3. By(r) \in App /\ Head(req[r].left).env = env
        BY <3>1, <3>2 DEF OnTheWay, SameCall, By
      <3> QED
        BY <3>1, <3>2, <3>3 DEF OnTheWay, Room
    <2>4. ASSUME NEW c \in Consumer
          PROVE  Cardinality(Of(c)') + Cardinality(Through(c)') <= MaxPerConsumer + Cardinality(Request) - 1
      <3>1. Cardinality(Of(c)) + Cardinality(Through(c)) <= MaxPerConsumer + Cardinality(Request) - 1
        BY DEF InLimits
      <3> HIDE DEF Of, Through
      <3> QED
        BY <1>2, <2>1, <2>2, <3>1, StaysInLimit, SubscriptionBounds
    <2>5. ASSUME NEW env \in Env
          PROVE  Cardinality(OfProject(env)') + Cardinality(ThroughProject(env)')
                    <= MaxPerProject + Cardinality(Request) - 1
      <3>1. Cardinality(OfProject(env)) + Cardinality(ThroughProject(env)) <= MaxPerProject + Cardinality(Request) - 1
        BY DEF InLimits
      <3> QED
        BY <1>2, <2>1, <2>3, <3>1, StaysInLimit, SubscriptionBounds
    <2> QED
      BY <2>4, <2>5 DEF InLimits
  <1>6. ASSUME NEW r \in Request, Insert(r) PROVE InLimits'
    <2> DEFINE n == Len(subs) + 1
               call == Head(req[r].left)
               secret == IF call.by \in App THEN NewSecret ELSE file[call.by]
    <2>1. /\ DOMAIN subs = 1..(n - 1) /\ n \in Nat /\ DOMAIN subs' = 1..n /\ req[r].left # <<>>
          /\ By(r) \in App \union Service
          /\ subs'[n] = [consumer |-> By(r), env |-> call.env, topic |-> call.topic, enabled |-> TRUE,
                         secret |-> secret, previous |-> NoSecret, until |-> NoTime]
      BY <1>6, InsertedRow
    <2>2. \A k \in DOMAIN subs : subs'[k] = subs[k]
      BY <1>6, InsertedRow
    <2>3. req[r].pc = "insert" /\ Done(r)
      BY <1>6, <2>1, Goings DEF Insert
    <2>9. n >= 1 /\ subs'[n].consumer = By(r) /\ subs'[n].env = call.env
      BY <1>1, <2>1
    <2> HIDE DEF n, secret, call
    <2>4. n \notin DOMAIN subs /\ DOMAIN subs' = DOMAIN subs \union {n}
      BY <2>1, <2>9
    <2>5. /\ \A c : r \notin Through(c)'
          /\ \A env : r \notin ThroughProject(env)'
          /\ \A q \in Request \ {r} : req'[q] = req[q]
      BY <2>3 DEF Done, ReqIs, Through, ThroughProject
    <2>6. /\ \A c : Through(c)' \subseteq Through(c) \ {r}
          /\ \A env : ThroughProject(env)' \subseteq ThroughProject(env) \ {r}
      BY <1>2, <1>4, <2>5
    <2>7. ASSUME NEW c \in Consumer
          PROVE  Cardinality(Of(c)') + Cardinality(Through(c)') <= MaxPerConsumer + Cardinality(Request) - 1
      <3>1. Cardinality(Of(c)) + Cardinality(Through(c)) <= MaxPerConsumer + Cardinality(Request) - 1
        BY DEF InLimits
      <3>2. CASE c = By(r)
        <4>1. Of(c)' = Of(c) \union {n} /\ n \notin Of(c)
          BY <2>2, <2>4, <2>9, <3>2 DEF Of
        <4>2. r \in Through(c)
          BY <2>3, <3>2 DEF Through
        <4> QED
          BY <1>2, <2>6, <3>1, <4>1, <4>2, StaysInLimit, SubscriptionBounds
      <3>3. CASE c # By(r)
        <4>1. Of(c)' = Of(c)
          BY <2>2, <2>4, <2>9, <3>3 DEF Of
        <4>2. Through(c)' \subseteq Through(c)
          BY <2>6
        <4> QED
          BY <1>2, <3>1, <4>1, <4>2, StaysInLimit, SubscriptionBounds
      <3> QED
        BY <3>2, <3>3
    <2>8. ASSUME NEW env \in Env
          PROVE  Cardinality(OfProject(env)') + Cardinality(ThroughProject(env)')
                    <= MaxPerProject + Cardinality(Request) - 1
      <3>1. Cardinality(OfProject(env)) + Cardinality(ThroughProject(env)) <= MaxPerProject + Cardinality(Request) - 1
        BY DEF InLimits
      <3>2. CASE By(r) \in App \union Person /\ call.env = env
        <4>1. OfProject(env)' = OfProject(env) \union {n} /\ n \notin OfProject(env)
          BY <2>2, <2>4, <2>9, <3>2 DEF OfProject
        <4>2. r \in ThroughProject(env)
          BY <2>1, <2>3, <3>2, ConsumersApart DEF ThroughProject, call
        <4> QED
          BY <1>2, <2>6, <3>1, <4>1, <4>2, StaysInLimit, SubscriptionBounds
      <3>3. CASE ~(By(r) \in App \union Person /\ call.env = env)
        <4>1. OfProject(env)' = OfProject(env)
          BY <2>2, <2>4, <2>9, <3>3 DEF OfProject
        <4>2. ThroughProject(env)' \subseteq ThroughProject(env)
          BY <2>6
        <4> QED
          BY <1>2, <3>1, <4>1, <4>2, StaysInLimit, SubscriptionBounds
      <3> QED
        BY <3>2, <3>3
    <2> QED
      BY <2>7, <2>8 DEF InLimits
  <1> QED
    BY <1>5, <1>6, InsertsOne

(* The limits follow: the requests on their way are no fewer than none.    *)
LEMMA LimitsFollow ==
  ASSUME Shape, InLimits
  PROVE  LimitOvershoot
  <1>1. IsFiniteSet(Request) /\ Cardinality(Request) \in Nat /\ IsFiniteSet(DOMAIN subs)
    BY SubscriptionShape, FS_CardinalityType, Places, FS_Interval DEF Shape, RowShape
  <1>2. \A c : Cardinality(Of(c)) \in Nat /\ Cardinality(Through(c)) \in Nat
    BY <1>1, FS_Subset, FS_CardinalityType DEF Of, Through
  <1>3. \A env : Cardinality(OfProject(env)) \in Nat /\ Cardinality(ThroughProject(env)) \in Nat
    BY <1>1, FS_Subset, FS_CardinalityType DEF OfProject, ThroughProject
  <1>4. ASSUME NEW c \in Consumer PROVE Cardinality(Of(c)) <= MaxPerConsumer + Cardinality(Request) - 1
    BY <1>1, <1>2, SubscriptionBounds DEF InLimits
  <1>5. ASSUME NEW env \in Env PROVE Cardinality(OfProject(env)) <= MaxPerProject + Cardinality(Request) - 1
    BY <1>1, <1>3, SubscriptionBounds DEF InLimits
  <1> QED
    BY <1>4, <1>5 DEF LimitOvershoot

-----------------------------------------------------------------------------
(* Secrets.  What a secret that a row has had still is to it: the one it   *)
(* signs with, the one it said it would sign with too, one that a second   *)
(* rotation dropped, or one whose overlap is over.                         *)
Usable(i, secret) ==
    \/ secret = subs[i].secret
    \/ secret = subs[i].previous /\ [secret |-> secret, until |-> subs[i].until] \in promised[i]
    \/ secret \in dropped[i]
    \/ \E old \in promised[i] : old.secret = secret /\ old.until <= now

(* What consumers and env files have is the secret of their rows, but for  *)
(* the rows inserted while the script ran.                                 *)
HeldUsable == \A i \in DOMAIN subs : origin[i].during \/ (Usable(i, held[i]) /\ Usable(i, told[i]))
FileUsable == \A c \in Service : \A i \in Of(c) : origin[i].during \/ Usable(i, file[c])

(* The script rotates the rows of one service, all but those inserted      *)
(* since it listed them.                                                   *)
ScriptKnows ==
    operator.phase # "off" =>
       /\ \E c \in Service : /\ operator.rows # {} /\ operator.rows \subseteq Of(c)
                             /\ \A i \in Of(c) \ operator.rows : origin[i].during
       /\ operator.phase = "rotated" => \A i \in operator.rows : Usable(i, operator.secret)

(* The row as the worker read it is the row, unless it was rotated since.  *)
SendKnows ==
    send # NoSend =>
       /\ send.row \in DOMAIN subs /\ send.secret <= subs[send.row].secret
       /\ send.secret = subs[send.row].secret =>
             send.previous = subs[send.row].previous /\ send.until = subs[send.row].until

SecretInv == HeldUsable /\ FileUsable /\ ScriptKnows /\ SendKnows

(* Which steps touch the secrets.                                          *)
SecretStep ==
    \/ ScriptRotates
    \/ \E r \in Request : Insert(r) \/ Rotate(r)

SameSecret(i) ==
    /\ subs'[i].secret = subs[i].secret /\ subs'[i].previous = subs[i].previous /\ subs'[i].until = subs[i].until
    /\ promised'[i] = promised[i] /\ dropped'[i] = dropped[i]

LEMMA SecretsStay ==
  ASSUME Shape, [Next]_vars
  PROVE  \/ SecretStep
         \/ DOMAIN subs' = DOMAIN subs /\ \A i \in DOMAIN subs : SameSecret(i)
  <1>1. CASE UNCHANGED rowVars
    BY <1>1 DEF rowVars, secretVars, SameSecret
  <1>2. ASSUME NEW rows \in SUBSET DOMAIN subs, NEW on \in BOOLEAN, Turned(rows, on), UNCHANGED <<promised, dropped>>
        PROVE  DOMAIN subs' = DOMAIN subs /\ \A i \in DOMAIN subs : SameSecret(i)
    <2>1. ASSUME NEW i \in DOMAIN subs PROVE SameSecret(i)
      <3>1. CASE i \in rows
        <4>1. RowNow(i, on, subs[i].secret, subs[i].previous, subs[i].until)
          BY <1>2, <3>1 DEF Turned
        <4> QED
          BY <1>2, <4>1 DEF RowNow, SameSecret
      <3>2. CASE i \notin rows
        BY <1>2, <3>2 DEF Turned, SameSecret
      <3> QED
        BY <3>1, <3>2
    <2> QED
      BY <1>2, <2>1 DEF Turned
  <1>3. CASE RevokeCommits
    <2>1. Turned(revoking.rows, FALSE) /\ revoking.rows \in SUBSET DOMAIN subs /\ UNCHANGED <<promised, dropped>>
      BY <1>3, RevokedRows DEF RevokeCommits, secretVars
    <2> QED
      BY <1>2, <2>1
  <1>4. ASSUME NEW r \in Request, Toggle(r) PROVE DOMAIN subs' = DOMAIN subs /\ \A i \in DOMAIN subs : SameSecret(i)
    <2>1. PICK i \in DOMAIN subs : Turned({i}, Op(r) = "enable") /\ UNCHANGED secretVars
      BY <1>4, ToggledRow
    <2>2. (Op(r) = "enable") \in BOOLEAN
      OBVIOUS
    <2> QED
      BY <1>2, <2>1, <2>2 DEF secretVars
  <1>5. ASSUME NEW r \in Request, Apply(r) PROVE DOMAIN subs' = DOMAIN subs /\ \A i \in DOMAIN subs : SameSecret(i)
    <2>1. Head(req[r].left).enable \in BOOLEAN
      BY <1>5, AppliedRow, CallIs
    <2> QED
      BY <1>2, <1>5, <2>1, AppliedRow DEF secretVars
  <1>6. ASSUME (\E j \in DOMAIN subs : Adopt(j)) \/ \E c \in Service : Restart(c)
        PROVE  DOMAIN subs' = DOMAIN subs /\ \A i \in DOMAIN subs : SameSecret(i)
    BY <1>6 DEF Adopt, Restart, SameSecret
  <1> QED
    BY <1>1, <1>3, <1>4, <1>5, <1>6, Cases DEF RowStep, SecretStep

(* Time does not run back.                                                 *)
LEMMA Later ==
  ASSUME Shape, [Next]_vars
  PROVE  now \in Nat /\ now' \in Nat /\ now <= now'
  <1>1. now \in Nat /\ now' \in Nat
    BY NetShapeNext DEF Shape, NetShape
  <1> QED
    BY <1>1, Cases DEF NetStep, Tick, Regrant, Withdraw, Revoke

(* A rotation gives the rows the new secret, and what was usable with a    *)
(* row stays so.                                                           *)
LEMMA UsableInRotated ==
  ASSUME Shape, NEW rows \in SUBSET DOMAIN subs, NEW secret \in Secret, NEW overlap \in Nat,
         Rotated(rows, secret, overlap), now' = now
  PROVE  /\ \A i \in rows : Usable(i, secret)'
         /\ \A i \in DOMAIN subs, s \in Nat : Usable(i, s) => Usable(i, s)'
  <1>1. /\ \A i \in rows : RowNow(i, subs[i].enabled, secret, subs[i].secret, now + overlap)
        /\ \A i \in rows : promised'[i] = promised[i] \union {[secret |-> subs[i].secret, until |-> now + overlap]}
        /\ \A i \in rows : dropped'[i] = dropped[i] \union (IF subs[i].until > now THEN {subs[i].previous} ELSE {})
        /\ \A i \in DOMAIN subs \ rows :
              subs'[i] = subs[i] /\ promised'[i] = promised[i] /\ dropped'[i] = dropped[i]
    BY Rotating, ZenonT(60)
  <1>2. ASSUME NEW i \in rows PROVE Usable(i, secret)'
    <2>1. RowNow(i, subs[i].enabled, secret, subs[i].secret, now + overlap)
      BY <1>1
    <2>2. subs'[i].secret = secret
      BY <2>1 DEF RowNow
    <2> QED
      BY <2>2 DEF Usable
  <1>3. ASSUME NEW i \in DOMAIN subs, NEW s \in Nat, Usable(i, s) PROVE Usable(i, s)'
    <2>1. CASE i \notin rows
      BY <1>1, <1>3, <2>1 DEF Usable
    <2>2. CASE i \in rows
      <3>1. RowNow(i, subs[i].enabled, secret, subs[i].secret, now + overlap)
        BY <1>1, <2>2
      <3>2. subs'[i].previous = subs[i].secret /\ subs'[i].until = now + overlap
        BY <3>1 DEF RowNow
      <3>3. /\ promised'[i] = promised[i] \union {[secret |-> subs[i].secret, until |-> now + overlap]}
            /\ dropped'[i] = dropped[i] \union (IF subs[i].until > now THEN {subs[i].previous} ELSE {})
        BY <1>1, <2>2
      <3>4. CASE s = subs[i].secret
        BY <3>2, <3>3, <3>4 DEF Usable
      <3>5. CASE s = subs[i].previous /\ [secret |-> s, until |-> subs[i].until] \in promised[i]
        <4>1. CASE subs[i].until > now
          BY <3>3, <3>5, <4>1 DEF Usable
        <4>2. CASE ~(subs[i].until > now)
          <5> DEFINE old == [secret |-> s, until |-> subs[i].until]
          <5>1. old \in promised'[i] /\ old.secret = s /\ old.until <= now'
            <6>1. subs[i].until \in Int /\ now \in Int
              BY RowIs DEF Row, Shape, NetShape
            <6> QED
              BY <3>3, <3>5, <4>2, <6>1
          <5> QED
            BY <5>1 DEF Usable
        <4> QED
          BY <4>1, <4>2
      <3>6. CASE s \in dropped[i]
        BY <3>3, <3>6 DEF Usable
      <3>7. CASE \E old \in promised[i] : old.secret = s /\ old.until <= now
        BY <3>3, <3>7 DEF Usable
      <3> QED
        BY <1>3, <3>4, <3>5, <3>6, <3>7 DEF Usable
    <2> QED
      BY <2>1, <2>2
  <1> QED
    BY <1>2, <1>3

(* What was usable with a row stays so.                                    *)
LEMMA UsableStays ==
  ASSUME Shape, [Next]_vars, NEW i \in DOMAIN subs, NEW s \in Nat, Usable(i, s)
  PROVE  Usable(i, s)'
  <1>1. ASSUME SameSecret(i) PROVE Usable(i, s)'
    <2>1. \A old \in promised[i] : old.until <= now => old.until <= now'
      <3>1. \A old \in promised[i] : old.until \in Nat
        BY RowIs DEF Promise
      <3> QED
        BY <3>1, Later
    <2> QED
      BY <1>1, <2>1 DEF SameSecret, Usable
  <1>2. CASE ScriptRotates
    <2>1. Rotated(operator.rows, NewSecret, OperatorOverlap) /\ now' = now
      BY <1>2 DEF ScriptRotates
    <2> QED
      BY <2>1, UsableInRotated, Newest, SubscriptionBounds DEF Shape, SendShape
  <1>3. ASSUME NEW r \in Request, Rotate(r) PROVE Usable(i, s)'
    <2>1. PICK j \in DOMAIN subs : Rotated({j}, NewSecret, Head(req[r].left).overlap)
      BY <1>3, RotatedRow
    <2>2. now' = now /\ Head(req[r].left).overlap \in Nat
      BY <1>3, RotatedRow DEF Rotate
    <2> QED
      BY <2>1, <2>2, UsableInRotated, Newest
  <1>4. ASSUME NEW r \in Request, Insert(r) PROVE Usable(i, s)'
    <2>1. subs'[i] = subs[i] /\ promised'[i] = promised[i] /\ dropped'[i] = dropped[i]
      BY <1>4, InsertedRow
    <2> QED
      BY <1>1, <2>1 DEF SameSecret
  <1> QED
    BY <1>1, <1>2, <1>3, <1>4, SecretsStay DEF SecretStep

(* A row has its secret, or a newer one.                                   *)
LEMMA NewerSecret ==
  ASSUME Shape, [Next]_vars, NEW i \in DOMAIN subs
  PROVE  \/ subs'[i].secret = subs[i].secret /\ subs'[i].previous = subs[i].previous /\ subs'[i].until = subs[i].until
         \/ subs'[i].secret > subs[i].secret
  <1>1. ASSUME NEW rows \in SUBSET DOMAIN subs, NEW overlap \in Nat, Rotated(rows, NewSecret, overlap)
        PROVE  subs'[i] = subs[i] \/ subs'[i].secret > subs[i].secret
    <2>1. NewSecret \in Secret /\ subs[i].secret < NewSecret
      BY Newest
    <2> HIDE DEF NewSecret
    <2>2. CASE i \in rows
      <3>1. RowNow(i, subs[i].enabled, NewSecret, subs[i].secret, now + overlap)
        BY <1>1, <2>1, <2>2, Rotating
      <3>2. subs'[i].secret = NewSecret
        BY <3>1 DEF RowNow
      <3>3. subs[i].secret \in Nat /\ NewSecret \in Nat
        BY <2>1, RowIs DEF Row, Secret
      <3> QED
        BY <2>1, <3>2, <3>3
    <2>3. CASE i \notin rows
      BY <1>1, <2>1, <2>3, Rotating
    <2> QED
      BY <2>2, <2>3
  <1>2. CASE ScriptRotates
    <2>1. Rotated(operator.rows, NewSecret, OperatorOverlap)
      BY <1>2 DEF ScriptRotates
    <2> QED
      BY <1>1, <2>1, SubscriptionBounds DEF Shape, SendShape
  <1>3. ASSUME NEW r \in Request, Rotate(r) PROVE subs'[i] = subs[i] \/ subs'[i].secret > subs[i].secret
    <2>1. PICK j \in DOMAIN subs : Rotated({j}, NewSecret, Head(req[r].left).overlap)
      BY <1>3, RotatedRow
    <2>2. Head(req[r].left).overlap \in Nat
      BY <1>3, RotatedRow
    <2> QED
      BY <1>1, <2>1, <2>2
  <1>4. ASSUME NEW r \in Request, Insert(r) PROVE subs'[i] = subs[i]
    BY <1>4, InsertedRow
  <1> QED
    BY <1>2, <1>3, <1>4, SecretsStay DEF SecretStep, SameSecret

LEMMA SendKnowsNext ==
  ASSUME Shape, [Next]_vars, SendKnows
  PROVE  SendKnows'
  <1>1. DOMAIN subs \subseteq DOMAIN subs'
    BY RowShapeNext DEF SameRows
  <1>2. CASE UNCHANGED send
    <2> SUFFICES ASSUME send # NoSend
                 PROVE  /\ send.row \in DOMAIN subs' /\ send.secret <= subs'[send.row].secret
                        /\ send.secret = subs'[send.row].secret =>
                              send.previous = subs'[send.row].previous /\ send.until = subs'[send.row].until
      BY <1>2 DEF SendKnows
    <2>1. /\ send.row \in DOMAIN subs /\ send.secret <= subs[send.row].secret
          /\ send.secret = subs[send.row].secret =>
                send.previous = subs[send.row].previous /\ send.until = subs[send.row].until
      BY DEF SendKnows
    <2>2. /\ send.secret \in Nat /\ subs[send.row].secret \in Nat
          /\ subs'[send.row].secret = subs[send.row].secret \/ subs'[send.row].secret \in Nat
      <3>1. subs' \in Seq(Row)
        BY RowShapeNext DEF RowShape
      <3>2. subs'[send.row] \in Row /\ subs[send.row] \in Row
        BY <1>1, <2>1, <3>1, RowIs, Places
      <3> QED
        BY <3>2 DEF Row, Secret, Shape, SendShape, SendRec
    <2>3. \/ subs'[send.row].secret = subs[send.row].secret /\ subs'[send.row].previous = subs[send.row].previous
             /\ subs'[send.row].until = subs[send.row].until
          \/ subs'[send.row].secret > subs[send.row].secret
      BY <2>1, NewerSecret
    <2> QED
      BY <1>1, <2>1, <2>2, <2>3
  <1>3. CASE Post
    BY <1>3 DEF Post, SendKnows
  <1>4. ASSUME NEW i \in DOMAIN subs, ReadRow(i) PROVE SendKnows'
    <2>1. UNCHANGED subs
          /\ send' = [row |-> i, secret |-> subs[i].secret, previous |-> subs[i].previous, until |-> subs[i].until]
      BY <1>4 DEF ReadRow, rowVars
    <2>2. subs[i].secret \in Nat
      BY RowIs DEF Row, Secret
    <2> QED
      BY <2>1, <2>2 DEF SendKnows
  <1>5. CASE Script
    BY <1>2, <1>5 DEF Script, ScriptRotates, ScriptDies, ScriptLists, ScriptWrites
  <1> QED
    BY <1>2, <1>3, <1>4, <1>5, Cases DEF Delivery, sendVars

LEMMA HeldUsableNext ==
  ASSUME Shape, [Next]_vars, HeldUsable, FileUsable
  PROVE  HeldUsable'
  <1>1. \A i \in DOMAIN subs : held[i] \in Nat /\ told[i] \in Nat
    BY RowIs
  <1>2. \A c \in Service : file[c] \in Nat
    BY DEF Shape, SendShape, Secret
  <1>3. ASSUME NEW r \in Request, Insert(r) PROVE HeldUsable'
    <2> DEFINE n == Len(subs) + 1
               call == Head(req[r].left)
               secret == IF call.by \in App THEN NewSecret ELSE file[call.by]
    <2>1. /\ DOMAIN subs = 1..(n - 1) /\ n \in Nat /\ DOMAIN subs' = 1..n
          /\ subs'[n] = [consumer |-> By(r), env |-> call.env, topic |-> call.topic, enabled |-> TRUE,
                         secret |-> secret, previous |-> NoSecret, until |-> NoTime]
          /\ held'[n] = secret /\ told'[n] = secret
      BY <1>3, InsertedRow
    <2>2. \A i \in DOMAIN subs : origin'[i] = origin[i] /\ held'[i] = held[i] /\ told'[i] = told[i]
      BY <1>3, InsertedRow
    <2> HIDE DEF n, call, secret
    <2>3. ASSUME NEW i \in DOMAIN subs' PROVE origin'[i].during \/ (Usable(i, held[i])' /\ Usable(i, told[i])')
      <3>1. CASE i = n
        BY <2>1, <3>1 DEF Usable
      <3>2. CASE i # n
        <4>1. i \in DOMAIN subs
          BY <2>1, <3>2
        <4>2. origin[i].during \/ (Usable(i, held[i]) /\ Usable(i, told[i]))
          BY <4>1 DEF HeldUsable
        <4>3. \A s \in Nat : Usable(i, s) => Usable(i, s)'
          BY <4>1, UsableStays
        <4> QED
          BY <1>1, <2>2, <4>1, <4>2, <4>3 DEF Usable
      <3> QED
        BY <3>1, <3>2
    <2> QED
      BY <2>3 DEF HeldUsable
  <1>4. ASSUME DOMAIN subs' = DOMAIN subs, \A i \in DOMAIN subs : origin'[i].during = origin[i].during,
               \A i \in DOMAIN subs :
                  \/ held'[i] = held[i]
                  \/ held'[i] = told[i]
                  \/ \E c \in Service : i \in Of(c) /\ held'[i] = file[c],
               \A i \in DOMAIN subs : told'[i] = told[i] \/ told'[i] = subs'[i].secret
        PROVE  HeldUsable'
    <2> SUFFICES ASSUME NEW i \in DOMAIN subs, ~origin[i].during
                 PROVE  Usable(i, held[i])' /\ Usable(i, told[i])'
      BY <1>4 DEF HeldUsable
    <2>1. Usable(i, held[i]) /\ Usable(i, told[i]) /\ \A c \in Service : i \in Of(c) => Usable(i, file[c])
      BY DEF HeldUsable, FileUsable
    <2>2. \A s \in Nat : Usable(i, s) => Usable(i, s)'
      BY UsableStays
    <2>3. \A s : s = subs'[i].secret => Usable(i, s)'
      BY DEF Usable
    <2>4. ASSUME NEW s \in Nat, Usable(i, s)
          PROVE  /\ held'[i] = s => Usable(i, held[i])'
                 /\ told'[i] = s => Usable(i, told[i])'
      BY <2>2, <2>4 DEF Usable
    <2>5. Usable(i, held[i])'
      BY <1>1, <1>2, <1>4, <2>1, <2>4
    <2>6. Usable(i, told[i])'
      <3>1. CASE told'[i] = told[i]
        BY <1>1, <2>1, <2>4, <3>1
      <3>2. CASE told'[i] = subs'[i].secret
        BY <3>2 DEF Usable
      <3> QED
        BY <1>4, <3>1, <3>2
    <2> QED
      BY <2>5, <2>6
  <1>5. CASE DOMAIN subs' = DOMAIN subs /\ \A i \in DOMAIN subs : origin'[i].during = origin[i].during
    <2>1. CASE UNCHANGED <<held, told>>
      BY <1>4, <1>5, <2>1
    <2>2. ASSUME NEW r \in Request, Rotate(r) PROVE HeldUsable'
      <3>1. PICK j \in DOMAIN subs :
               /\ Rotated({j}, NewSecret, Head(req[r].left).overlap)
               /\ told' = told \/ (told'[j] = NewSecret /\ \A k \in DOMAIN subs \ {j} : told'[k] = told[k])
        BY <2>2, RotatedRow
      <3>2. Head(req[r].left).overlap \in Nat /\ UNCHANGED held
        BY <2>2, RotatedRow
      <3>3. RowNow(j, subs[j].enabled, NewSecret, subs[j].secret, now + Head(req[r].left).overlap)
        <4>1. \A i \in {j} : RowNow(i, subs[i].enabled, NewSecret, subs[i].secret, now + Head(req[r].left).overlap)
          <5>1. {j} \in SUBSET DOMAIN subs /\ NewSecret \in Secret
            BY Newest
          <5> HIDE DEF NewSecret
          <5> QED
            BY <3>1, <3>2, <5>1, Rotating
        <4> QED
          BY <4>1
      <3>4. subs'[j].secret = NewSecret
        BY <3>3 DEF RowNow
      <3> HIDE DEF NewSecret
      <3> QED
        BY <1>4, <1>5, <3>1, <3>2, <3>4
    <2>3. ASSUME NEW j \in DOMAIN subs, Adopt(j) PROVE HeldUsable'
      <3>1. UNCHANGED told /\ \A i \in DOMAIN subs : held'[i] = held[i] \/ held'[i] = told[i]
        BY <2>3 DEF Adopt, Shape, RowShape
      <3> QED
        BY <1>4, <1>5, <3>1
    <2>4. ASSUME NEW c \in Service, Restart(c) PROVE HeldUsable'
      <3>1. UNCHANGED told /\ \A i \in DOMAIN subs : held'[i] = held[i] \/ (i \in Of(c) /\ held'[i] = file[c])
        BY <2>4 DEF Restart
      <3> QED
        BY <1>4, <1>5, <3>1
    <2>5. ASSUME NEW r \in Request, Insert(r) PROVE HeldUsable'
      BY <1>3, <2>5
    <2>6. ASSUME RevokeCommits \/ ScriptRotates \/ \E r \in Request : Toggle(r) \/ Apply(r) PROVE UNCHANGED <<held, told>>
      BY <2>6 DEF RevokeCommits, ScriptRotates, Toggle, Apply, secretVars
    <2> QED
      BY <2>1, <2>2, <2>3, <2>4, <2>5, <2>6, Cases DEF RowStep, rowVars, secretVars
  <1> QED
    BY <1>3, <1>5, InsertsOne

(* The rows of a service are those it had, and one inserted.               *)
LEMMA OfNext ==
  ASSUME Shape, [Next]_vars, NEW c
  PROVE  /\ Of(c) \subseteq Of(c)'
         /\ \A i \in Of(c)' :
               \/ i \in Of(c) /\ origin'[i].during = origin[i].during
               \/ \E r \in Request : /\ Insert(r) /\ c \in App \union Service
                                     /\ subs'[i].secret = IF c \in App THEN NewSecret ELSE file[c]
                                     /\ origin'[i].during = (operator.phase # "off")
  <1>1. SameRows
    BY RowShapeNext
  <1>2. Of(c) \subseteq Of(c)'
    BY <1>1 DEF SameRows, Of
  <1>3. CASE DOMAIN subs' = DOMAIN subs /\ \A i \in DOMAIN subs : origin'[i].during = origin[i].during
    BY <1>1, <1>2, <1>3 DEF SameRows, Of
  <1>4. ASSUME NEW r \in Request, Insert(r), NEW i \in Of(c)'
        PROVE  \/ i \in Of(c) /\ origin'[i].during = origin[i].during
               \/ /\ c \in App \union Service
                  /\ subs'[i].secret = IF c \in App THEN NewSecret ELSE file[c]
                  /\ origin'[i].during = (operator.phase # "off")
    <2> DEFINE n == Len(subs) + 1
               call == Head(req[r].left)
               secret == IF call.by \in App THEN NewSecret ELSE file[call.by]
    <2>1. /\ DOMAIN subs = 1..(n - 1) /\ n \in Nat /\ DOMAIN subs' = 1..n /\ By(r) \in App \union Service
          /\ subs'[n] = [consumer |-> By(r), env |-> call.env, topic |-> call.topic, enabled |-> TRUE,
                         secret |-> secret, previous |-> NoSecret, until |-> NoTime]
          /\ origin'[n] = Origin(r)
      BY <1>4, InsertedRow
    <2>2. \A k \in DOMAIN subs : subs'[k] = subs[k] /\ origin'[k] = origin[k]
      BY <1>4, InsertedRow
    <2>3. /\ subs'[n].consumer = By(r) /\ subs'[n].secret = (IF By(r) \in App THEN NewSecret ELSE file[By(r)])
          /\ origin'[n].during = (operator.phase # "off")
      BY <2>1 DEF Origin, By
    <2> HIDE DEF n, call, secret, NewSecret
    <2>4. i \in DOMAIN subs' /\ subs'[i].consumer = c
      BY <1>4 DEF Of
    <2>5. CASE i = n
      BY <2>1, <2>3, <2>4, <2>5
    <2>6. CASE i # n
      <3>1. i \in DOMAIN subs
        BY <2>1, <2>4, <2>6
      <3> QED
        BY <2>2, <2>4, <3>1 DEF Of
    <2> QED
      BY <2>5, <2>6
  <1> QED
    BY <1>2, <1>3, <1>4, InsertsOne

LEMMA FileUsableNext ==
  ASSUME Shape, [Next]_vars, FileUsable, ScriptKnows
  PROVE  FileUsable'
  <1>1. file \in [Service -> Secret]
    BY DEF Shape, SendShape
  <1>2. ASSUME NEW c \in Service, NEW i \in Of(c)', file'[c] = file[c]
        PROVE  origin'[i].during \/ Usable(i, file[c])'
    <2>1. CASE i \in Of(c) /\ origin'[i].during = origin[i].during
      <3>1. i \in DOMAIN subs /\ file[c] \in Nat
        BY <1>1, <2>1 DEF Of, Secret
      <3>2. origin[i].during \/ Usable(i, file[c])
        BY <2>1 DEF FileUsable
      <3>3. \A s \in Nat : Usable(i, s) => Usable(i, s)'
        BY <3>1, UsableStays
      <3> QED
        BY <1>2, <2>1, <3>1, <3>2, <3>3 DEF Usable
    <2>2. CASE subs'[i].secret = IF c \in App THEN NewSecret ELSE file[c]
      <3>1. c \notin App
        BY ConsumersApart
      <3> HIDE DEF NewSecret
      <3>2. subs'[i].secret = file'[c]
        BY <1>2, <2>2, <3>1
      <3> QED
        BY <3>2 DEF Usable
    <2> QED
      BY <2>1, <2>2, OfNext
  <1>3. CASE UNCHANGED file
    BY <1>2, <1>3 DEF FileUsable
  <1>4. ASSUME NEW c \in Service, ScriptWrites(c) PROVE FileUsable'
    <2>1. /\ operator.phase = "rotated" /\ operator.rows \subseteq Of(c)
          /\ file' = [file EXCEPT ![c] = operator.secret]
          /\ UNCHANGED <<subs, origin, promised, dropped, now>>
      BY <1>4 DEF ScriptWrites, rowVars, secretVars
    <2>2. PICK d \in Service : /\ operator.rows # {} /\ operator.rows \subseteq Of(d)
                               /\ \A i \in Of(d) \ operator.rows : origin[i].during
      BY <2>1 DEF ScriptKnows
    <2>3. d = c
      BY <2>1, <2>2 DEF Of
    <2>4. \A i \in operator.rows : Usable(i, operator.secret)
      BY <2>1 DEF ScriptKnows
    <2>5. ASSUME NEW i \in Of(c) PROVE origin[i].during \/ Usable(i, file[c])'
      <3>1. CASE i \in operator.rows
        <4>1. file'[c] = operator.secret
          BY <1>1, <2>1
        <4> QED
          BY <2>1, <2>4, <3>1, <4>1 DEF Usable
      <3>2. CASE i \notin operator.rows
        BY <2>2, <2>3, <2>5, <3>2
      <3> QED
        BY <3>1, <3>2
    <2>6. \A e \in Service : Of(e)' = Of(e)
      BY <2>1 DEF Of
    <2>7. \A e \in Service : e # c => file'[e] = file[e]
      BY <1>1, <2>1
    <2>8. ASSUME NEW e \in Service, NEW i \in Of(e)' PROVE origin'[i].during \/ Usable(i, file[e])'
      <3>1. CASE e = c
        BY <2>1, <2>5, <2>6, <2>8, <3>1 DEF Usable
      <3>2. CASE e # c
        BY <1>2, <2>7, <2>8, <3>2
      <3> QED
        BY <3>1, <3>2
    <2> QED
      BY <2>8 DEF FileUsable
  <1>5. ASSUME ScriptRotates \/ ScriptDies \/ \E c \in Service : ScriptLists(c) PROVE UNCHANGED file
    BY <1>5 DEF ScriptRotates, ScriptDies, ScriptLists
  <1>6. ASSUME Delivery PROVE UNCHANGED file
    BY <1>6 DEF Delivery, Post, ReadRow
  <1> QED
    BY <1>3, <1>4, <1>5, <1>6, Cases DEF Script, sendVars

LEMMA ScriptKnowsNext ==
  ASSUME Shape, [Next]_vars, ScriptKnows
  PROVE  ScriptKnows'
  <1> DEFINE Rows(c) == /\ operator.rows # {} /\ operator.rows \subseteq Of(c)
                        /\ \A i \in Of(c) \ operator.rows : origin[i].during
  <1>1. /\ operator.phase # "off" => \E c \in Service : Rows(c)
        /\ operator.phase = "rotated" => \A i \in operator.rows : Usable(i, operator.secret)
    BY DEF ScriptKnows
  <1>2. ASSUME NEW c \in Service, Rows(c), operator.phase # "off", operator'.rows = operator.rows
        PROVE  Rows(c)'
    <2>1. Of(c) \subseteq Of(c)'
      BY OfNext
    <2>2. ASSUME NEW i \in Of(c)', i \notin operator.rows PROVE origin'[i].during
      <3>1. CASE i \in Of(c) /\ origin'[i].during = origin[i].during
        BY <1>2, <2>2, <3>1
      <3>2. CASE origin'[i].during = (operator.phase # "off")
        BY <1>2, <3>2
      <3> QED
        BY <3>1, <3>2, OfNext
    <2> QED
      BY <1>2, <2>1, <2>2
  <1>3. CASE UNCHANGED operator
    <2> SUFFICES ASSUME operator.phase # "off"
                 PROVE  /\ \E c \in Service : Rows(c)'
                        /\ operator.phase = "rotated" => \A i \in operator.rows : Usable(i, operator.secret)'
      BY <1>3 DEF ScriptKnows
    <2>1. \E c \in Service : Rows(c)'
      BY <1>1, <1>2, <1>3
    <2>2. ASSUME operator.phase = "rotated", NEW i \in operator.rows PROVE Usable(i, operator.secret)'
      <3>1. i \in DOMAIN subs /\ operator.secret \in Nat
        BY <2>2 DEF Shape, SendShape, ScriptRec
      <3>2. \A s \in Nat : Usable(i, s) => Usable(i, s)'
        BY <3>1, UsableStays
      <3> QED
        BY <1>1, <1>3, <2>2, <3>1, <3>2 DEF Usable
    <2> HIDE DEF Rows
    <2> QED
      BY <2>1, <2>2
  <1>4. ASSUME NEW c \in Service, ScriptLists(c) PROVE ScriptKnows'
    <2>1. /\ operator' = [phase |-> "listed", rows |-> Of(c), secret |-> NoSecret, runs |-> operator.runs + 1]
          /\ Of(c) # {} /\ Of(c)' = Of(c)
      BY <1>4 DEF ScriptLists, rowVars, Of
    <2> QED
      BY <2>1 DEF ScriptKnows
  <1>5. CASE ScriptRotates
    <2>1. /\ operator.phase = "listed" /\ Rotated(operator.rows, NewSecret, OperatorOverlap)
          /\ operator' = [operator EXCEPT !.phase = "rotated", !.secret = NewSecret]
          /\ now' = now
      BY <1>5 DEF ScriptRotates
    <2>2. operator \in ScriptRec /\ operator.rows \in SUBSET DOMAIN subs
      BY DEF Shape, SendShape
    <2>4. operator'.phase = "rotated" /\ operator'.secret = NewSecret /\ operator'.rows = operator.rows
      <3> DEFINE a == [operator EXCEPT !.phase = "rotated"]
      <3>1. operator' = [a EXCEPT !.secret = NewSecret]
        BY <2>1
      <3>2. a \in ScriptRec /\ a.rows = operator.rows /\ a.phase = "rotated"
        BY <2>2 DEF ScriptRec
      <3> HIDE DEF a, NewSecret
      <3> QED
        BY <3>1, <3>2 DEF ScriptRec
    <2>5. ASSUME NEW i \in operator.rows PROVE Usable(i, operator.secret)'
      <3>1. RowNow(i, subs[i].enabled, NewSecret, subs[i].secret, now + OperatorOverlap)
        BY <2>1, <2>2, Rotating, Newest, SubscriptionBounds
      <3>2. subs'[i].secret = operator'.secret
        BY <2>4, <3>1 DEF RowNow
      <3> QED
        BY <3>2 DEF Usable
    <2>6. \E c \in Service : Rows(c)'
      BY <1>1, <1>2, <2>1, <2>4
    <2> HIDE DEF Rows
    <2> QED
      BY <2>4, <2>5, <2>6 DEF ScriptKnows, Rows
  <1>6. ASSUME ScriptDies \/ \E c \in Service : ScriptWrites(c) PROVE ScriptKnows'
    <2>1. operator' = [NoScript EXCEPT !.runs = operator.runs]
      BY <1>6 DEF ScriptDies, ScriptWrites
    <2>2. operator'.phase = "off"
      BY <2>1 DEF NoScript
    <2> QED
      BY <2>2 DEF ScriptKnows
  <1>7. ASSUME Delivery PROVE UNCHANGED operator
    BY <1>7 DEF Delivery, Post, ReadRow
  <1> QED
    BY <1>3, <1>4, <1>5, <1>6, <1>7, Cases DEF Script, sendVars

LEMMA SecretsVerify ==
  ASSUME Shape, HeldUsable, SendKnows
  PROVE  VerifiesUnlessRaced
  <1> DEFINE i == send.row
             had == held[i]
  <1> SUFFICES ASSUME send # NoSend, ~origin[i].during, subs[i].secret = send.secret, had \notin dropped[i],
                      ~\E old \in promised[i] : old.secret = had /\ old.until <= now
               PROVE  Verifies(had)
    BY DEF VerifiesUnlessRaced
  <1>1. i \in DOMAIN subs /\ send.previous = subs[i].previous /\ send.until = subs[i].until
    BY DEF SendKnows
  <1>2. Usable(i, had)
    BY <1>1 DEF HeldUsable
  <1>3. CASE had = subs[i].secret
    BY <1>3 DEF Verifies, SignedWith
  <1>4. CASE had = subs[i].previous /\ [secret |-> had, until |-> subs[i].until] \in promised[i]
    <2> DEFINE old == [secret |-> had, until |-> subs[i].until]
    <2>1. old.secret = had /\ old.until = subs[i].until
      OBVIOUS
    <2>2. ~(subs[i].until <= now)
      BY <1>4, <2>1
    <2>3. subs[i].until \in Int /\ now \in Int
      BY <1>1, RowIs DEF Row, Shape, NetShape
    <2> QED
      BY <1>1, <1>4, <2>2, <2>3 DEF Verifies, SignedWith
  <1> QED
    BY <1>2, <1>3, <1>4 DEF Usable

-----------------------------------------------------------------------------
(* Control requests.  A key that was answered for is in the log, and who   *)
(* found it missing there was sent before.                                 *)
KeysAnswered ==
    /\ \A k \in answered : log[k].kept
    /\ \A r \in Request :
          /\ req[r].pc = "answer" => log[Head(req[r].left).key].kept
          /\ req[r].pc \in {"decide", "apply"} => req[r].fresh
          /\ req[r].pc = "look" /\ ~req[r].fresh => Head(req[r].left).key \in answered

(* A key that the log has it keeps, with the answer it has.                *)
LEMMA LogKeeps ==
  ASSUME Shape, [Next]_vars, NEW k \in Key, log[k].kept
  PROVE  log'[k].kept
  <1>1. log \in [Key -> [kept : BOOLEAN, enable : BOOLEAN, dry : BOOLEAN]]
    BY DEF Shape, ControlShape
  <1>2. ASSUME NEW r \in Request, Keep(r) PROVE log'[k].kept
    <2> DEFINE key == Head(req[r].left).key
    <2>1. log' = [log EXCEPT ![key] = Kept(@, Head(req[r].left))]
      BY <1>2 DEF Keep
    <2>2. CASE key = k
      <3>1. log'[k] = log[k]
        BY <1>1, <2>1, <2>2 DEF Kept
      <3> QED
        BY <3>1
    <2>3. CASE key # k
      BY <1>1, <2>1, <2>3
    <2> QED
      BY <2>2, <2>3
  <1>3. ASSUME NEW r \in Request, Look(r) \/ Answer(r) PROVE UNCHANGED log
    BY <1>3 DEF Look, Answer
  <1> QED
    BY <1>2, <1>3, Cases DEF ControlStep, controlVars

(* Where a control request comes from when it decides, applies or answers. *)
LEMMA ControlPath ==
  ASSUME Shape, NEW r \in Request, Start(r) \/ Creates(r) \/ Changes(r) \/ Controls(r) \/ Abandon(r),
         req'[r].pc \in {"look", "decide", "apply", "answer"}
  PROVE  /\ req'[r].left = req[r].left
         /\ \/ /\ Start(r) /\ req'[r].pc = "look"
               /\ req'[r].fresh = (Head(req[r].left).key \notin answered) /\ UNCHANGED controlVars
            \/ /\ Look(r) /\ req'[r].pc = "decide" /\ ~log[Head(req[r].left).key].kept
               /\ req'[r].fresh = req[r].fresh
            \/ Decide(r) /\ req'[r].pc \in {"apply", "keep"} /\ req'[r].fresh = req[r].fresh
            \/ Keep(r) /\ req'[r].pc = "answer"
  <1>1. PcKnows(r)
    BY DEF Shape, ReqShape
  <1>2. ~Done(r)
    BY DEF Done, ReqIs
  <1>3. ASSUME Start(r)
        PROVE  /\ req'[r].left = req[r].left /\ req'[r].pc = "look"
               /\ req'[r].fresh = (Head(req[r].left).key \notin answered) /\ UNCHANGED controlVars
    <2>1. ASSUME NEW pc \in {"guard", "twin", "rotate", "toggle"}, NEW issued,
                 ReqIs(r, pc, req[r].left, issued, req[r].seen, req[r].after, req[r].fresh)
          PROVE  FALSE
      BY <2>1 DEF ReqIs
    <2>2. ReqIs(r, "look", req[r].left, req[r].issued, req[r].seen, req[r].after, Head(req[r].left).key \notin answered)
      BY <1>3, <2>1, StartIs
    <2>3. UNCHANGED controlVars
      BY <1>3 DEF Start
    <2> QED
      BY <2>2, <2>3 DEF ReqIs
  <1>4. ASSUME NEW scope \in Scope, NEW pc \in Pc, NEW next \in Pc,
               next \notin {"look", "decide", "apply", "answer"}, Checked(r, pc, scope, next), pc # "idle"
        PROVE  FALSE
    <2>1. req[r].left # <<>>
      BY <1>1, <1>4 DEF Checked, PcKnows
    <2>2. ReqIs(r, next, req[r].left, req[r].issued, [req[r].seen EXCEPT ![scope] = Len(stored)],
                req[r].after, req[r].fresh)
      BY <1>2, <1>4, <2>1, CheckedIs
    <2> QED
      BY <1>4, <2>2 DEF ReqIs
  <1>5. ASSUME Guard(r) PROVE FALSE
    BY <1>4, <1>5 DEF Guard, AfterGuard, Scope, Pc
  <1>6. ASSUME Grant(r) PROVE FALSE
    BY <1>4, <1>6 DEF Grant, Scope, Pc
  <1>7. ASSUME FindTwin(r) PROVE FALSE
    <2>1. req[r].left # <<>> /\ "count" \in Pc /\ Len(subs) \in Nat
      BY <1>1, <1>7, LenProperties DEF FindTwin, PcKnows, Pc, Shape, RowShape
    <2>2. ReqIs(r, "count", req[r].left, req[r].issued, req[r].seen, Len(subs), req[r].fresh)
      BY <1>2, <1>7, <2>1, Goings, PcAnd DEF FindTwin
    <2> QED
      BY <2>2 DEF ReqIs
  <1>8. ASSUME CountOwn(r) \/ CountProject(r) PROVE FALSE
    <2>1. req[r].left # <<>> /\ "quota" \in Pc /\ "insert" \in Pc
      BY <1>1, <1>8 DEF CountOwn, CountProject, Statement, PcKnows, Pc
    <2>2. Goes(r, "quota") \/ Goes(r, "insert")
      BY <1>2, <1>8, <2>1, Goings DEF CountOwn, CountProject, Statement
    <2>3. Same(r, "quota") \/ Same(r, "insert")
      BY <2>1, <2>2, Goings
    <2> QED
      BY <2>3 DEF Same, ReqIs
  <1>9. ASSUME Insert(r) \/ Changes(r) \/ Answer(r) \/ Abandon(r) PROVE FALSE
    <2>1. req[r].left # <<>> /\ Over(r)
      BY <1>1, <1>9 DEF Insert, Changes, NotFound, Toggle, Rotate, Answer, Abandon, PcKnows
    <2> QED
      BY <1>2, <2>1, Goings
  <1>10. ASSUME Look(r) PROVE req'[r].left = req[r].left /\ req'[r].pc = "decide" /\ req'[r].fresh = req[r].fresh
                              /\ ~log[Head(req[r].left).key].kept
    <2>1. req[r].left # <<>> /\ "decide" \in Pc
      BY <1>1, <1>10 DEF Look, PcKnows, Pc
    <2>2. ~log[Head(req[r].left).key].kept /\ Goes(r, "decide")
      BY <1>2, <1>10, <2>1, Goings DEF Look
    <2>3. Same(r, "decide")
      BY <2>1, <2>2, Goings
    <2> QED
      BY <2>2, <2>3 DEF Same, ReqIs
  <1>11. ASSUME Decide(r)
         PROVE  req'[r].left = req[r].left /\ req'[r].pc \in {"apply", "keep"} /\ req'[r].fresh = req[r].fresh
    <2>1. Goes(r, "apply") \/ Goes(r, "keep")
      BY <1>11 DEF Decide
    <2>2. Same(r, "apply") \/ Same(r, "keep")
      BY <2>1, Goings DEF Pc
    <2> QED
      BY <2>2 DEF Same, ReqIs
  <1>12. ASSUME Apply(r) PROVE FALSE
    <2>1. Same(r, "keep")
      BY <1>12, Goings DEF Apply, Pc
    <2> QED
      BY <2>1 DEF Same, ReqIs
  <1>13. ASSUME Keep(r) PROVE req'[r].left = req[r].left /\ req'[r].pc = "answer"
    <2>1. Same(r, "answer")
      BY <1>13, Goings DEF Keep, Pc
    <2> QED
      BY <2>1 DEF Same, ReqIs
  <1> QED
    BY <1>3, <1>5, <1>6, <1>7, <1>8, <1>9, <1>10, <1>11, <1>12, <1>13 DEF Creates, Controls

(* The key of a control request.                                           *)
LEMMA KeyIs ==
  ASSUME Shape, NEW r \in Request, req[r].pc \in {"look", "decide", "apply", "keep", "answer"}
  PROVE  Head(req[r].left).key \in Key
  <1>1. req[r].left # <<>> /\ Op(r) = "control"
    BY DEF Shape, ReqShape, PcKnows
  <1> QED
    BY <1>1, CallIs

LEMMA KeysAnsweredNext ==
  ASSUME Shape, [Next]_vars, KeysAnswered
  PROVE  KeysAnswered'
  <1>1. answered \subseteq Key /\ \A k \in Key : log[k].kept => log'[k].kept
    BY LogKeeps DEF Shape, ControlShape
  <1>2. answered \subseteq answered' /\ \A k \in answered' : log'[k].kept
    <2>1. CASE answered' = answered
      BY <1>1, <2>1 DEF KeysAnswered
    <2>2. ASSUME NEW r \in Request, Look(r) PROVE answered' = answered \/ (answered' = answered \union {Head(req[r].left).key}
                                                     /\ log'[Head(req[r].left).key].kept)
      <3>1. UNCHANGED log
        BY <2>2 DEF Look
      <3> QED
        BY <2>2, <3>1 DEF Look
    <2>3. ASSUME NEW r \in Request, Answer(r)
          PROVE  answered' = answered \union {Head(req[r].left).key} /\ log'[Head(req[r].left).key].kept
      <3>1. UNCHANGED log /\ req[r].pc = "answer"
        BY <2>3 DEF Answer
      <3> QED
        BY <2>3, <3>1 DEF Answer, KeysAnswered
    <2>4. ASSUME NEW r \in Request, Keep(r) PROVE answered' = answered
      BY <2>4 DEF Keep
    <2>5. CASE \E k : answered' = answered \union {k} /\ log'[k].kept
      BY <1>1, <2>5 DEF KeysAnswered
    <2> QED
      BY <2>1, <2>2, <2>3, <2>4, <2>5, Cases DEF ControlStep, controlVars
  <1> DEFINE Knows(r) == /\ req[r].pc = "answer" => log[Head(req[r].left).key].kept
                         /\ req[r].pc \in {"decide", "apply"} => req[r].fresh
                         /\ req[r].pc = "look" /\ ~req[r].fresh => Head(req[r].left).key \in answered
  <1>3. \A r \in Request : Knows(r)
    BY DEF KeysAnswered
  <1>4. ASSUME NEW r \in Request, req'[r] = req[r] PROVE Knows(r)'
    <2>1. req[r].pc = "answer" => Head(req[r].left).key \in Key
      BY KeyIs
    <2> QED
      BY <1>1, <1>2, <1>3, <1>4, <2>1
  <1>5. ASSUME NEW r \in Request, Start(r) \/ Creates(r) \/ Changes(r) \/ Controls(r) \/ Abandon(r)
        PROVE  Knows(r)'
    <2> SUFFICES ASSUME req'[r].pc \in {"look", "decide", "apply", "answer"} PROVE Knows(r)'
      OBVIOUS
    <2>1. req'[r].left = req[r].left
      BY <1>5, ControlPath
    <2>2. CASE /\ req'[r].pc = "look" /\ UNCHANGED controlVars
               /\ req'[r].fresh = (Head(req[r].left).key \notin answered)
      BY <2>1, <2>2 DEF controlVars
    <2>3. CASE /\ Look(r) /\ req'[r].pc = "decide" /\ ~log[Head(req[r].left).key].kept
               /\ req'[r].fresh = req[r].fresh
      <3>1. req[r].pc = "look"
        BY <2>3 DEF Look
      <3>2. req[r].fresh
        BY <1>3, <2>3, <3>1 DEF KeysAnswered
      <3> QED
        BY <2>3, <3>2
    <2>4. CASE Decide(r) /\ req'[r].pc \in {"apply", "keep"} /\ req'[r].fresh = req[r].fresh
      <3>1. req[r].pc = "decide"
        BY <2>4 DEF Decide
      <3> QED
        BY <1>3, <2>4, <3>1
    <2>5. CASE Keep(r) /\ req'[r].pc = "answer"
      <3>1. req[r].pc = "keep" /\ log' = [log EXCEPT ![Head(req[r].left).key] = Kept(@, Head(req[r].left))]
        BY <2>5 DEF Keep
      <3>2. Head(req[r].left).key \in Key
        BY <3>1, KeyIs
      <3>3. Kept(log[Head(req[r].left).key], Head(req[r].left)).kept
        BY DEF Kept, Entry
      <3>4. log'[Head(req[r].left).key].kept
        BY <3>1, <3>2, <3>3 DEF Shape, ControlShape
      <3> QED
        BY <2>1, <2>5, <3>4
    <2> QED
      BY <1>5, <2>2, <2>3, <2>4, <2>5, ControlPath
  <1>6. ASSUME NEW r \in Request PROVE Knows(r)'
    <2>1. CASE req'[r] = req[r]
      BY <1>4, <2>1
    <2>2. CASE req'[r] # req[r]
      <3>1. PICK q \in Request : Start(q) \/ Creates(q) \/ Changes(q) \/ Controls(q) \/ Abandon(q)
        BY <2>2, Cases DEF ReqStep
      <3>2. q = r
        BY <2>2, <3>1, Statements DEF Stays
      <3> QED
        BY <1>5, <3>1, <3>2
    <2> QED
      BY <2>1, <2>2
  <1> HIDE DEF Knows
  <1> QED
    BY <1>2, <1>6 DEF KeysAnswered, Knows

-----------------------------------------------------------------------------
(* The invariant of all of it.                                             *)
IInv == Shape /\ RevokeInv /\ CreateInv /\ SecretInv /\ KeysAnswered

LEMMA InitShape ==
  ASSUME Init
  PROVE  Shape
  <1>1. \A i \in DOMAIN Initial :
          /\ Initial[i].consumer \in Consumer /\ Initial[i].env \in Env /\ Initial[i].topic \in Topic
          /\ Initial[i].enabled \in BOOLEAN
    <2>1. \A i \in DOMAIN Initial : Initial[i] \in [consumer : Consumer, env : Env, topic : Topic, enabled : BOOLEAN]
      BY SubscriptionShape, Places
    <2> QED
      BY <2>1
  <1> DEFINE Row1(i) == [consumer |-> Initial[i].consumer, env |-> Initial[i].env, topic |-> Initial[i].topic,
                         enabled |-> Initial[i].enabled, secret |-> 1, previous |-> NoSecret, until |-> NoTime]
  <1>2. RowShape
    <2>1. subs \in Seq(Row) /\ DOMAIN subs = DOMAIN Initial
      <3>1. subs = [i \in DOMAIN Initial |-> Row1(i)]
        BY DEF Init
      <3>2. \A i \in DOMAIN Initial : Row1(i) \in Row
        BY <1>1 DEF Row, NoSecret, NoTime, Secret
      <3> HIDE DEF Row1
      <3> QED
        BY <3>1, <3>2, AsLong, SubscriptionShape
    <2>2. origin \in Seq(From) /\ DOMAIN origin = DOMAIN Initial
      <3>1. origin \in [DOMAIN Initial -> From]
        BY DEF Init, From, Seen
      <3> QED
        BY <3>1, AsLong, SubscriptionShape
    <2>3. held \in Seq(Nat) /\ DOMAIN held = DOMAIN Initial /\ told = held
      <3>1. held \in [DOMAIN Initial -> Nat] /\ told = held
        BY DEF Init
      <3> QED
        BY <3>1, AsLong, SubscriptionShape
    <2>4. promised \in Seq(SUBSET Promise) /\ DOMAIN promised = DOMAIN Initial
      <3>1. promised \in [DOMAIN Initial -> SUBSET Promise]
        BY DEF Init
      <3> QED
        BY <3>1, AsLong, SubscriptionShape
    <2>5. dropped \in Seq(SUBSET Nat) /\ DOMAIN dropped = DOMAIN Initial
      <3>1. dropped \in [DOMAIN Initial -> SUBSET Nat]
        BY DEF Init
      <3> QED
        BY <3>1, AsLong, SubscriptionShape
    <2> QED
      BY <2>1, <2>2, <2>3, <2>4, <2>5 DEF RowShape
  <1>3. RevokeShape
    <2>1. <<>> \in Seq(News)
      BY EmptySeq
    <2> QED
      BY <2>1 DEF Init, RevokeShape, NoTime
  <1>4. NetShape
    BY SubscriptionShape DEF Init, NetShape, PlanRec
  <1>5. ControlShape
    BY DEF Init, ControlShape, NoEntry
  <1>6. SendShape
    BY DEF Init, SendShape, NoScript, ScriptRec, NoSecret, NoSend, SendRec, NoTime, Secret
  <1>7. ReqShape
    <2>1. /\ req \in [Request -> ReqRec]
          /\ \A r \in Request : req[r].pc = "idle"
      BY <1>4 DEF Init, Waiting, ReqRec, Pc, Seen, NetShape, PlanRec
    <2> QED
      BY <2>1 DEF ReqShape, PcKnows
  <1> QED
    BY <1>2, <1>3, <1>4, <1>5, <1>6, <1>7 DEF Shape

LEMMA InitKeeps ==
  ASSUME Init
  PROVE  IInv
  <1>1. Shape
    BY InitShape
  <1>2. /\ DOMAIN subs = DOMAIN Initial /\ stored = <<>> /\ revoking = NoRevoking
        /\ \A i \in DOMAIN Initial :
              /\ subs[i].consumer = Initial[i].consumer /\ subs[i].env = Initial[i].env
              /\ subs[i].secret = 1 /\ held[i] = 1 /\ told[i] = 1
              /\ origin[i].seen = [s \in Scope |-> 0]
        /\ \A r \in Request : req[r].pc = "idle" /\ req[r].seen = [s \in Scope |-> Unchecked]
        /\ file = [c \in Service |-> 1] /\ operator.phase = "off" /\ send = NoSend /\ answered = {}
    BY DEF Init, Waiting, NoScript
  <1>3. DOMAIN stored = {} /\ Len(stored) = 0
    BY <1>2
  <1>4. RevokeInv
    <2>1. SeenHolds
      BY <1>2, <1>3 DEF SeenHolds, Unchecked
    <2> QED
      BY <1>2, <1>3, <2>1 DEF RevokeInv, LatestStored, OnIsChecked, OnSince, RevokedStaysOff
  <1>5. CreateInv
    <2>1. LookedFirst
      BY <1>2 DEF LookedFirst
    <2>2. /\ \A c : Through(c) = {} /\ Of(c) = {i \in DOMAIN Initial : Initial[i].consumer = c}
          /\ \A env : /\ ThroughProject(env) = {}
                      /\ OfProject(env) = {i \in DOMAIN Initial : Initial[i].consumer \in App \union Person
                                                                  /\ Initial[i].env = env}
      BY <1>2 DEF Through, ThroughProject, Of, OfProject
    <2>3. IsFiniteSet(DOMAIN Initial)
      <3>1. DOMAIN Initial = 1..Len(Initial) /\ Len(Initial) \in Nat
        BY SubscriptionShape, Places
      <3> QED
        BY <3>1, FS_Interval
    <2>4. Cardinality(Request) \in Nat /\ Cardinality(Request) >= 1
      BY SubscriptionShape, FS_CardinalityType, FS_EmptySet
    <2>5. /\ \A c : Cardinality(Of(c)) \in Nat
          /\ \A env : Cardinality(OfProject(env)) \in Nat
      <3>1. \A c : Of(c) \in SUBSET DOMAIN Initial
        BY <2>2
      <3>2. \A env : OfProject(env) \in SUBSET DOMAIN Initial
        BY <2>2
      <3> QED
        BY <2>3, <3>1, <3>2, FS_Subset, FS_CardinalityType
    <2>6. InLimits
      <3>1. ASSUME NEW c \in Consumer
            PROVE  Cardinality(Of(c)) + Cardinality(Through(c)) <= MaxPerConsumer + Cardinality(Request) - 1
        <4>1. Cardinality(Of(c)) <= MaxPerConsumer /\ Cardinality(Through(c)) = 0
          BY <2>2, InitialInLimits, FS_EmptySet
        <4> QED
          BY <2>4, <2>5, <4>1, SubscriptionBounds
      <3>2. ASSUME NEW env \in Env
            PROVE  Cardinality(OfProject(env)) + Cardinality(ThroughProject(env))
                      <= MaxPerProject + Cardinality(Request) - 1
        <4>1. Cardinality(OfProject(env)) <= MaxPerProject /\ Cardinality(ThroughProject(env)) = 0
          BY <2>2, InitialInLimits, FS_EmptySet
        <4> QED
          BY <2>4, <2>5, <4>1, SubscriptionBounds
      <3> QED
        BY <3>1, <3>2 DEF InLimits
    <2>7. TwinsOverlapped
      <3>1. \A i \in DOMAIN Initial : i \in Nat /\ 0 < i
        BY SubscriptionShape, Places
      <3>2. DOMAIN subs = DOMAIN Initial /\ \A i \in DOMAIN Initial : origin[i].after = 0
        BY DEF Init
      <3> QED
        BY <3>1, <3>2 DEF TwinsOverlapped
    <2> QED
      BY <2>1, <2>6, <2>7 DEF CreateInv
  <1>6. SecretInv
    BY <1>2 DEF SecretInv, HeldUsable, FileUsable, ScriptKnows, SendKnows, Usable, Of
  <1>7. KeysAnswered
    BY <1>2 DEF KeysAnswered
  <1> QED
    BY <1>1, <1>4, <1>5, <1>6, <1>7 DEF IInv

LEMMA NextKeeps ==
  ASSUME IInv, [Next]_vars
  PROVE  IInv'
  <1>1. Shape'
    BY ShapeNext DEF IInv
  <1>2. RevokeInv'
    BY LatestStoredNext, SeenHoldsNext, OnNext DEF IInv, RevokeInv
  <1>3. CreateInv'
    BY LookedFirstNext, InLimitsNext, TwinsOverlappedNext DEF IInv, CreateInv
  <1>4. SecretInv'
    BY HeldUsableNext, FileUsableNext, ScriptKnowsNext, SendKnowsNext DEF IInv, SecretInv
  <1>5. KeysAnswered'
    BY KeysAnsweredNext DEF IInv
  <1> QED
    BY <1>1, <1>2, <1>3, <1>4, <1>5 DEF IInv

LEMMA Inductive == Spec => []IInv
  <1>1. Init => IInv
    BY InitKeeps
  <1>2. IInv /\ [Next]_vars => IInv'
    BY NextKeeps
  <1> QED
    BY <1>1, <1>2, PTL DEF Spec

(* Once a revocation is stored, an app's subscription is on only by a      *)
(* token issued after it, or by a request that was checked before it       *)
(* committed and wrote while or after it ran.                              *)
THEOREM RevocationHolds == Spec => []RevokedStaysOff
  <1>1. IInv => RevokedStaysOff
    BY DEF IInv, RevokeInv
  <1> QED
    BY <1>1, Inductive, PTL

(* However many requests create at once, a consumer and a project exceed   *)
(* their limits by no more than the other requests in flight, and of two   *)
(* equal subscriptions the second looked before the first was there.       *)
THEOREM CreatesAreBounded == Spec => []CreatesBounded
  <1>1. IInv => CreatesBounded
    BY ShapeIsTyped, LimitsFollow DEF IInv, CreateInv, CreatesBounded
  <1> QED
    BY <1>1, Inductive, PTL

(* A consumer verifies what it is sent, across any rotations by itself and *)
(* by the script, but for the four races.                                  *)
THEOREM RotationsVerify == Spec => []VerifiesUnlessRaced
  <1>1. IInv => VerifiesUnlessRaced
    BY SecretsVerify DEF IInv, SecretInv
  <1> QED
    BY <1>1, Inductive, PTL

(* A control request whose key was answered before it was sent changes     *)
(* nothing.                                                                *)
THEOREM RepeatsAreIdle == Spec => RepeatChangesNothing
  <1>1. IInv /\ [Next]_vars => [\A r \in Request : Apply(r) => req[r].fresh]_vars
    <2> SUFFICES ASSUME IInv, NEW r \in Request, Apply(r) PROVE req[r].fresh
      OBVIOUS
    <2>1. req[r].pc = "apply"
      BY DEF Apply
    <2> QED
      BY <2>1 DEF IInv, KeysAnswered
  <1> QED
    BY <1>1, Inductive, PTL DEF Spec, RepeatChangesNothing
=============================================================================
