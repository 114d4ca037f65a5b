--------------------------- MODULE Subscriptions ---------------------------
(***************************************************************************)
(* Subscriptions (server/api/subscriptions.js, api/resource-control.js,    *)
(* the subscription part of server/store.js): creating one against its     *)
(* limits, turning it off and on, rotating its secret, what a revocation   *)
(* by Network does to an app's, and whether the consumer can verify what   *)
(* the worker signs.                                                       *)
(*                                                                         *)
(* A request is a process whose statements are steps: between two of them  *)
(* any other request, publish, rotation or send may run.  What a request   *)
(* refuses for its shape alone is left out.  Time counts ticks, Second of  *)
(* them a second of a token's iat.  All apps are of one project.           *)
(***************************************************************************)
EXTENDS Integers, Sequences, FiniteSets, SequencesExt

CONSTANTS
    App, Service, Person,   \* the consumers there are
    Topic,                  \* a topic pattern with an endpoint
    Request,                \* API requests in flight
    Plans,                  \* what may happen: the calls of each request one after the other, and bounds
    Key,                    \* idempotency keys of control requests
    Initial,                \* the subscriptions there are at first
    MaxPerConsumer,         \* config.maxSubscriptionsPerConsumer
    MaxPerProject,          \* config.apps.quotas[env].maxSubscriptions
    Second,                 \* ticks per second
    OperatorOverlap         \* --overlap-s of the operator's rotation

Env == {"sandbox", "production"}
Scope == {"app", "subscribe"}
Consumer == App \union Service \union Person
Secret == Nat \ {0}
NoSecret == 0
NoTime == -1
Unchecked == -1

Call == [op : {"create"}, by : App \union Service, env : Env, topic : Topic]
        \union [op : {"enable", "disable"}, by : App \union Service, env : Env]
        \union [op : {"rotate"}, by : App \union Service, env : Env, overlap : Nat]
        \union [op : {"control"}, key : Key, row : DOMAIN Initial, enable : BOOLEAN, dry : BOOLEAN]

ASSUME SubscriptionBounds ==
    /\ MaxPerConsumer \in Nat /\ MaxPerProject \in Nat /\ OperatorOverlap \in Nat
    /\ Second \in Nat \ {0}
ASSUME SubscriptionShape ==
    /\ Plans \subseteq [calls : [Request -> Seq(Call)], ticks : Nat, withdrawals : Nat, scripts : Nat, sends : BOOLEAN]
    /\ Initial \in Seq([consumer : Consumer, env : Env, topic : Topic, enabled : BOOLEAN])
    /\ IsFiniteSet(Request) /\ Request # {}

(* A consumer's name says what it is (app:, svc:, usr_), and the table at  *)
(* first is one that the limits allow.                                     *)
ASSUME ConsumersApart == App \intersect (Service \union Person) = {} /\ Service \intersect Person = {}
ASSUME InitialInLimits ==
    /\ \A c \in Consumer : Cardinality({i \in DOMAIN Initial : Initial[i].consumer = c}) <= MaxPerConsumer
    /\ \A env \in Env : Cardinality({i \in DOMAIN Initial : Initial[i].consumer \in App \union Person /\ Initial[i].env = env})
                           <= MaxPerProject

VARIABLES
    plan,       \* the bounds of this behaviour
    now,
    subs,       \* the rows of subscriptions, in the order they were inserted
    revoked,    \* app_revocations.revoked_at of a consumer and a scope
    revoking,   \* the publish of a revocation that has run its statements and not committed
    log,        \* events_control_log
    req,        \* per request: where it is, the calls it has left, its token
    granted,    \* Network: whether an app may subscribe
    tokens,     \* Network: when a token of an app may have been issued
    news,       \* Network's outbox: revocations to publish
    stored,     \* history: the revocations that committed, in order
    origin,     \* history: per subscription, what the request that last put it on had seen
    answered,   \* history: the keys a control request was answered for
    operator,   \* the operator's rotation script
    file,       \* per service: the secret in its env file
    held,       \* per subscription: the secret its consumer verifies with
    told,       \* and the one it was last told of
    promised,   \* history: until when an old secret was said to sign on
    dropped,    \* history: the secrets a second rotation replaced before that
    send        \* a delivery the worker is sending: the row as it read it

netVars == <<granted, tokens, news>>
secretVars == <<held, told, promised, dropped>>
rowVars == <<subs, origin, secretVars>>
revokeVars == <<revoked, revoking, stored>>
controlVars == <<log, answered>>
sendVars == <<operator, file, send>>
vars == <<plan, now, rowVars, revokeVars, controlVars, req, netVars, sendVars>>

NoRevoking == [app |-> NoTime, scope |-> "app", at |-> NoTime, rows |-> {}]
NoScript == [phase |-> "off", rows |-> {}, secret |-> NoSecret, runs |-> 0]
NoSend == [row |-> 0, secret |-> NoSecret, previous |-> NoSecret, until |-> NoTime]
Waiting(calls) == [pc |-> "idle", left |-> calls, issued |-> 0, seen |-> [s \in Scope |-> Unchecked], after |-> 0,
                   fresh |-> TRUE]
NoEntry == [kept |-> FALSE, enable |-> FALSE, dry |-> FALSE]

Op(r) == Head(req[r].left).op
By(r) == Head(req[r].left).by

TypeOK ==
    /\ now \in 0..plan.ticks
    /\ subs \in Seq([consumer : Consumer, env : Env, topic : Topic, enabled : BOOLEAN,
                     secret : Secret, previous : Nat, until : Int])
    /\ revoked \in [App \X Scope -> Int]
    /\ revoking.rows \subseteq DOMAIN subs
    /\ log \in [Key -> [kept : BOOLEAN, enable : BOOLEAN, dry : BOOLEAN]]
    /\ \A r \in Request :
          /\ req[r].pc \in {"idle", "guard", "grant", "twin", "count", "quota", "insert", "toggle",
                            "rotate", "look", "decide", "apply", "keep", "answer"}
          /\ req[r].pc # "idle" => req[r].left # <<>>
          /\ req[r].pc = "grant" => Op(r) \in {"create", "enable"} /\ By(r) \in App
          /\ req[r].pc \in {"twin", "count", "quota", "insert"} => Op(r) = "create"
          /\ req[r].pc = "toggle" => Op(r) \in {"enable", "disable"}
    /\ DOMAIN origin = DOMAIN subs /\ DOMAIN held = DOMAIN subs /\ DOMAIN told = DOMAIN subs
    /\ send.row \in {0} \union DOMAIN subs

Init ==
    /\ now = 0
    /\ subs = [i \in DOMAIN Initial |->
                 [consumer |-> Initial[i].consumer, env |-> Initial[i].env, topic |-> Initial[i].topic,
                  enabled |-> Initial[i].enabled, secret |-> 1, previous |-> NoSecret, until |-> NoTime]]
    /\ origin = [i \in DOMAIN Initial |-> [issued |-> 0, seen |-> [s \in Scope |-> 0], wrote |-> 0,
                                        after |-> 0, during |-> FALSE]]
    /\ held = [i \in DOMAIN Initial |-> 1] /\ told = held
    /\ promised = [i \in DOMAIN Initial |-> {}] /\ dropped = [i \in DOMAIN Initial |-> {}]
    /\ revoked = [x \in App \X Scope |-> NoTime] /\ revoking = NoRevoking
    /\ log = [k \in Key |-> NoEntry] /\ answered = {}
    /\ plan \in Plans
    /\ req = [r \in Request |-> Waiting(plan.calls[r])]
    /\ granted = [a \in App |-> TRUE] /\ tokens = [a \in App |-> {0}] /\ news = {} /\ stored = <<>>
    /\ operator = NoScript /\ file = [c \in Service |-> 1]
    /\ send = NoSend

-----------------------------------------------------------------------------
(* Time, and Network: it issues tokens while the app is granted, and says  *)
(* when it withdrew the app or the grant.                                  *)
Tick ==
    /\ now < plan.ticks
    /\ now' = now + 1
    /\ tokens' = [a \in App |-> IF granted[a] THEN tokens[a] \union {now + 1} ELSE tokens[a]]
    /\ UNCHANGED <<plan, rowVars, revokeVars, controlVars, req, granted, news, sendVars>>

Withdraw(a, scope) ==
    /\ granted[a]
    /\ Cardinality(news) + Len(stored) < plan.withdrawals
    /\ granted' = [granted EXCEPT ![a] = FALSE]
    /\ news' = news \union {[app |-> a, scope |-> scope, at |-> now]}
    /\ UNCHANGED <<plan, now, rowVars, revokeVars, controlVars, req, tokens, sendVars>>

Regrant(a) ==
    /\ ~granted[a]
    /\ granted' = [granted EXCEPT ![a] = TRUE]
    /\ tokens' = [tokens EXCEPT ![a] = @ \union {now}]
    /\ UNCHANGED <<plan, now, rowVars, revokeVars, controlVars, req, news, sendVars>>

-----------------------------------------------------------------------------
(* revocationHook, in the transaction that stores Network's event: the     *)
(* statement that disables takes the rows it finds enabled and locks them; *)
(* both effects show when the transaction commits.                         *)
Revoke(v) ==
    /\ v \in news /\ revoking = NoRevoking
    /\ revoking' = [app |-> v.app, scope |-> v.scope, at |-> v.at,
                    rows |-> {i \in DOMAIN subs : subs[i].consumer = v.app /\ subs[i].enabled}]
    /\ news' = news \ {v}
    /\ UNCHANGED <<plan, now, rowVars, revoked, stored, controlVars, req, granted, tokens, sendVars>>

\* mutated: the row takes the time of the event that came last
LastCome(was, at) == at
Latest(was, at) == IF was > at THEN was ELSE at

RevokeCommits ==
    /\ revoking # NoRevoking
    /\ revoked' = [revoked EXCEPT ![<<revoking.app, revoking.scope>>] = Latest(@, revoking.at)]
    /\ subs' = [i \in DOMAIN subs |-> IF i \in revoking.rows THEN [subs[i] EXCEPT !.enabled = FALSE] ELSE subs[i]]
    /\ stored' = Append(stored, [app |-> revoking.app, scope |-> revoking.scope, at |-> revoking.at])
    /\ revoking' = NoRevoking
    /\ UNCHANGED <<plan, now, origin, secretVars, controlVars, req, netVars, sendVars>>

-----------------------------------------------------------------------------
(* A request.  Each call ends in Over.                                     *)
Goes(r, pc) == req' = [req EXCEPT ![r].pc = pc]
Over(r) == req' = [req EXCEPT ![r] = Waiting(Tail(@.left))]

\* mutated: disabling is held to the subscribe grant too
AlwaysGrant(op) == IF op = "rotate" THEN "rotate" ELSE "grant"
AfterGuard(op) == CASE op \in {"create", "enable"} -> "grant" [] op = "disable" -> "toggle" [] OTHER -> "rotate"

Start(r) ==
    /\ req[r].pc = "idle" /\ req[r].left # <<>>
    /\ LET call == Head(req[r].left) IN
       \/ /\ call.op = "control"
          /\ req' = [req EXCEPT ![r].pc = "look", ![r].fresh = call.key \notin answered]
       \/ /\ call.op # "control" /\ call.by \in App
          /\ \E at \in tokens[call.by] : req' = [req EXCEPT ![r].pc = "guard", ![r].issued = at]
       \/ /\ call.op # "control" /\ call.by \notin App
          /\ req' = [req EXCEPT ![r].pc = CASE call.op = "create" -> "twin" [] call.op = "rotate" -> "rotate"
                                             [] OTHER -> "toggle",
                                ![r].issued = now]
    /\ UNCHANGED <<plan, now, rowVars, revokeVars, controlVars, netVars, sendVars>>

(* A token's iat is in whole seconds.                                      *)
Revoked(issued, at) == at # NoTime /\ (issued \div Second) * Second <= at

(* appOrService, and subscribeRevoked for a call that creates or enables.  *)
Checked(r, pc, scope, next) ==
    /\ req[r].pc = pc
    /\ IF Revoked(req[r].issued, revoked[<<By(r), scope>>]) THEN Over(r)
       ELSE req' = [req EXCEPT ![r].pc = next, ![r].seen[scope] = Len(stored)]
    /\ UNCHANGED <<plan, now, rowVars, revokeVars, controlVars, netVars, sendVars>>

Guard(r) == Checked(r, "guard", "app", AfterGuard(Op(r)))
Grant(r) == Checked(r, "grant", "subscribe", IF Op(r) = "create" THEN "twin" ELSE "toggle")

(* create: the duplicate, the two counts and the row, each a statement.    *)
Of(c) == {i \in DOMAIN subs : subs[i].consumer = c}
OfProject(env) == {i \in DOMAIN subs : subs[i].consumer \in App \union Person /\ subs[i].env = env}

\* mutated: a subscription that is off is no duplicate
TwinsOn(c, t) == {i \in Of(c) : subs[i].topic = t /\ subs[i].enabled}
Twins(c, t) == {i \in Of(c) : subs[i].topic = t}

\* mutated: only the subscriptions that are on count
RoomBesideOff(set, max) == Cardinality({i \in set : subs[i].enabled}) < max
Room(set, max) == Cardinality(set) < max

Statement(r, pc, passes, next) ==
    /\ req[r].pc = pc
    /\ IF passes THEN Goes(r, next) ELSE Over(r)
    /\ UNCHANGED <<plan, now, rowVars, revokeVars, controlVars, netVars, sendVars>>

FindTwin(r) ==
    /\ req[r].pc = "twin"
    /\ IF Twins(By(r), Head(req[r].left).topic) = {}
       THEN req' = [req EXCEPT ![r].pc = "count", ![r].after = Len(subs)]
       ELSE Over(r)
    /\ UNCHANGED <<plan, now, rowVars, revokeVars, controlVars, netVars, sendVars>>

CountOwn(r) == Statement(r, "count", Room(Of(By(r)), MaxPerConsumer), IF By(r) \in App THEN "quota" ELSE "insert")
CountProject(r) == Statement(r, "quota", Room(OfProject(Head(req[r].left).env), MaxPerProject), "insert")

NewSecret == Max({0} \union {subs[i].secret : i \in DOMAIN subs}) + 1

Origin(r) == [issued |-> req[r].issued, seen |-> req[r].seen, after |-> req[r].after,
              wrote |-> Len(stored) + (IF revoking = NoRevoking THEN 0 ELSE 1),
              during |-> operator.phase # "off"]

(* An app gets a new secret; a service, whose subscriptions share one      *)
(* variable of its env file, gives that one.                               *)
Insert(r) ==
    /\ req[r].pc = "insert"
    /\ LET call == Head(req[r].left)
           secret == IF call.by \in App THEN NewSecret ELSE file[call.by]
       IN  /\ subs' = Append(subs, [consumer |-> call.by, env |-> call.env, topic |-> call.topic, enabled |-> TRUE,
                                    secret |-> secret, previous |-> NoSecret, until |-> NoTime])
           /\ held' = Append(held, secret) /\ told' = Append(told, secret)
    /\ origin' = Append(origin, Origin(r))
    /\ promised' = Append(promised, {}) /\ dropped' = Append(dropped, {})
    /\ Over(r)
    /\ UNCHANGED <<plan, now, revokeVars, controlVars, netVars, sendVars>>

(* own: a row of the caller, for an app of its token's environment too.    *)
(* What it reads of a row never changes, so it is one step with the write, *)
(* which waits for a revocation that has the row locked.                   *)
Own(r) == {i \in Of(By(r)) : By(r) \in App => subs[i].env = Head(req[r].left).env}
Unlocked == DOMAIN subs \ revoking.rows

NotFound(r) ==
    /\ req[r].pc \in {"toggle", "rotate"} /\ Own(r) = {}
    /\ Over(r)
    /\ UNCHANGED <<plan, now, rowVars, revokeVars, controlVars, netVars, sendVars>>

Toggle(r) ==
    /\ req[r].pc = "toggle"
    /\ \E i \in Own(r) \intersect Unlocked :
          /\ subs' = [subs EXCEPT ![i].enabled = (Op(r) = "enable")]
          /\ origin' = [origin EXCEPT ![i] = [Origin(r) EXCEPT !.after = origin[i].after, !.during = origin[i].during]]
    /\ Over(r)
    /\ UNCHANGED <<plan, now, secretVars, revokeVars, controlVars, netVars, sendVars>>

-----------------------------------------------------------------------------
(* Secrets.  The old one of each row signs on until the overlap ends; one  *)
(* that an earlier rotation kept is dropped.                               *)
Rotated(rows, secret, overlap) ==
    /\ subs' = [i \in DOMAIN subs |-> IF i \in rows
                   THEN [subs[i] EXCEPT !.previous = subs[i].secret, !.until = now + overlap, !.secret = secret]
                   ELSE subs[i]]
    /\ promised' = [i \in DOMAIN subs |-> IF i \in rows
                       THEN promised[i] \union {[secret |-> subs[i].secret, until |-> now + overlap]} ELSE promised[i]]
    /\ dropped' = [i \in DOMAIN subs |-> IF i \in rows /\ subs[i].until > now THEN dropped[i] \union {subs[i].previous}
                                         ELSE dropped[i]]

(* The answer has the new secret, and may be lost.                         *)
Rotate(r) ==
    /\ req[r].pc = "rotate"
    /\ \E i \in Own(r) \intersect Unlocked :
          /\ Rotated({i}, NewSecret, Head(req[r].left).overlap)
          /\ told' \in {told, [told EXCEPT ![i] = NewSecret]}
    /\ Over(r)
    /\ UNCHANGED <<plan, now, origin, held, revokeVars, controlVars, netVars, sendVars>>

Adopt(i) ==
    /\ held[i] # told[i]
    /\ held' = [held EXCEPT ![i] = told[i]]
    /\ UNCHANGED <<plan, now, subs, origin, told, promised, dropped, revokeVars, controlVars, req, netVars, sendVars>>

(* rotate-subscription-secret.js: it lists a service's rows, rotates them  *)
(* in one transaction and then writes the env file; it may stop anywhere.  *)
ScriptLists(c) ==
    /\ operator.phase = "off" /\ operator.runs < plan.scripts
    /\ Of(c) # {}
    /\ operator' = [phase |-> "listed", rows |-> Of(c), secret |-> NoSecret, runs |-> operator.runs + 1]
    /\ UNCHANGED <<plan, now, rowVars, revokeVars, controlVars, req, netVars, file, send>>

ScriptRotates ==
    /\ operator.phase = "listed"
    /\ Rotated(operator.rows, NewSecret, OperatorOverlap)
    /\ operator' = [operator EXCEPT !.phase = "rotated", !.secret = NewSecret]
    /\ UNCHANGED <<plan, now, origin, held, told, revokeVars, controlVars, req, netVars, file, send>>

ScriptWrites(c) ==
    /\ operator.phase = "rotated" /\ operator.rows \subseteq Of(c)
    /\ file' = [file EXCEPT ![c] = operator.secret]
    /\ operator' = [NoScript EXCEPT !.runs = operator.runs]
    /\ UNCHANGED <<plan, now, rowVars, revokeVars, controlVars, req, netVars, send>>

ScriptDies ==
    /\ operator.phase # "off"
    /\ operator' = [NoScript EXCEPT !.runs = operator.runs]
    /\ UNCHANGED <<plan, now, rowVars, revokeVars, controlVars, req, netVars, file, send>>

Restart(c) ==
    /\ held' = [i \in DOMAIN subs |-> IF i \in Of(c) THEN file[c] ELSE held[i]]
    /\ held' # held
    /\ UNCHANGED <<plan, now, subs, origin, told, promised, dropped, revokeVars, controlVars, req, netVars, sendVars>>

(* The worker: send reads the row, then the event, then signs and posts.   *)
ReadRow(i) ==
    /\ plan.sends /\ send = NoSend
    /\ send' = [row |-> i, secret |-> subs[i].secret, previous |-> subs[i].previous, until |-> subs[i].until]
    /\ UNCHANGED <<plan, now, rowVars, revokeVars, controlVars, req, netVars, operator, file>>

Post ==
    /\ send # NoSend
    /\ send' = NoSend
    /\ UNCHANGED <<plan, now, rowVars, revokeVars, controlVars, req, netVars, operator, file>>

\* mutated: the previous secret no longer signs
SignedWithNewest == {send.secret}
SignedWith == {send.secret} \union (IF send.until > now THEN {send.previous} ELSE {})

(* verifyDeliveryV2 of the consumer: one of the signatures is its own.     *)
Verifies(secret) == secret \in SignedWith

-----------------------------------------------------------------------------
(* POST /resources/control: the key is looked up, the answer decided, the  *)
(* subscription changed, the answer kept unless one is there, and given.   *)
Entry(call) == [kept |-> TRUE, enable |-> call.enable, dry |-> call.dry]

Look(r) ==
    /\ req[r].pc = "look"
    /\ LET call == Head(req[r].left) IN
       IF log[call.key].kept
       THEN /\ answered' = IF log[call.key] = Entry(call) THEN answered \union {call.key} ELSE answered
            /\ Over(r)
       ELSE Goes(r, "decide") /\ UNCHANGED answered
    /\ UNCHANGED <<plan, now, rowVars, revokeVars, log, netVars, sendVars>>

Decide(r) ==
    /\ req[r].pc = "decide"
    /\ LET call == Head(req[r].left)
           row == subs[call.row]
       IN  Goes(r, IF row.consumer \in Person /\ row.enabled # call.enable /\ ~call.dry THEN "apply" ELSE "keep")
    /\ UNCHANGED <<plan, now, rowVars, revokeVars, controlVars, netVars, sendVars>>

Apply(r) ==
    /\ req[r].pc = "apply"
    /\ LET call == Head(req[r].left) IN subs' = [subs EXCEPT ![call.row].enabled = call.enable]
    /\ Goes(r, "keep")
    /\ UNCHANGED <<plan, now, origin, secretVars, revokeVars, controlVars, netVars, sendVars>>

\* mutated: an answer that found nothing to change is not kept
KeptIfApplied(was, call) == IF was.kept \/ subs[call.row].enabled = call.enable THEN was ELSE Entry(call)
Kept(was, call) == IF was.kept THEN was ELSE Entry(call)

Keep(r) ==
    /\ req[r].pc = "keep"
    /\ LET call == Head(req[r].left) IN log' = [log EXCEPT ![call.key] = Kept(@, call)]
    /\ Goes(r, "answer")
    /\ UNCHANGED <<plan, now, rowVars, revokeVars, answered, netVars, sendVars>>

Answer(r) ==
    /\ req[r].pc = "answer"
    /\ answered' = answered \union {Head(req[r].left).key}
    /\ Over(r)
    /\ UNCHANGED <<plan, now, rowVars, revokeVars, log, netVars, sendVars>>

(* A request ends where it is, with its process or its connection.         *)
Abandon(r) ==
    /\ req[r].pc # "idle"
    /\ Over(r)
    /\ UNCHANGED <<plan, now, rowVars, revokeVars, controlVars, netVars, sendVars>>

-----------------------------------------------------------------------------
Network == \E a \in App : Regrant(a) \/ \E scope \in Scope : Withdraw(a, scope)
Revocation == RevokeCommits \/ \E v \in news : Revoke(v)
Creates(r) == Guard(r) \/ Grant(r) \/ FindTwin(r) \/ CountOwn(r) \/ CountProject(r) \/ Insert(r)
Changes(r) == NotFound(r) \/ Toggle(r) \/ Rotate(r)
Controls(r) == Look(r) \/ Decide(r) \/ Apply(r) \/ Keep(r) \/ Answer(r)
Script == ScriptRotates \/ ScriptDies \/ \E c \in Service : ScriptLists(c) \/ ScriptWrites(c)
Delivery == Post \/ \E i \in DOMAIN subs : ReadRow(i)
Switch == (\E i \in DOMAIN subs : Adopt(i)) \/ \E c \in Service : Restart(c)

Next ==
    \/ Tick \/ Network \/ Revocation
    \/ \E r \in Request : Start(r) \/ Creates(r) \/ Changes(r) \/ Controls(r) \/ Abandon(r)
    \/ Script \/ Delivery \/ Switch

Spec == Init /\ [][Next]_vars

-----------------------------------------------------------------------------
(* Once a revocation of an app is stored, a subscription of the app is on  *)
(* only by a token issued after the revocation, or by a request that had   *)
(* passed its check before the revocation committed and wrote while or     *)
(* after it ran: revocationHook, appOrService, subscribeRevoked.           *)
RevokedStaysOff ==
    \A i \in DOMAIN subs, n \in DOMAIN stored :
       subs[i].enabled /\ subs[i].consumer = stored[n].app =>
          \/ origin[i].issued > stored[n].at
          \/ origin[i].seen[stored[n].scope] \in 0..(n - 1) /\ origin[i].wrote >= n

(* However many requests create at once, a consumer and a project exceed   *)
(* their limits by no more than the other requests in flight.              *)
LimitOvershoot ==
    /\ \A c \in Consumer : Cardinality(Of(c)) <= MaxPerConsumer + Cardinality(Request) - 1
    /\ \A env \in Env : Cardinality(OfProject(env)) <= MaxPerProject + Cardinality(Request) - 1

(* Two subscriptions of a consumer to one topic and endpoint exist only    *)
(* when the second looked for the first before it was inserted.            *)
TwinsOverlapped ==
    \A i, j \in DOMAIN subs :
       i < j /\ subs[i].consumer = subs[j].consumer /\ subs[i].topic = subs[j].topic => origin[j].after < i

(* What creates that overlap can do to the table, and no more.             *)
CreatesBounded == TypeOK /\ LimitOvershoot /\ TwinsOverlapped

(* A consumer can verify what it is sent, with the secret it has and       *)
(* across rotations, unless the row was rotated after the worker read it,  *)
(* the consumer stayed on the old secret past the overlap, a second        *)
(* rotation dropped that secret, or the row was inserted while the script  *)
(* ran: signatureV2, verifyDeliveryV2, rotateSubscriptionSecret.           *)
VerifiesUnlessRaced ==
    send # NoSend =>
       LET i == send.row
           had == held[i]
       IN  \/ Verifies(had)
           \/ subs[i].secret # send.secret
           \/ had \in dropped[i]
           \/ \E old \in promised[i] : old.secret = had /\ old.until <= now
           \/ origin[i].during

(* A control request whose key was answered before it was sent never       *)
(* changes the subscription, whatever was changed in between.              *)
RepeatChangesNothing == [][\A r \in Request : Apply(r) => req[r].fresh]_vars
=============================================================================
