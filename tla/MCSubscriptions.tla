--------------------------- MODULE MCSubscriptions ---------------------------
(* Calls for one app with a disabled and an enabled subscription, a service *)
(* with two and a person with one, a few at a time.                         *)
EXTENDS Subscriptions

CONSTANTS app, svc, person, t1, t2, t3, r1, r2, k1, k2

MCRequest == {r1, r2}
MCInitial == <<[consumer |-> app, env |-> "production", topic |-> t1, enabled |-> FALSE],
               [consumer |-> svc, env |-> "production", topic |-> t1, enabled |-> TRUE],
               [consumer |-> person, env |-> "production", topic |-> t1, enabled |-> TRUE]>>

Create(c, env, t) == [op |-> "create", by |-> c, env |-> env, topic |-> t]
Do(op, c) == [op |-> op, by |-> c, env |-> "production"]
Rot(c, o) == [op |-> "rotate", by |-> c, env |-> "production", overlap |-> o]
Control(k, on, dry) == [op |-> "control", key |-> k, row |-> 3, enable |-> on, dry |-> dry]
Mix(a, b, ticks, withdrawals, scripts, sends) ==
    [calls |-> [r \in MCRequest |-> IF r = r1 THEN a ELSE b],
     ticks |-> ticks, withdrawals |-> withdrawals, scripts |-> scripts, sends |-> sends]
Off == Control(k1, FALSE, FALSE)
On == Control(k2, TRUE, FALSE)

MCPlans == {
    Mix(<<Do("enable", app)>>, <<Create(app, "production", t2)>>, 1, 1, 0, FALSE),
    Mix(<<Create(app, "production", t2)>>, <<>>, 2, 2, 0, FALSE),
    Mix(<<Do("disable", app), Do("enable", app)>>, <<[Do("enable", app) EXCEPT !.env = "sandbox"]>>, 2, 1, 0, FALSE),
    Mix(<<Create(app, "production", t2), Create(app, "production", t3)>>,
        <<Create(app, "production", t2), Create(app, "sandbox", t1)>>, 0, 0, 0, FALSE),
    Mix(<<Rot(app, 1), Rot(app, 2)>>, <<Do("enable", app)>>, 3, 0, 0, TRUE),
    Mix(<<Create(svc, "production", t2), Do("disable", svc)>>, <<Rot(svc, 1)>>, 2, 0, 1, TRUE),
    Mix(<<Off, Off>>, <<On, Off, On>>, 0, 0, 0, FALSE),
    Mix(<<Control(k1, FALSE, TRUE), Off>>, <<Control(k2, FALSE, FALSE), Control(k2, TRUE, TRUE)>>, 0, 0, 0, FALSE)}
=============================================================================
