------------------------------ MODULE MCFabric ------------------------------
(* One process and its connection; or two that are connected, one or two   *)
(* patterns, and a few writes, publishes and replays.                      *)
EXTENDS Placement

CONSTANTS p1, p2, k, k2, Nothing

MCValueAt == [subject |-> k, actor |-> k2, payload |-> Nothing]

By(path) == [Default EXCEPT !.ordering = path]
Loose == [By("subject") EXCEPT !.durable = FALSE]
Other == [Loose EXCEPT !.ordering = "actor", !.realtime = TRUE]
Empty == [i \in 1..Patterns |-> NoPolicy]
Only(policy) == [Empty EXCEPT ![1] = policy]

Nil == [link |-> FALSE, table |-> Empty, reads |-> <<>>, writes |-> <<>>, publish |-> <<>>, replay |-> <<>>,
        fails |-> 0, rollbacks |-> 0, evictions |-> 0, timers |-> 0, settles |-> 0, outcomes |-> 0, ticks |-> 0]

MCPlans == {
    [Nil EXCEPT !.link = TRUE],
    [Nil EXCEPT !.writes = <<<<p1, 1, Loose>>, <<p2, 1, NoPolicy>>>>, !.publish = <<p2, p2>>, !.ticks = 3, !.timers = 1],
    [Nil EXCEPT !.writes = <<<<p1, 1, Loose>>, <<p1, 2, Other>>>>, !.reads = <<p1>>, !.fails = 1, !.publish = <<p1>>],
    [Nil EXCEPT !.table = Only(By("subject")), !.writes = <<<<p2, 2, By("actor")>>>>,
                !.publish = <<p1, p2>>, !.replay = <<p2>>, !.settles = 1],
    [Nil EXCEPT !.table = Only(By("subject")), !.publish = <<p1, p2, p1>>, !.settles = 2, !.outcomes = 2, !.ticks = 2],
    [Nil EXCEPT !.table = Only(By("payload")), !.publish = <<p1, p1, p2>>, !.replay = <<p1>>, !.rollbacks = 1, !.evictions = 1]}
=============================================================================
