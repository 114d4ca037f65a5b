SPECIFICATION Spec
CONSTANTS
    app = app svc = svc person = person t1 = t1 t2 = t2 t3 = t3 r1 = r1 r2 = r2 k1 = k1 k2 = k2
    App = {app}
    Service = {svc}
    Person = {person}
    Topic = {t1, t2, t3}
    Key = {k1, k2}
    Request <- MCRequest
    Plans <- MCPlans
    Initial <- MCInitial
    MaxPerConsumer = 2
    MaxPerProject = 3
    Second = 2
    OperatorOverlap = 1
CHECK_DEADLOCK FALSE
INVARIANTS RevokedStaysOff CreatesBounded VerifiesUnlessRaced
PROPERTIES RepeatChangesNothing
