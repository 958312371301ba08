SPECIFICATION Spec
CONSTANTS
    Requests = {q1, q2}
    Tasks = {t1, t2}
    NoTask = NoTask
    MaxRuns = 2
    PageSize = 2
SYMMETRY Symmetry
INVARIANTS TypeOK CancelReachesTurn DeletionReachesKnown WaitingIsShown
CHECK_DEADLOCK FALSE
