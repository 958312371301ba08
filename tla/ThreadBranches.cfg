SPECIFICATION Spec
CONSTANTS
    Requests = {q1, q2}
    MaxRuns = 3
    MaxCheckpoints = 5
    HistoryLimit = 5
SYMMETRY Symmetry
INVARIANTS TypeOK AnswersStayReachable EditKeepsInputs TurnsAttributed
PROPERTIES EditRestartsTurn
CHECK_DEADLOCK FALSE
