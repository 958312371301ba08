SPECIFICATION Spec
CONSTANTS
    Contents = {c1, c2}
    NoContent = NoContent
    Publishers = {p1, p2}
    Persistent = {p1}
    Completers = {}
    Deleters = {}
INVARIANT ReadyCanBeRestored
CHECK_DEADLOCK FALSE
