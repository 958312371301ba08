SPECIFICATION FairSpec
CONSTANTS
    Contents = {c1, c2}
    NoContent = NoContent
    Publishers = {p1, p2}
    Persistent = {p1}
    Completers = {u1}
    Deleters = {d1}
INVARIANTS TypeOK ReadyMeansStored
PROPERTIES ReadyIsNotWithdrawn PublishingSucceeds
CHECK_DEADLOCK FALSE
