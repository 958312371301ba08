SPECIFICATION DeletionSpec
CONSTANTS
    Hosts = {h1, h2}
    Sandboxes = {s1, s2}
    NoSandbox = NoSandbox
    Requests = {d1, d2}
    UniqueNames = FALSE
    LostReplies = FALSE
SYMMETRY Symmetry
INVARIANTS DeletionTypeOK FinishesOnlyWithoutItsSandbox OneWorkspaceUntilDeleted
PROPERTY NoRecoveryWhileDeleting
CHECK_DEADLOCK FALSE
