SPECIFICATION FairDeletionSpec
CONSTANTS
    Hosts = {h1}
    Sandboxes = {s1, s2}
    NoSandbox = NoSandbox
    Requests = {d1}
    UniqueNames = TRUE
    LostReplies = TRUE
PROPERTY DeletionCompletesOrSandboxGone
CHECK_DEADLOCK FALSE
