SPECIFICATION DeletionSpec
CONSTANTS
    Hosts = {h1}
    Sandboxes = {s1, s2}
    NoSandbox = NoSandbox
    Requests = {d1}
    UniqueNames = TRUE
    LostReplies = FALSE
PROPERTY SandboxDeletedWithProject
CHECK_DEADLOCK FALSE
