SPECIFICATION Spec
CONSTANTS
    Hosts = {h1, h2}
    Sandboxes = {s1, s2, s3, s4}
    NoSandbox = NoSandbox
    UniqueNames = FALSE
    LostReplies = TRUE
SYMMETRY Symmetry
INVARIANTS TypeOK CacheFollowsBinding OneWorkspace
PROPERTY ImplementsWorkspace
CHECK_DEADLOCK FALSE
