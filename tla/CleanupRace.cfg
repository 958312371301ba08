SPECIFICATION Spec
CONSTANTS
    Hosts = {h1, h2}
    Sandboxes = {s1, s2, s3}
    NoSandbox = NoSandbox
    UniqueNames = FALSE
    LostReplies = FALSE
SYMMETRY Symmetry
INVARIANT CleanupSparesBinding
CHECK_DEADLOCK FALSE
