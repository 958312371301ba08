SPECIFICATION Spec
CONSTANTS
    Threads = {1, 2}
    Slots = {1, 2}
    Loads = {l1, l2}
    MaxRuns = 2
    MaxRequests = 2
    MaxChecks = 1
    MaxPosts = 1
SYMMETRY Symmetry
INVARIANTS TypeOK OneStream ViewIsOfSelected Followed
CHECK_DEADLOCK FALSE
