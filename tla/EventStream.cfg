SPECIFICATION FairSpec
CONSTANTS
    start = start
    check = check
    again = again
    Calls = {start, check, again}
    Starts = {start}
    Checks = {check, again}
    TaskOf <- ChecksOfStart
    MaxParts = 3
    MaxLoads = 2
INVARIANTS TypeOK MessagesInOrderOnce CursorCoversMessages ResultsSettleCalls
PROPERTY EndIsShown
CHECK_DEADLOCK FALSE
