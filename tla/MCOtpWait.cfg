CONSTANTS
    Users = {u1}
    MaxAttempts = 2
    MaxRounds = 2
    MaxSubmits = 1
    MaxTime = 2
SPECIFICATION FairSpec
INVARIANTS CodesAreSound FoundIsFresh
PROPERTIES WaitEnds
CHECK_DEADLOCK FALSE
