CONSTANTS
    Emails = {m1, m2}
    Jobs = {j1, j2, j3}
    NoEmail = NoEmail
    MaxRestarts = 1
SPECIFICATION FairSpec
INVARIANTS RunsAreExclusive FoundAreKept PendingHasNoToken
PROPERTIES JobsEnd
CHECK_DEADLOCK FALSE
