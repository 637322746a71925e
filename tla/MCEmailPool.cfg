CONSTANTS
    p = p
    px = px
    None = None
    Emails <- MCEmails
    Canonical <- MCCanonical
    UpsertStatus <- MCUpsertStatus
    UpdateStatus <- MCUpdateStatus
    Accounts = {a1, a2}
    Mailboxes <- MCMailboxes
    Outcomes <- MCOutcomes
    MaxAttempts = 2
    MaxJobs = 1
SYMMETRY MCSymmetry
SPECIFICATION PoolSpec
INVARIANTS GrantsAreSound LeakIsBounded
PROPERTIES ImplementsAccountDb
