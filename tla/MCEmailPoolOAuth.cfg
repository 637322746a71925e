CONSTANTS
    p = p
    px = px
    None = None
    Emails <- MCEmails
    Canonical <- MCCanonical
    UpsertStatus <- MCUpsertStatus
    UpdateStatus <- MCUpdateStatus
    Accounts = {a1}
    Mailboxes <- MCMailboxes
    Outcomes <- AuthStatus
    MaxAttempts = 2
    MaxJobs = 1
SPECIFICATION PoolSpec
PROPERTIES CompletedOAuthEntersPool
