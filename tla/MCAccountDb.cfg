CONSTANTS
    p = p
    px = px
    py = py
    None = None
    Emails <- MCEmails
    Canonical <- MCCanonical
    UpsertStatus <- MCUpsertStatus
    UpdateStatus <- MCUpdateStatus
    Accounts = {a1, a2}
SYMMETRY MCSymmetry
SPECIFICATION Spec
INVARIANTS TablesAgree RestartRepairs
PROPERTIES NeverBackInPool OwnerIsStable
