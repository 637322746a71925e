CONSTANTS
    c1 = c1
    c2 = c2
    Clients = {c1, c2}
    Accounts = {a1, a2}
    Temps = {t1}
    None = None
    MaxPhoneUses = 1
    MaxCalls <- MCMaxCalls
SPECIFICATION Spec
SYMMETRY MCSymmetry
INVARIANTS SessionIsSound AccountsAreKept PhoneUseIsBounded
PROPERTIES OnlyMovedAccountsAreDeactivated
