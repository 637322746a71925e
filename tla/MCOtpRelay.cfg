CONSTANTS
    w1 = w1
    w2 = w2
    gopay = gopay
    any = any
    Waiters <- MCWaiters
    Purposes <- MCPurposes
    AnyPurpose = any
    MaxItems = 1
    Ttl = 0
    MaxSubmits = 2
    MaxTime = 1
SPECIFICATION FairSpec
INVARIANTS StoreIsSound NoLostWakeup
PROPERTIES BoxSpec WaitReturns
