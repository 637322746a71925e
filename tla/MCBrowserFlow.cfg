CONSTANTS
    Workflows = {w1, w2}
    Logins = {w2}
    MaxRestarts = 1
SPECIFICATION FairSpec
INVARIANTS FlowsAreExclusive LossesHaveACause CodeIsEnteredOnce
PROPERTIES WorkflowsEnd
CHECK_DEADLOCK FALSE
