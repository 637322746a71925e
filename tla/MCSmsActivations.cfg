CONSTANTS
    MaxFailures = 2
    MaxRetries = 1
    EnvKey = TRUE
    MaxActivations = 3
    MaxDeaths = 1
SPECIFICATION SmsFairSpec
INVARIANTS ActivationsAreSound SpendIsBounded
PROPERTIES OperatorsRowStands RentalEnds
CHECK_DEADLOCK FALSE
