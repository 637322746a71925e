CONSTANTS
    Workflows = {w1}
    MaxRestarts = 2
SPECIFICATION Spec
INVARIANTS ChargersAreSound LeaksHaveACause ChargedOnce SuccessMeansPaid
CHECK_DEADLOCK FALSE
