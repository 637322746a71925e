CONSTANTS
    Users = {u1}
    Dialogues = {"signup"}
    MaxUpdates = 4
    MaxRestarts = 1
SPECIFICATION BotSpec
INVARIANTS UpdatesAreSound
PROPERTIES UpdateIsTried
CHECK_DEADLOCK FALSE
