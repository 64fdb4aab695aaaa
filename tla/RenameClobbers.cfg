SPECIFICATION Spec
CONSTANTS
    Names = {1, 2, 3, 4}
    Limits = {0, 1, 2, 3}
    DefaultPage = 2
    MaxPage = 2
    MaxChanges = 2
INVARIANTS RenameKeepsDestination
CHECK_DEADLOCK FALSE
