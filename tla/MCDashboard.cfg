SPECIFICATION Spec
CONSTANTS
    Shown <- MCShown
    Loads = {l1}
    ChanCap = 1
    MaxHappenings = 3
INVARIANTS
    TypeOK
PROPERTIES
    ClearedForCause
    ViewConverges
    
    ActionsEnd
    
CHECK_DEADLOCK FALSE
