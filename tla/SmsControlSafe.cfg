CONSTANTS
    r1 = r1
    r2 = r2
    Readers = {r1, r2}
    MaxInbox = 1
    PromptCancel = FALSE
SYMMETRY Sym
SPECIFICATION Spec
CHECK_DEADLOCK FALSE
INVARIANT CriticalSections
INVARIANT SrcfdBeforeWork
PROPERTY PriorityNeverDemoted
