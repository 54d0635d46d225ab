CONSTANTS
    r1 = r1
    r2 = r2
    Readers = {r1, r2}
    MaxInbox = 2
    PromptCancel = TRUE
SPECIFICATION FairSpec
CHECK_DEADLOCK FALSE
PROPERTY PreemptionServed
