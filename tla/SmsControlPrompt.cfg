CONSTANTS
    r1 = r1
    r2 = r2
    Readers = {r1, r2}
    MaxInbox = 1
    PromptCancel = TRUE
SPECIFICATION FairSpec
CHECK_DEADLOCK FALSE
INVARIANT SlotOwned
PROPERTY OneJobAtATime
PROPERTY SendReachesClient
PROPERTY StopHonoured
