CONSTANTS
    c1 = c1
    c2 = c2
    c3 = c3
    Conns = {c1, c2, c3}
    MaxFd = 2
SPECIFICATION FairSpec
CHECK_DEADLOCK FALSE
INVARIANT EventsCurrent
INVARIANT OneDescriptor
PROPERTY ReadingKept
PROPERTY PendingAccepted
PROPERTY ReadingTaken
PROPERTY StopHonoured
