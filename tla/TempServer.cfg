CONSTANTS
    c1 = c1
    c2 = c2
    c3 = c3
    Conns = {c1, c2}
    MaxFd = 2
SPECIFICATION FairSpec
CHECK_DEADLOCK FALSE
INVARIANT StoredOnce
INVARIANT OwnConnection
INVARIANT NeverBusy
INVARIANT NothingLeaks
PROPERTY ReadingKept
PROPERTY AcceptsAgain
