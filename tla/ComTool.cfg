CONSTANTS
    ARRMAX = 3
    NL = "nl"
    Lines <- SomeLines
    Pieces <- HalfALine
    Options <- EvenParity
    Terms <- TwoTerms
    MaxTyped = 4
SPECIFICATION FairSpec
CHECK_DEADLOCK FALSE
INVARIANT NothingLost
INVARIANT NothingHidden
INVARIANT PortSettings
PROPERTY StopHonoured
PROPERTY LinesTaken
