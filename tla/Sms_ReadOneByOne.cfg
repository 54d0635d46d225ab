CONSTANTS
    Commands <- ModemCommands
    Kinds <- AllKinds
    Args = {0, 1, 2, 3, 20, 99}
    Answers <- ModemAnswers
    Notices <- ModemNotices
    Nobody = Nobody
    Indices = {1, 2}
    MaxEvents = 3
    Statuses = {1, 2}
    Strengths = {20, 99}
    MaxTimes = 4
    MaxTries = 3
    MaxLists = 2
    MaxAsked = 3
    Room = 3
SPECIFICATION Spec
CHECK_DEADLOCK FALSE
INVARIANT ReadOneByOne
