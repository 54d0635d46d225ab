CONSTANTS
    Crc <- CrcItu
    Streams <- AllStreams
    BufSize = 16
SPECIFICATION FairSpec
CHECK_DEADLOCK FALSE
INVARIANT TableDivides
INVARIANT RoomToRead
INVARIANT AcceptedInOrder
INVARIANT NoTwoSkipped
PROPERTY UnpackReturns
