CONSTANTS
    Crc <- CrcItu
    Streams <- StaleStreams
    BufSize = 64
SPECIFICATION Spec
INVARIANT RightData
CHECK_DEADLOCK FALSE
