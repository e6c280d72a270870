SPECIFICATION WriterSpec
CONSTANTS
    WCap = 2
    FileMax = 3
    Byte = {0, 1}
    SeekBuffered = TRUE
PROPERTIES
    SeekKeepsBytes
CHECK_DEADLOCK FALSE
