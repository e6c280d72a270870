SPECIFICATION MCSpec
CONSTANTS
    Cap = 2
    StreamLen = 3
    StaleRewind = FALSE
    Delim = {1}
    Cr = {0}
    Prior <- MCPrior
    Reserve = 2
    Probe = 1
    Width = 2
    WCap = 2
    FileMax = 3
    Byte = {0, 1}
    SeekBuffered = FALSE
    WWidth = 3
    Given <- MCGiven
    Slot = {s1, s2}
    Type = {A}
    Addr = {4, 1028, 2052}
    INVALID_UTF8 = 8
    INVALID_CSTR = 12
    WordSize = 67108864
    Codes = {4, 999}
    MaxPayload = 2
    KindedIo = FALSE
    Half = 4
    FarSkip = FALSE
    MsPerSec = 10
    NsPerMs = 10
    Thread = {a, b}
    Boot = a
    Record <- MCRecord
    TargetCap = 3
    HeadLen = 1
    OutCap = 3
    MaxLogs = 2
    Reclen = {1, 2}
    BlockSize = {0, 3, 9}
    MinSize = 2
    MaxSize = 4
    MaxEntries = 4
INVARIANTS
    ReadExact
    WriteExact
    HeapExact
    Transparent
    NumbersExact
    LinesWhole
    EntriesExact
PROPERTIES
    ReaderStream
    WriterFile
CHECK_DEADLOCK FALSE
