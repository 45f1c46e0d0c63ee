SPECIFICATION FairSpec
CONSTANTS
    a = a
    Box = {"udp", "quic"}
    Lossy = {"udp", "quic"}
    Base = 1
    Jitter = 1
    NoItem = NoItem
    Key = {a}
    Text <- OneKey
    KeyDelay = 1
    DropKeyup = {a}
    Interval = 1
    Seconds = {1, 8}
    FlushSeconds = 3
    ConnectTime = {0, 1}
    MaxGap = 2
    NoJob = NoJob
    DeadlineMs = 1
    MaxTime = 22
INVARIANTS TypeOK OnTime HealingBound FlushEmpties
PROPERTIES RunEnds
CHECK_DEADLOCK FALSE
