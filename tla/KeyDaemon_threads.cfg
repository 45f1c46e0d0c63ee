SPECIFICATION Spec
CONSTANTS
    Usage = {a, b}
    UdpUsage = {a}
    SnapUsage = {a}
    NoModifier = NoModifier
    Modifier = {NoModifier}
    Stamp = {0, 1, 3}
    Udp = udp
    Watchdog = watchdog
    SnapWorker = {snap}
    EdgeWorker = {edge}
    NoJob = NoJob
    WatchdogMs = 1
    DeadlineMs = 1
    StuckMs = 0
    Slots = 1
    Wrap = 16
    WatchdogLag = 3
    LastInput = 1
    MaxClock = 1
INVARIANTS TypeOK MetaAgrees NoSilentChange
PROPERTIES MarkerClearedOnRelease
