SPECIFICATION Spec
CONSTANTS
    Usage = {a}
    UdpUsage = {a}
    SnapUsage = {a}
    NoModifier = NoModifier
    Modifier = {NoModifier}
    Stamp = {0}
    Udp = udp
    Watchdog = watchdog
    SnapWorker = {snap}
    EdgeWorker = {}
    NoJob = NoJob
    WatchdogMs = 1
    DeadlineMs = 1
    StuckMs = 0
    Slots = 1
    Wrap = 16
    WatchdogLag = 2
    LastInput = 5
    MaxClock = 5
PROPERTIES WatchdogSparesNewPress
