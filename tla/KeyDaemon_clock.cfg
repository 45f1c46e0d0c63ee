SPECIFICATION FairSpec
CONSTANTS
    Usage = {a}
    UdpUsage = {a}
    SnapUsage = {a}
    NoModifier = NoModifier
    Modifier = {NoModifier}
    Stamp = {0}
    Udp = udp
    Watchdog = watchdog
    SnapWorker = {snap}
    EdgeWorker = {}
    NoJob = NoJob
    WatchdogMs = 1
    DeadlineMs = 1
    StuckMs = 1
    Slots = 1
    Wrap = 16
    WatchdogLag = 1
    LastInput = 2
    MaxClock = 5
INVARIANTS MetaAgrees NoSilentChange ForceReleaseBound
PROPERTIES MarkerClearedOnRelease SilenceReleases
