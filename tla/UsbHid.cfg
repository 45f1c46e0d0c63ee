SPECIFICATION FairDeviceSpec
CONSTANTS
    NoKeys <- Nothing
    Report <- Reports
    Garbled = Garbled
    ReportSize = 2
    BufSize = 4
    IdleSetting = {TRUE, FALSE}
    MaxConns = 2
    MaxWrites = 2
    MaxQueue = 1
    Option <- Options
INVARIANTS DeviceTypeOK NeverRefused GuestDecodes DetachedWhenGone SuspendedCanWake CutStaysGarbled
PROPERTIES ImplementsChannel EverythingApplied IdleRateDelivers
CHECK_DEADLOCK FALSE
