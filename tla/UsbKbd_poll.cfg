SPECIFICATION FairSpec
CONSTANTS
    NoKeys = NoKeys
    Report = {NoKeys, KeyA}
    Garbled = Garbled
    ReportSize = 3
    BufSize = 5
    IdleSetting = {FALSE}
    MaxConns = 1
    MaxWrites = 1
    MaxQueue = 0
PROPERTIES GuestSeesNewData
