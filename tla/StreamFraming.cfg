SPECIFICATION FairSpec
CONSTANTS
    Stream = {s, t}
    Record = {down, up}
    Garbled = Garbled
    RecordSize = 3
    MaxWrites = 2
INVARIANTS TypeOK NothingHeldBack
PROPERTIES ImplementsChannel OrderlyCloseDelivers EverythingDelivered
CHECK_DEADLOCK FALSE
