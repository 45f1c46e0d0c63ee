SPECIFICATION FairSpec
CONSTANTS
    Udp = udp
    Thread = {udp, snap}
    Report = {press, release}
    NoReport = NoReport
    Fd = {3, 4}
    MaxOutages = 2
INVARIANTS TypeOK FedUnlessRaced
PROPERTIES LossNeedsOutage StandsUntilOutage ConnectionServed
