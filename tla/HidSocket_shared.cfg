SPECIFICATION Spec
CONSTANTS
    Udp = udp
    Thread = {udp, snap}
    Report = {press, release}
    NoReport = NoReport
    Fd = {3, 4}
    MaxOutages = 0
INVARIANTS FeedsQemu
