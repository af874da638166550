SPECIFICATION FairSpec
CONSTANTS
    v1 = v1  v2 = v2  g1 = g1  g2 = g2  s1 = s1  s2 = s2
    alice = alice  bob = bob  None = None
    Watcher = {"viz", "gram"}
    Event = {v1, v2, g1}
    Home <- MCHome  Amount <- MCAmount  Usable <- MCUsable  Sender <- MCSender
    PerTx = 3
    Cap = 3
    ReviewAbove = 2
    RateMax = 1
    BlocksPerScan = 1
    ScanLimit = 1
    EmptyWallet = FALSE
    MaxFaults = 1
    MaxExpiries = 1
INVARIANTS TypeOK NothingSkipped
PROPERTIES OneLimiter Handled
