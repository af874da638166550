SPECIFICATION FairSpec
CONSTANTS
    p1 = p1  q1 = q1
    d1 = d1
    None = None
    PegIn = {p1}
    PegOut = {q1}
    Drive = {d1}
    Redirects = {p1}
    MaxFaults = 3
    TimelyDrives = TRUE
    LateMints = FALSE
    FlipCrashes = FALSE
    QuietRedirect = TRUE
    SeenCrashes = FALSE
INVARIANTS NotStranded 
PROPERTY Settles
CHECK_DEADLOCK FALSE
