SPECIFICATION Spec
CONSTANTS
    p1 = p1  q1 = q1
    d1 = d1  d2 = d2
    None = None
    PegIn = {p1}
    PegOut = {q1}
    Drive = {d1, d2}
    Redirects = {p1}
    MaxFaults = 3
    TimelyDrives = FALSE
    LateMints = TRUE
    FlipCrashes = TRUE
    QuietRedirect = FALSE
    SeenCrashes = TRUE
SYMMETRY Interchangeable
INVARIANTS  RefundedIsRepaid  ReleaseXorReturn
CHECK_DEADLOCK FALSE
