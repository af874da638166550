SPECIFICATION FairSpec
CONSTANTS
    s1 = s1  s2 = s2  s3 = s3
    d1 = d1
    None = None
    Signer = {s1, s2, s3}
    Threshold = 2
    Client = {d1}
    Body = {1, 2, 3}
    MaxBody = 3
    MaxFaults = 2
    TimelyRounds = TRUE
    LastBodyLasts = TRUE
    SignerLookupMayFail = FALSE
PROPERTIES EventuallyConfirmed
CHECK_DEADLOCK FALSE
