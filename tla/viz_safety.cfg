SPECIFICATION Spec
CONSTANTS
    s1 = s1  s2 = s2  s3 = s3
    d1 = d1  d2 = d2
    None = None
    Signer = {s1, s2, s3}
    Threshold = 2
    Client = {d1, d2}
    Body = {1, 2}
    MaxBody = 2
    MaxFaults = 2
    TimelyRounds = TRUE
    LastBodyLasts = FALSE
    SignerLookupMayFail = FALSE
SYMMETRY Interchangeable
INVARIANTS TypeOK AtMostOneLanded OneLiveSignature ConfirmedIsLanded RecoverableByTxid
PROPERTIES ImplementsLedger 
CHECK_DEADLOCK FALSE
