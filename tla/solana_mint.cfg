SPECIFICATION Spec
CONSTANTS
    a1 = a1  a2 = a2
    s1 = s1  s2 = s2
    c1 = c1  c2 = c2
    None = None
    Action = {a1, a2}
    Signer = {s1, s2}
    Call = {c1, c2}
    ScanWindow = 1
    MaxFaults = 1
SYMMETRY Interchangeable
INVARIANTS MintedOnce TxidIsTheMint
CHECK_DEADLOCK FALSE
