SPECIFICATION Spec
CONSTANTS
    a1 = a1  a2 = a2
    None = None
    Action = {a1, a2}
    NumOperators = 3
    Threshold = 2
    MaxOrder = 3
    MaxMail = 2
    SerialPins = TRUE
SYMMETRY Interchangeable
INVARIANTS TypeOK ExecutedOnce ConfirmedIsMinted
CHECK_DEADLOCK FALSE
