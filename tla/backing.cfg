SPECIFICATION BackingSpec
CONSTANTS
    d1 = d1  d2 = d2  t1 = t1  t2 = t2
    Deposit = {d1}
    Gross <- MCGross
    Transfer = {t1, t2}
    Amount <- MCAmount
    Old <- High
    New <- Low
    RefundFee = 2
    Tolerance = 0
    Endpoint = {1, 2}
    MaxChanges = 3
INVARIANTS Solvent 
