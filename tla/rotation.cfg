SPECIFICATION FairRotationSpec
CONSTANTS
    a = a  b = b  c = c
    p = p  q = q
    NoProposal = NoProposal
    Operators = {a, b, c}
    Proposal = {p, q}
    Wanted <- MCWanted
    Founding <- MCFounding
    MaxOrders = 2
    MaxMultisigs = 2
    MaxDrafts = 1
    MaxFaults = 1
INVARIANTS  NoLockout
PROPERTIES Completes
CHECK_DEADLOCK FALSE
