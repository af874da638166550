SPECIFICATION FairSpec
CONSTANTS
    t1 = t1  t2 = t2  t3 = t3
    ann = ann  ben = ben  lou = lou
    None = None
    Transfer = {t1, t2, t3}
    Account = {ann, ben, lou}
    To <- MCTo  Amount <- MCAmount
    Exists = {ann, ben, lou}
    Short = {ann, ben}
    Cap = 2
    MaxSignatures = 6
    Batch = 1
    LateFailures = FALSE
    MaxTries = 2
    MaxFaults = 1
    MaxOthers = 1
INVARIANTS BurnedOnce  OvershootIsOne
PROPERTIES Served
