SPECIFICATION FairReconSpec
CONSTANTS
    gram = gram  solana = solana
    Chain = {gram, solana}
    MaxFail = 2
    OkTicks = 3
    MaxLoopErrors = 1
INVARIANTS LatchedUnlessHidden UnpauseEarned
PROPERTIES TroubleHalts StallHeals
