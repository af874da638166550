SPECIFICATION FairSpec
CONSTANTS
    b1 = b1  b2 = b2  o1 = o1  o2 = o2  u1 = u1  u2 = u2
    alice = alice  bob = bob  ton = ton  sol = sol  d1 = d1  d2 = d2  g1 = g1  s1 = s1
    None = None  NoName = NoName  FeesGate = FeesGate
    Deposit = {d1, d2}
    Burn = {g1, s1}
    Fact <- MCFact  AccountFor <- MCAccountFor  ValidAddress <- MCValidAddress  BaseFee <- MCBaseFee
    RefundFee = 1
    Box = {b1, b2}
    Manifest <- MCManifest
    Owner <- MCOwner  Claim <- MCClaim
    Url = {u1, u2}
    Threshold = 2
    Wire <- MCWire
    Views <- MCViews
    MaxNonces = 3
    MaxFaults = 1
INVARIANTS ThresholdIsKeys OnlyWarranted
PROPERTIES Rejoins
