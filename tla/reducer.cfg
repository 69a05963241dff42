SPECIFICATION FairSpec
CONSTANTS
    d1 = d1  d2 = d2  d3 = d3  p1 = p1  p2 = p2
    Deals = {d1, d2, d3}
    Positions = {p1, p2}
    None = None
    PositionOf <- MCPositionOf
    Size = 2
    MaxCrashes = 1
INVARIANTS TypeOK EffectOnce HeardNotLost OverflowStopsTrading
PROPERTIES EffectComes
