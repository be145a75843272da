CONSTANTS
    Procs = {p1, p2}
    Nobody = Nobody
    Blocks = {k1, k2, k3, k4}
    NoBlock = NoBlock
    Vals = {0, 1}
    NoVal = NoVal
    NBUF = 3
    MaxPins = 1
SPECIFICATION Spec
INVARIANTS RefcntCounts 
PROPERTY CacheIsTransparent
SYMMETRY Symmetry
