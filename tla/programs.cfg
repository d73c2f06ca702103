\* Each program by itself.  Two runs of a preparation with one change of what it is made
\* from; boards of three cells; corpora of four documents; two
\* vector campaigns; two legs of one cell, of either engine, with two settings that shape a
\* request and two that only one engine reads.
SPECIFICATION Spec
CONSTANTS
    c1 = c1
    b1 = b1
    b2 = b2
    k1 = k1
    k2 = k2
    e1 = e1
    e2 = e2
    p0 = p0
    p8 = p8
    Cells = {c1}
    Effective = {e1, e2}
    Parallel = {p0, p8}
    Builds = {b1, b2}
    Corpora = {k1, k2}
    Legs = 2
    Overrides <- MCOverrides
    Buckets = 3
    Variants <- MCVariants
    Size = 3
    Tools <- MCTools
    Attempts = 2
    Changes = 1
    Nominal = 3
    Longest = 4
    Space = 64
    Multiplier = 49
    Offset = 55
    Documents = 2
    Points = 2
    Campaigns = 2
    Intrusions = 1
SYMMETRY Symmetry
INVARIANTS ContextsServe ShownIsThisRequest StaleHidden SuccessMeansWhole
    SameIdentitySameRequest HeldAlike DeltaIsPayload CleanBoardIsControlled
    BelievedIsWhole DesignatedIsExact VectorFedIsAsked
CHECK_DEADLOCK FALSE
