SPECIFICATION CampaignSpec
CONSTANTS
    c1 = c1
    b1 = b1
    b2 = b2
    k1 = k1
    k2 = k2
    e1 = e1
    e2 = e2
    p0 = p0
    p8 = p8
    Cells = {c1}
    Effective = {e1, e2}
    Parallel = {p0, p8}
    Builds = {b1, b2}
    Corpora = {k1, k2}
    Legs = 1
SYMMETRY Symmetry
INVARIANT FlawedNeverShown
