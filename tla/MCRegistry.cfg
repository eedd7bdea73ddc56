SPECIFICATION Spec
CONSTANTS
    w1 = w1
    w2 = w2
    c1 = c1
    c2 = c2
    a = a
    b = b
    g1 = g1
    g2 = g2
    Nil = Nil
    None = None
    Address = {"x", "y"}
    Type = {"bridge", "other"}
    ID <- IDSet
    Generated <- GeneratedSet
    Worker <- Workers2
    Session <- Sessions1
    AddForm <- MixedForms
    DeleteForm <- IllTyped
    InformForm <- MixedInform
    Bootstrap <- Alone
SYMMETRY Interchangeable
INVARIANTS TypeOK DistinctIDs
