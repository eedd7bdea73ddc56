SPECIFICATION FairSpec
CONSTANTS
    c1 = c1
    c2 = c2
    c3 = c3
    c4 = c4
    f1 = f1
    f2 = f2
    Judger = {j1, j2}
    Bridge = {b1}
    Content <- GoodAndBad
    Bare <- OneBare
    Broken <- OneBroken
    File = {f1, f2}
    Holds <- OneDropped
    None = None
    Empty = Empty
    Torn = Torn
    MaxUploads = 3
    Faults = {"read", "refuse"}
CHECK_DEADLOCK FALSE
INVARIANTS TypeOK HandledOnce
PROPERTY NewestArrives
