SPECIFICATION Spec
CONSTANTS
    s1 = s1
    s2 = s2
    s3 = s3
    b1 = b1
    a = a
    Nil = Nil
    NoServer = NoServer
    ID <- IDSet
    Address = {"x"}
    Type = {"bridge"}
    Server <- Servers3
    Founder <- Founders
    Named <- ThroughFirst
    Bridge <- Bridges1
    ServiceOf <- MCServiceOf
    Faults = {"remove", "lose"}
CHECK_DEADLOCK FALSE
INVARIANTS TypeOK AddedIsEverywhere GoneIsGone MeshLinked
