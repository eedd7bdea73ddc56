SPECIFICATION Spec
CONSTANTS
    r1 = r1
    r2 = r2
    u1 = u1
    u2 = u2
    sa = sa
    sb = sb
    Nobody = Nobody
    Run <- Runs1
    User <- Users
    Solution <- Solutions
    UserOf <- OwnUser
    SolutionOf <- OwnSolution
    Limited <- Runs1
    Detached = {}
    Root = {}
    Addresses = 2
    Faults = {}
CHECK_DEADLOCK FALSE
INVARIANT NotInJudgeIsTrue
