SPECIFICATION FairSpec
CONSTANTS
    r1 = r1
    r2 = r2
    u1 = u1
    u2 = u2
    sa = sa
    sb = sb
    Nobody = Nobody
    Run <- Runs2
    User <- Users
    Solution <- Solutions
    UserOf <- OwnUser
    SolutionOf <- OwnSolution
    Limited <- FirstRun
    Detached <- SecondRun
    Root <- SecondUser
    Addresses = 2
    Faults = {"refuse", "init", "spawn", "unreached", "timeout", "put"}
CHECK_DEADLOCK FALSE
INVARIANTS TypeOK OwnResult CleanedUp
PROPERTIES ImplementsScriptLife EveryCommandSettles
