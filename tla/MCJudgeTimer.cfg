SPECIFICATION Spec
CONSTANTS
    j1 = j1
    j2 = j2
    m1 = m1
    m2 = m2
    s1 = s1
    Malformed = Malformed
    NoSolution = NoSolution
    Garbled = Garbled
    ExitOK = ExitOK
    ExitError = ExitError
    Nothing = Nothing
    Slot = {1}
    Judger <- Judgers2
    Msg <- Messages1
    Solution <- Solutions1
    Body <- SameBody
    Result <- PartialAndFull
    Versioned = TRUE
    MaxAttempts = 1
    Faults = {"refuse", "silent", "garble", "lostReply", "claimExpiry"}
SYMMETRY JudgerSymmetry
CHECK_DEADLOCK FALSE
INVARIANTS NoReportIsTrue ClaimsExpire
