SPECIFICATION Spec
CONSTANTS
    j1 = j1
    j2 = j2
    m1 = m1
    m2 = m2
    s1 = s1
    Malformed = Malformed
    NoSolution = NoSolution
    Garbled = Garbled
    ExitOK = ExitOK
    ExitError = ExitError
    Nothing = Nothing
    Slot = {1}
    Judger <- Judgers1
    Msg <- Messages2
    Solution <- Solutions1
    Body <- SameBody
    Result <- FullOnly
    Versioned = TRUE
    MaxAttempts = 1
    Faults = {}
CHECK_DEADLOCK FALSE
INVARIANTS NoReportIsTrue
