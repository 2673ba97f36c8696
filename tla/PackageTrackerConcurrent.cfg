\* The host calls onPackageStatusChanged concurrently with processClrMsg
\* (spec section 5: concurrent calls from several threads).
CONSTANTS
    Msgs = {h1, h2}
    NumEntrance = 2
    Concurrent = TRUE
    SendMayRaise = FALSE
SPECIFICATION Spec
INVARIANT ReportsMatchOutcomes
