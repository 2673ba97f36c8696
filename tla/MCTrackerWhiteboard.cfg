\* One message and three entrance servers: three packages on one hashtag.
\* The store keeps two posts, so the third post trims the oldest.  Redis
\* scripts and /latest may fail.
CONSTANTS
    h1 = h1
    Msgs <- MCMsgs
    NumEntrance = 3
    Concurrent = FALSE
    SendMayRaise = TRUE
    Capacity = 2
    StoreMayFail = TRUE
    LatestMayFail = TRUE
SPECIFICATION TWSpec
INVARIANT TypeOK
INVARIANT WBTypeOK
INVARIANT ReportsMatchOutcomes
INVARIANT PollAccountsForEveryPost
PROPERTY FinalStatusReported
