CONSTANTS
    ld = ld  lm = lm
    Links <- MCLinks
    LinkChannel <- MCLinkChannel
    MultiAddressable <- MCMultiAddressable
    MaxRefused = 1
    UserMayDecline = TRUE
    MaxIds = 2
    MaxDeliveries = 1
    MonitorMayFail = TRUE
    CloseBeforeOpen = FALSE
SPECIFICATION Spec
INVARIANTS TypeOK LinksMatchReports
PROPERTIES ImplementsLifecycle MonitorsTerminate ClosedReportedForDetached ChannelActivationAnswered
CHECK_DEADLOCK FALSE
