CONSTANTS
    ld = ld  lm = lm
    Links <- MCLinks
    LinkChannel <- MCLinkChannel
    MultiAddressable <- MCMultiAddressable
    MaxRefused = 1
    UserMayDecline = TRUE
    MaxIds = 2
    MaxDeliveries = 1
    MonitorMayFail = TRUE
    CloseBeforeOpen = TRUE
SPECIFICATION Spec

PROPERTIES ImplementsLifecycle
CHECK_DEADLOCK FALSE
