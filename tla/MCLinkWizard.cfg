CONSTANTS
    a = a  b = b  c = c  ch1 = ch1  ch2 = ch2
    Nodes <- MCNodes
    Channels <- MCChannels
    Side <- MCSide
    Dir <- MCDir
    ConnType <- MCConnType
    Bandwidth <- MCBandwidth
    PType <- MCPType
    MaxLinks <- MCMaxLinks
    ObtainCalls <- MCObtainCalls
    SdkMayFail = TRUE
SPECIFICATION Spec
INVARIANTS TypeOK
PROPERTIES LinkRequestsHonoured
