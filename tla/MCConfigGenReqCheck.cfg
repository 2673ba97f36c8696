CONSTANTS
    s1 = s1
    s2 = s2
    s3 = s3
    s4 = s4
    c1 = c1
    ServerSeq <- MCServerSeq
    ClientSeq <- MCClientSeq
    Ring <- MCServerSeq
    Entrance <- MCEntrance
    Exit <- MCExit
    Reachable <- MCReachable
    ChannelList <- MCChannelList
    ConnType <- MCConnType
    ShapesOf <- MCShapesOf
    S2SChoices <- MCS2SChoices
    C2SChoices <- MCC2SChoices

SPECIFICATION Spec

INVARIANT RequiredChannelCheckSound

CHECK_DEADLOCK FALSE
