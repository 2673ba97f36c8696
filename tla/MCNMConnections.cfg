CONSTANTS
    p1 = p1  p2 = p2  ch1 = ch1  ch2 = ch2  ch3 = ch3
    l1 = l1  l2 = l2  l3 = l3  l4 = l4
    Peers <- MCPeers
    PeerOrder <- MCPeerOrder
    ChannelsToUse <- MCChannels
    Links <- MCLinks
    GenesisLinks <- MCLinks
    ChannelOf <- MCChannelOf
    PersonaOf <- MCPersonaOf
    LinkTypeOf <- MCLinkTypeOf
    Rank <- MCRank
    ExpectedLinks <- MCExpectedLinks
    MaxOpens = 3
    MaxCloses = 2
    OpenMayFail = TRUE
SPECIFICATION Spec
INVARIANTS TypeOK ConnectionMapsMatchSDK RetryOnlyWhileUnreachable
PROPERTIES  ReadyEventuallyReported

