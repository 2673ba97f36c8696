\* Reliable transport: every package is delivered, maybe more than once
\* (no loss).  Safety and liveness of routing.
CONSTANTS
    x1 = x1  x2 = x2  y1 = y1  z1 = z1
    a = a  b = b
    X = X  Y = Y  Z = Z
    m1 = m1  m2 = m2
    Servers <- MCServers
    Clients <- MCClients
    Committees <- MCCommittees
    CommitteeOf <- MCCommitteeOf
    Rings <- MCRings
    ExitClients <- MCExitClients
    CommitteeClients <- MCCommitteeClients
    ReachableCommittees <- MCReachableCommittees
    FloodingFactor <- MCFloodingFactor
    EntranceCommittee <- MCEntranceCommittee
    Msgs <- MCMsgs
    MsgFrom <- MCMsgFrom
    MsgTo <- MCMsgTo
    MaxStaleUuids = 10
    MaxSeenMessages = 10
    MaxDuplicates = 1
    MaxBodyLen = 5
SPECIFICATION Spec
INVARIANT TypeOK
INVARIANT AtMostOncePresentation
INVARIANT RingsStartedAtMostOnce
INVARIANT FramedBodyOutcome
PROPERTY EventualPresentation
PROPERTY RoutingTerminates
