CONSTANTS
    a1 = a1
    a2 = a2
    a3 = a3
    b1 = b1
    b2 = b2
    b3 = b3
    b4 = b4
    b5 = b5
    c1 = c1
    c2 = c2
    ServerSeq <- MCServerSeq
    ClientSeq <- MCClientSeq
    CommitteeSeq <- MCCommitteeSeq
    NumRings = 2
    ReachChoices <- MCReachChoices

SPECIFICATION Spec

INVARIANTS TypeOK RingsEdgeDisjoint RingConfigsTraverseCommittee ClientsPlacedConsistently AnalyzedCommitteesLinked

CHECK_DEADLOCK FALSE
