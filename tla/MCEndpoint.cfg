SPECIFICATION FairSpec
CONSTANTS
    c1 = c1
    c2 = c2
    Connections <- MCConnections
    Setups <- MCSetups
INVARIANTS
    CapacityHolds
    PassWaitsForAbandonedOnes
    NothingIsLeftUnsent
PROPERTIES
    SlotComesBack
CHECK_DEADLOCK FALSE
