SPECIFICATION FairSpec
CONSTANTS
    Owners <- TwoOwners
    Callers <- ThreeCallers
    Buffers <- TwoBuffers
    NoBuffer = NoBuffer
    MaxPools = 2
INVARIANTS
    OwnersHavePools
    HeldIsAlive
    BuffersConserved
PROPERTY
    ShutdownReturns
