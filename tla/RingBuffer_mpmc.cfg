SPECIFICATION Spec
CONSTANTS
    p1 = p1
    p2 = p2
    c1 = c1
    c2 = c2
    a = a
    b = b
    NoItem = NoItem
    Producers <- TwoProducers
    Consumers <- TwoConsumers
    Items <- TwoItems
    Cap = 2
    MaxPos = 4
SYMMETRY Symmetry
INVARIANTS
    SlotOwnership
    PeekSeesQueued
PROPERTIES
    ReturnsAreHonest
    IsBoundedQueue
