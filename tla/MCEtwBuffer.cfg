CONSTANTS
    Values = {v}
    Undefined = Undefined
    Blocks = {b1, b2, b3}
    Null = Null
    Inline = Inline
    StaticCapacities = {0, 1, 5}
    SizeTypeMax = 15
    ItemSize = 2
    FirstCapacity = 1

SPECIFICATION Spec

INVARIANTS
    TypeOK
    OwnsItsBlock
    AllocationFits

PROPERTIES
    
    GrowEnds
    ImplementsArray
