CONSTANTS
    Events <- StartEvents
    NoEvent = NoEvent
    StackInline = 1
    ValuesInline = 2
    TeiSizes = {16, 40}

SPECIFICATION StartSpec

INVARIANT
    TeiIsCurrent

PROPERTIES
    EveryPassEnds
    
    StartReturns
