CONSTANTS
    Events <- AllEvents
    NoEvent = NoEvent
    StackInline = 1
    ValuesInline = 2

SPECIFICATION Spec

INVARIANTS
    TypeOK
    MoveNextAsserts
    ItemInfoAsDocumented
    RawItemInPayload
    
    RemainingElementsFit
    StackFollowsTei
    FailureIsReported


    
