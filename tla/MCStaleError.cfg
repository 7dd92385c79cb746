CONSTANTS
    Events <- LoopEvents
    NoEvent = NoEvent
    StackInline = 1
    ValuesInline = 2

SPECIFICATION Spec

INVARIANT
    SuccessIsReported
