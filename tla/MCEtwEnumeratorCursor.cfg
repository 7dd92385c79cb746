CONSTANTS
    Events <- CursorEvents
    NoEvent = NoEvent
    ListOf <- MCListOf
    StackInline = 1
    ValuesInline = 2

SPECIFICATION CursorSpec

PROPERTIES
    ImplementsCursor
