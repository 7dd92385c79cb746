CONSTANTS
    Events <- JsonEvents
    NoEvent = NoEvent
    ListOf <- MCListOf
    StackInline = 1
    ValuesInline = 2
    Shown <- JsonShown
    PrefixTexts <- JsonPrefixes

SPECIFICATION JsonSpec

INVARIANTS
    JsonTypeOK
    JsonIsRight
    JsonMovesToSibling
    JsonFailsForCause

PROPERTIES
    JsonReturns
