CONSTANTS
    Events <- FormatEvents
    NoEvent = NoEvent
    ListOf <- MCListOf
    StackInline = 2
    ValuesInline = 4
    Shown <- MCShown
    PrefixTexts = {}
    Messages <- MCMessages
    NoMessage = NoMessage
    PrefixFormats <- MCPrefixes
    Parameters <- MCParameters
    Characters <- MCCharacters

SPECIFICATION FormatSpec

INVARIANTS
    FormatTypeOK
    FormatAsserts
    FramesKeepTheirText
    MessageIsRight
    

PROPERTIES
    FormatReturns
