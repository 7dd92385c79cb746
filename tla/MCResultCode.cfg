CONSTANTS
    Buffers = {"m_stringBuffer", "m_stringBuffer2"}
    Capacities = {8, 70}
    InlineCapacity <- MCInlineCapacity
    PrintfGrowth = 4
    AddressRoom = 46
    MinTime <- MCMinTime
    MaxTime = 31
    PerMinute = 3
    MaxBias = 2
    Formats <- MCFormats
    Biases <- MCBiases
    BitCount = 4
    NtBit = 8
    Calls <- MCHexCalls
    NoMap = NoMap
    MapSizes = {8, 20}

SPECIFICATION Spec

PROPERTY ResultCodeFallsBack

CHECK_DEADLOCK FALSE
