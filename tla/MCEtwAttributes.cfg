CONSTANTS
    Strings <- MCStrings
    Rooms = {0, 1, 2}
    Nul = Nul
    IdVersion = IdVersion

SPECIFICATION Spec

INVARIANTS
    TypeOK
    WritesFit
    ReadsAsListed
