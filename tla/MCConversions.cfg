SPECIFICATION Spec
CONSTANTS
    PtrBits = 8
    Native = "little"
    SunPath = 3
    IntTypes <- MCIntTypes
    Bases = {2, 3, 10, 16, 36}
    Widths = {0, 1, 2, 3, 5}
    Numerals <- MCNumerals
    Durations <- MCDurations
    Second = 10
    Values <- MCValues
    Inputs <- MCInputs
    Nearby <- MCNearby
    Masks <- MCMasks
    Paths <- MCPaths
    Packed <- MCPacked
    Strings <- MCStrings
    Others <- MCOthers
INVARIANTS
    PrintExact
    ParseExact
    KernelTime
    AddressText
    AddressGrammar
    SubnetBits
    MaskInverse
    SockBytes
    ZOrder
