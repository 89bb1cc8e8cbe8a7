CONSTANTS
    Bits = 8
    Formats <- MCFormats
    DecArgs <- MCDecArgs
    HexArgs <- MCHexArgs
    StrArgs <- MCStrArgs
SPECIFICATION Spec
INVARIANTS
    TypeOK
    PrintsReference
