\* %x of an int with the sign bit set; %d of the most negative int.
CONSTANTS
    Bits = 8
    Formats <- MCFormats
    DecArgs <- MCIntMinArgs
    HexArgs <- MCNegHexArgs
    StrArgs <- MCStrArgs
SPECIFICATION Spec
INVARIANT PrintsReference
