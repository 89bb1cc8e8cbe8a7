CONSTANTS
    InputSize = 8
    HiddenSize = 8
    OutputSize = 3
    TestSize = 64
    Programs <- MCPrograms
    Int8Nets <- MCInt8Nets
    Int8Image <- MCInt8Image
    HostNets <- MCHostNets
    HostSamples <- MCHostSamples
    Q16Nets <- MCQ16Nets
    Q16Samples <- MCQ16Samples
    NoArray = NoArray

SPECIFICATION Spec

INVARIANTS
    TypeOK
    ForwardsMatchReference
    DotProductsExact
    ExitStatusMatchesAccuracy
