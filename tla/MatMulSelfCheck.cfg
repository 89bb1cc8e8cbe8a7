\* The benchmark as written: 8 x 8, expected C[0][0] = 204.
CONSTANTS
    N = 8
    A <- MCA
    B <- MCB
    Expected = 204
SPECIFICATION Spec
INVARIANT VerificationPasses
