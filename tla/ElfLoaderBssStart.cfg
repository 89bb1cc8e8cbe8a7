CONSTANTS
    Capacity = 8
    Objects <- MCLinkedObjects
    StartNames <- MCStartNames
SPECIFICATION Spec
INVARIANT MatchesSpec
