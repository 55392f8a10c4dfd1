SPECIFICATION Spec
CONSTANTS
    AtomBytes <- MCAtomBytes
    Lengths <- MCLengths
    Depths <- UpToThree
    HashCounts <- UpToFour
INVARIANT FindsAllChildren
CHECK_DEADLOCK FALSE
