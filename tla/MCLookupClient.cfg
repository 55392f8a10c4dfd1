SPECIFICATION Spec
CONSTANTS
    AtomBytes <- MCAtomBytes
    Lengths <- MCLengths
    Depths <- UpToTwo
    HashCounts <- UpToNine
INVARIANTS
    RootIsStack
    CountsCover
    LinksSound
    PathsSound
    FindsWhatIsThere
CHECK_DEADLOCK FALSE
