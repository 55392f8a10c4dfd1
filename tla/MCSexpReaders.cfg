SPECIFICATION Spec
CONSTANTS
    AtomLimit = 2
    Streams <- MCStreams
INVARIANTS
    Balanced
    SameExtent
