SPECIFICATION Spec
CONSTANTS
    Atoms   <- MCAtoms
    Streams <- MCStreams
    Beyond = {0, 1, 9}
INVARIANTS
    ReadsWhatWasWritten
    RefusesWhatIsCut
    ReturnsWhatItRead
    WritesTheShortest
    ForetellsLength
