SPECIFICATION Spec
CONSTANTS
    Ids = {i1, i2, i3, i4, i5, i6, i7}
    AtomBytes <- NoAtoms
    Generated <- OneTree
    MaxHeld = 1
    NoId = NoId
SYMMETRY Symmetry
INVARIANT CalledAgainOnce
CHECK_DEADLOCK FALSE
