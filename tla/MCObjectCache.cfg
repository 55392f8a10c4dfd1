SPECIFICATION Spec
CONSTANTS
    Ids = {i1, i2, i3, i4}
    AtomBytes <- SomeBytes
    Generated <- OneTree
    MaxHeld = 3
    NoId = NoId
INVARIANTS
    CachedIsCurrent
    AnswerIsThere
    WorkIsBounded
PROPERTY GetAnswers
CHECK_DEADLOCK FALSE
