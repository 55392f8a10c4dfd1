SPECIFICATION Spec
CONSTANTS
    Calls <- OperatorCalls
    QuoteAtom <- QUOTE_ATOM
    ApplyAtom <- APPLY_ATOM
    OperatorLookup <- Operate
    Traced <- Never
    Sha256 <- StandInSha256
    PublicKey <- StandInPoint
    IsPoint <- StandInIsPoint
    PointSum <- StandInPointSum
INVARIANT EqualAsDocumented
