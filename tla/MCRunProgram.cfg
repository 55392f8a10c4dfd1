SPECIFICATION Spec
CONSTANTS
    Calls <- AllCalls
    QuoteAtom <- QUOTE_ATOM
    ApplyAtom <- APPLY_ATOM
    OperatorLookup <- Operate
    Traced <- Always
    Meaning <- MCMeaning
    ListMeaning <- MCListMeaning
    IsProper <- MCIsProper
    Sha256 <- StandInSha256
    PublicKey <- StandInPoint
    IsPoint <- StandInIsPoint
    PointSum <- StandInPointSum
INVARIANTS
    Balanced
    Aligned
    ComputesMeaning
    CallableSeesValue
PROPERTY Stops
