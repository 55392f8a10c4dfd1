SPECIFICATION Spec
CONSTANTS
    AtomLimit = 3
    Trees <- SomeTrees
    Inputs <- SomeInputs
    MaxSizes <- TightSizes
INVARIANTS
    Lockstep
    FailsOnlyForCause
    NeverLonger
    RefusesTooLarge
PROPERTIES
    DeliversTheTree
    UsesTheLookup
    Arrives
