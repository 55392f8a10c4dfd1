SPECIFICATION Spec
CONSTANTS
    AtomLimit = 100
    Trees <- ChainTrees
    Inputs <- ChainInput
    MaxSizes <- AnySize
INVARIANT BackrefsSaveSpace
