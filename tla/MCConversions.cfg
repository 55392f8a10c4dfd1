SPECIFICATION Spec
CONSTANTS
    Values <- MCValues
    Others <- MCOthers
    CanConvert <- MCCanConvert
    TreeOf <- MCTreeOf
    ListTree <- MCListTree
    EndsInNil <- MCEndsInNil
    ListItems <- MCListItems
    PythonOf <- MCPythonOf
INVARIANTS
    StacksInStep
    FindsItsValues
    BecomesTree
    BecomesPython
    EqualIfSameTree
PROPERTY Returns
