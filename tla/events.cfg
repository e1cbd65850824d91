SPECIFICATION Spec
CONSTANTS
    f = f
    g = g
    Function <- MCFunction
    MaxRegs = 3
    MaxDepth = 3
INVARIANTS
    CalledInOrder
    OnceIsRemoved
