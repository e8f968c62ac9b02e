CONSTANTS
    strId = strId
    intId = intId
    Ids <- MCIds
    StrId = strId
    NoId = NoId
    NoPos = NoPos
    None = None
    Leaves <- MCLeaves
    MaxDescs = 3
    MaxNest = 1
SPECIFICATION Spec
INVARIANTS CheckSound CheckCompleteOffEnumerations
