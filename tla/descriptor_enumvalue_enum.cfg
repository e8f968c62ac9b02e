CONSTANTS
    strId = strId
    intId = intId
    Ids <- MCIds
    StrId = strId
    NoId = NoId
    NoPos = NoPos
    None = None
    Leaves <- MCOwnedEnumLeaves
    MaxDescs = 3
    MaxNest = 1
SPECIFICATION Spec
INVARIANT EnumerationAccepted
