SPECIFICATION Spec
CONSTANTS
    Start = 3
    Interval = 2
    Wide = {}
    MaxLen = 7
    MaxParts = 1
    MaxItems = 1
    ItemLen = 1
    ItemParts = 1
    Documents <- AllDocuments
INVARIANT
    BlankBetweenPieces
