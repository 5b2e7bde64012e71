SPECIFICATION Spec
CONSTANTS
    Start = 3
    Interval = 2
    Wide = {}
    MaxLen = 7
    MaxParts = 3
    MaxItems = 3
    ItemLen = 3
    ItemParts = 2
    Documents <- AllDocuments
INVARIANTS
    PartsSuffice
    PieceWordsKept
    ContentKept
    VoiceKept
    RequestFits
