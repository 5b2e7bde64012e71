SPECIFICATION Spec
CONSTANTS
    Start = 1
    Interval = 4
    MaxLen = 7
    Texts <- AllTexts
INVARIANTS
    ChunkFits
    WordsKept
    SentenceFirst
