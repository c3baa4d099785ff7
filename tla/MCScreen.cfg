SPECIFICATION Spec
CONSTANTS
    ScrollbackLines = 2
    MaxWrites = 12
    Repertoire <- MCRepertoire
    Depth <- MCDepth
    Starts <- MCStarts
    Sizes <- MCSizes
    Texts <- MCTexts
INVARIANTS GlyphsSound
PROPERTIES
    CursorStaysInPage
    HistoryKept
    RegionKept
    ReflowKeepsText
    AlternateRestores
CHECK_DEADLOCK FALSE
