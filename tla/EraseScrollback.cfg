SPECIFICATION Spec
CONSTANTS
    ScrollbackLines = 2
    MaxWrites = 12
    Repertoire <- MCRepertoire
    Depth <- MCDepth
    Starts <- MCStarts
    Sizes <- MCSizes
    Texts <- MCTexts
CHECK_DEADLOCK FALSE
PROPERTY
    EraseScrollbackKeepsPage
