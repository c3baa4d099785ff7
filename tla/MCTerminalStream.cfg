SPECIFICATION Spec
CONSTANTS
    MAX_SPACE = 11
    MAX_DEPTH = 3
    MAX_PARAMETER_VALUE = 15
    MacroIds = {0}
    MAX_PARAMETER_COUNT = 3
    MAX_SUBPARAMETER_COUNT = 1
    MAX_INTERMEDIATES = 1
    MaxBytes <- MCMaxBytes
    Families <- MCFamilies
    Chunks <- MCChunks
INVARIANTS
    SplitHarmless
    SequencesMeanTheirText
    Resynchronises
    MacrosSafe
    RestartClean
