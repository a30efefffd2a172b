CONSTANTS
    Texts <- MCTexts
    Blank <- MCBlank
    Tokens <- MCTokens
    Slice <- MCSlice
    Parted <- MCParted
    Sources <- MCSources
    Normalized <- MCNormalized
    Characters = 3
    Target = 3
    Overlap = 2
    Maximum = 4
    K = 60
    Scale = 238266
    Candidates = 3
    Limits = {1, 3}
    MaximumChunks = 2
    MaximumTokens = 4
    MinimumTokens = 3
SPECIFICATION Spec
INVARIANTS TypeOK FragmentsCoverTheText ChunksCoverTheDocument BestPassagesFirst ContextFitsTheBudget
CHECK_DEADLOCK FALSE
