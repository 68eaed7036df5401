SPECIFICATION Spec
CONSTANTS
    w1 = w1
    w2 = w2
    loader = loader
    Writers = {w1, w2}
    Loader = loader
    Width = 2
    BufferSize = 3
    Cells = 2
    Texts <- MCTexts
    MaxCalls = 2
    FunctionSet = 3
    DisplayOn = 3
    Clear = 1
    Seven = 2
INVARIANTS
    AloneShowsText
PROPERTIES
    GarbledByOverlap
CHECK_DEADLOCK FALSE
