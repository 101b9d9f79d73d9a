CONSTANTS
    translation_map <- Set2
    translation_mapE0 <- Set2E0
    make <- LettersMake
    break <- LettersBreak
    BufferSize = 3
    MaxPresses = 4
    ResetAnytime = FALSE
SPECIFICATION Spec
INVARIANT ReleasedIsUp
CHECK_DEADLOCK FALSE
