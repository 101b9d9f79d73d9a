CONSTANTS
    translation_map <- Set2
    translation_mapE0 <- Set2E0
    make <- AllMake
    break <- AllBreak
    BufferSize = 2
    MaxPresses = 3
    ResetAnytime = FALSE
SPECIFICATION FairSpec
INVARIANTS DecoderSound StatusTrue
PROPERTIES CapsOnPress BufferIsRead
