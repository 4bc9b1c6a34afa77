SPECIFICATION FairStream
CONSTANTS
    Byte = {0, 1}
    RingLength = 3
    Trigger = 1
    Chunk <- MCChunk
    MaxRead = 2
INVARIANT
    NoSleeperForgotten
PROPERTIES
    ImplementsPipe
    SendEnds
