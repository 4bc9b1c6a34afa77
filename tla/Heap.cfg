SPECIFICATION HeapSpec
CONSTANTS
    Base = 1
    Total = 27
    Align = 2
    Header = 2
    SizeMax = 63
    Sizes = {0, 1, 4, 5, 7, 30, 61, 63}
INVARIANT
    FreeListExact
PROPERTY
    GivesEachByteOnce
