\* From the beginning of a run of mut, with more allocated in all than a word
\* counts.  Finds a violation of TotalExact.
CONSTANTS
    WordBits = 12
    ObjectSizes = {1, 1500}
    Carried = {0}
    Junk = {0, 2594}
    MaxLive = 2
    MaxProduced = 3
    W = 4
    Words = 4
    Lengths = {1, 2, 3, 4, 6, 8}
    Pattern = {}
    MaxCopies = 2
    Addr = {a1, a2, a3, a4}
    Sizes = {1, 2}
    MaxCalls = 3
SYMMETRY Symmetry
INIT BaseInit
NEXT BaseNext
INVARIANT TotalExact
CHECK_DEADLOCK FALSE
