CONSTANTS
    t1 = t1
    t2 = t2
    K = K
    D = D
    Tasks = {t1, t2}
    Sizes = {0, 1, 3}
    PageOrders = {0, 1}
    Flags = {{K}, {D}}
    DMA = D
    SHeap = 10
    Eor = 16
    HeapFlags = {K}
    BoardRegions <- Below
    PAGE_ORDER = 1
    MAX_ADDRESSABLE_MEM_ORDER = 5
    NULL = NULL
    Wild = Wild
    MaxUsed = 10
SPECIFICATION Spec
SYMMETRY Symmetric
INVARIANTS
    RegionsDisjoint
    Partition
    FullyMerged
PROPERTIES
    Implements
CHECK_DEADLOCK FALSE
