\* A kalloc() that has unlinked a page but not yet stored size_freelist -= 1
\* lets the next kalloc() draw rd from a size one too large.
CONSTANTS
    t1 = t1
    t2 = t2
    Threads = {t1, t2}
    NPAGES = 2
    HistCap = 4
    NoThread = NoThread
    Seeds <- MCSeeds
    MaxAllocs = 4
    DumpSizes = {}
SPECIFICATION Spec
INVARIANT NoNullDereference
CONSTRAINT AllocBound
