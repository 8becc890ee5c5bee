\* Two kernel threads allocating and freeing: no page is ever owned twice,
\* and the allocator implements the abstract page pool.
CONSTANTS
    t1 = t1
    t2 = t2
    Threads = {t1, t2}
    NPAGES = 2
    HistCap = 4
    NoThread = NoThread
    Seeds <- MCSeeds
    MaxAllocs = 4
    DumpSizes = {}
SPECIFICATION Spec
INVARIANT PageOwnership
PROPERTY PoolRefinement
SYMMETRY ThreadSymmetry
CONSTRAINT AllocBound
