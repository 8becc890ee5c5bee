\* One kernel thread: dump_allocated() against the history, and the seed
\* against the reference xorshift, when nothing interleaves with kalloc().
CONSTANTS
    t1 = t1
    t2 = t2
    Threads = {t1}
    NPAGES = 3
    HistCap = 4
    NoThread = NoThread
    Seeds <- MCSeeds
    MaxAllocs = 5
    DumpSizes <- MCDumpSizes
SPECIFICATION Spec
INVARIANT TypeOK DumpIsRecentHistory
PROPERTY RandStep
CONSTRAINT AllocBound
