\* wait() frees a slot without removing its queue entry; allocproc() appends
\* the reused slot to mlfq[3] again.
CONSTANTS
    NPROC = 2
    LimitTotal <- MCLimitTotal
    LimitRR <- MCLimitRR
    StarveFactor = 3
    MaxPid = 3
    Calls = {"fork", "exit", "wait"}
SPECIFICATION Spec
INVARIANT OneEntryAtLevel

