\* A process clones a thread that exits; wait() reaps it as a child and
\* frees the page directory the caller still runs on.
CONSTANTS
    NPROC = 2
    LimitTotal <- MCLimitTotal
    LimitRR <- MCLimitRR
    StarveFactor = 3
    MaxPid = 3
    Calls = {"clone", "exit", "wait"}
SPECIFICATION Spec
INVARIANT NoUndefinedBehaviour
