\* boostproc moves the caller, then scheduler() removes mlfq[lvl][i] with the
\* index it read before the process ran.
CONSTANTS
    NPROC = 2
    LimitTotal <- MCLimitTotal
    LimitRR <- MCLimitRR
    StarveFactor = 3
    MaxPid = 3
    Calls = {"fork", "wait", "boostproc"}
SPECIFICATION Spec
INVARIANT NoLostProcess

