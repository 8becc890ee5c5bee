\* Under a fair scheduler loop and timer: every RUNNABLE process runs.
\* One-tick slices let a queued process wait the 3 ticks that promote it.
CONSTANTS
    NPROC = 3
    LimitTotal <- MCUnitLimit
    LimitRR <- MCUnitLimit
    StarveFactor = 3
    MaxPid = 3
    Calls = {"fork", "exit", "wait", "kill"}
SPECIFICATION FairSpec
INVARIANT NoLostProcess
PROPERTY NoStarvation LifecycleRefinement
