\* Programs that make every process call: the wait()/join()/exit() protocol.
\* boostproc can leave a RUNNABLE process in no queue, after which the kernel
\* idles forever (run proc_boost_lost), so deadlock is not checked.
CONSTANTS
    NPROC = 3
    LimitTotal <- MCUnitLimit
    LimitRR <- MCUnitLimit
    StarveFactor = 3
    MaxPid = 3
    Calls = {"clone", "exit", "wait", "join", "boostproc"}
SPECIFICATION Spec
INVARIANT TypeOK NoLostWakeup ZombieHasLiveParent
PROPERTY LifecycleRefinement
CHECK_DEADLOCK FALSE
