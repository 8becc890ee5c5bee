\* mprotect/munprotect against spec.md's write-after-protect requirement,
\* with the TLB.  A killed process takes no more steps.
CONSTANTS
    PGSIZE = 4096
    Pages <- MCPages
    PresentPDX <- MCPresentPDX
    InitPTE <- MCInitPTE
    Addrs <- MCAddrs
    Lens <- MCLens
SPECIFICATION Spec
INVARIANT ProtectionTakesEffect
CHECK_DEADLOCK FALSE
