\* user/test-sem.c in two shells at once, each running it twice, on a freshly
\* booted kernel with two semaphores: the threads of both copies interleave,
\* slots are reused, two waiters can sleep on one slot, thread_create may
\* fail, and a late sem_init finds num_sem at NUM_SEMAPHORES.
CONSTANTS
    c1 = c1
    c2 = c2
    Copies = {c1, c2}
    Runs = 2
    NSEM = 2
    Counts = {0}
    Calls = {"init", "wait", "post", "destroy"}
    NoThread = NoThread
SPECIFICATION Spec
INVARIANT TypeOK NoLostSemWakeup ChildFinishesFirst
SYMMETRY CopySymmetry
\* scheduler() loops forever when no thread can run: a copy's main can sleep
\* for good on a semaphore slot the other copy reused (see TestCompletes).
CHECK_DEADLOCK FALSE
