\* sem_destroy and a new sem_init of the same semaphore while another
\* thread is inside sem_post: initlock() frees the lock that thread holds.
CONSTANTS
    t1 = t1
    t2 = t2
    t3 = t3
    Threads = {t1, t2}
    NSEM = 2
    Counts = {0}
    Calls = {"init", "wait", "post", "destroy"}
    NoThread = NoThread
    MaxValue = 2
SPECIFICATION Spec
INVARIANT SemLockExclusive
CONSTRAINT ValueBound
\* Both threads may sleep in sem_wait with no poster left.
CHECK_DEADLOCK FALSE
