# TLA+ models of the xv6-Ro kernel extensions

These modules model the parts of `src/kernel/proc.c`, `src/kernel/kalloc.c`,
`src/kernel/rand.c`, `src/tools/xfsck.c` and `src/user/test-sem.c` that this
repository adds to xv6:

- the multi-level feedback-queue (MLFQ) scheduler;
- the process lifecycle around it;
- the semaphores;
- the randomised page allocator and the xorshift generator it draws from;
- `mprotect`/`munprotect` on the page table, with the TLB;
- the file-system checker `xfsck`;
- the semaphore test program `test-sem`, run on the semaphores.

They check the modules with TLC.

## The system and its parts

| Part | Source | What it does |
|---|---|---|
| PageAllocator | `kalloc.c` | The free list `kmem.freelist` and the counter `size_freelist`. `kalloc()` unlinks the page at a random index `xv6_rand() % size_freelist`; `kfree()` pushes a page at the head. Every allocation is recorded in the history `allocated[512]` / `num_alloc`, and `dump_allocated()` reads it. |
| ProcessTable | `proc.c` | `ptable.proc[NPROC]`. It covers: `allocproc`, `userinit`, `fork`, `clone`, `exit`, `wait`, `join` and `kill`. |
| MLFQScheduler | `proc.c` | Four queues `mlfq[4][512]` with sizes `mlfq_size[4]`, plus `limit_total = {64,32,16,8}` and `limit_rr = {64,4,2,1}`. Each pass of `scheduler()` does four things in turn: it runs the first RUNNABLE entry, highest level first; it demotes the process once its ticks reach `limit_total`; otherwise it requeues the process every `limit_rr` ticks; and it promotes every process whose `wait_ticks_curr` reached `10 * limit_total`. Two helpers go with it: `rm_priority` removes an entry by shifting, and `boostproc` lets a process raise itself one level. |
| SynchronizationLayer | `proc.c` | `sleep`, `wakeup1` and `wakeup` on channel identity. `wakeup2` compares the word stored at the channel. The semaphores are `sem_init`, `sem_wait`, `sem_post` and `sem_destroy`. |
| PageProtection | `proc.c` | `mprotect` and `munprotect` clear or set `PTE_W` over a page range. |
| Introspection | `proc.c` | `getprocinfo` fills `pstat`; `getfilenum` counts open files. |
| RandomNumberGenerator | `rand.c` | xorshift32 `xv6_rand` on the global `rand_seed`; `kalloc` draws from it. |
| FileSystemChecker | `tools/xfsck.c` | An offline program that maps a file-system image and runs twelve numbered consistency checks and one extra check, exiting 1 with a message at the first that fails. |
| UserTests | `user/*.c` | Test programs of the system calls. |

How the parts interact:

- `test-sem.c` is a client of the semaphores: its two threads share the global `sem_id`, and each of its calls is a system call into `proc.c`.

- `fork` calls `allocproc`, which takes a kernel stack from `kalloc()`.
- `allocproc` appends the new process to `mlfq[3]`.
- `exit` and `wait` meet through `sleep`/`wakeup1` on the parent's `struct proc`.
- `kill` marks a process; a sleeping target is also made RUNNABLE. The process exits in `trap()` the next time it is about to return to user mode.
- The scheduler reads `state` through the queues, not through the table. A process that is RUNNABLE but has no queue entry is never run.

## Modules

### `Proc.tla` (with `MCProc.tla`): process table and scheduler, one CPU

**State.** The fields of `struct proc` that scheduling and the lifecycle read are functions over the slots `1..NPROC`:

- `state`, `pid`, `parent`, `killed`;
- `level`, `ticks` (`ticks_curr`), `waits` (`wait_ticks_curr`);
- `chan`;
- `pgdir`: the address space, named by the pid of the process whose `fork` created it (`userinit` gives init address space 1), so `clone` can share it.

`mlfq[l]` is a sequence of slots; its length is `mlfq_size[l]`.

Besides those:

- `cur` is `proc`, the process the CPU runs.
- `at = <<lvl, i>>` is the scheduler's loop position, saved before `swtch`.
- `pc` records whether a process resumes in user mode or inside `wait()` or `join()`.
- `halt` records a `panic` or undefined behaviour. From then on only the stuttering action `Halted` is enabled: a panicking xv6 spins forever.

**Actions.** Each action is one whole handler:

| Action | Code |
|---|---|
| `Init` | `userinit` |
| `Dispatch` | The first half of one pass of `scheduler()`: choose, count wait ticks, run. |
| `Yield` | `yield` on a timer interrupt. |
| `Fork`, `Clone` | `fork` or `clone`, through `NewProc` = `allocproc` (a full table returns -1). `fork` gives the child a new address space, `clone` the caller's. |
| `Exit`, `TrapKilled` | `exit`, called directly or by `trap` for a killed process. It wakes `Wakeup1(parent)` (= `wakeup1`), and `Wakeup1(initproc)` when a child it hands to init is a zombie. |
| `Wait`, `Join`, `WaitResume` | One pass of the loop of `wait()` or `join()` (`Reap`, shared by both): it reaps the first zombie child, returns -1, or sleeps. `join()` only takes children on the caller's address space and clears their `pgdir`; `wait()` takes any child and `freevm`s its `pgdir`, undefined behaviour when another live slot or unreaped zombie still uses it. |
| `Kill` | `kill(pid)` for any pid in `0..MaxPid`. |
| `BoostProc` | `boostproc`. |

When a process gives up the CPU (`yield`, `sleep`, `exit`), the switch-out and the rest of the scheduler pass form one atomic step. That rest of the pass is demotion or round robin (`AfterRun`), then the promotion loop (`Promote`, a RECURSIVE operator that walks the queues exactly as the nested `for` loops do). The step is atomic because `ptable.lock` is held from `sched()` until the pass ends.

**Modelled with their flaws:**

- The stale `lvl, i` after `boostproc`.
- The shift-removal of `rm_priority`, including an out-of-range index (it loses the last entry) and an empty level (`mlfq_size` becomes -1, undefined behaviour).
- The promotion loop's skipping of the entry shifted into position `i`.
- Its missing guard at level 3: it writes `mlfq[4]`, which is undefined behaviour.

**Abstractions:**

- `ticks_curr` is only compared with `limit_total` and taken modulo `limit_rr`. It saturates into a window of length lcm(`limit_rr`) above max(`limit_total`), so every comparison keeps its outcome.
- `wait_ticks_curr` saturates at `StarveFactor * max(limit_total)`.
- The cumulative `ticks[]` and `wait_ticks[]` arrays are only read by `getprocinfo`, so they are left out.
- File descriptors, `cwd`, `name`, the user stack of a thread and the trap frame are not part of any property. A page directory is only an identity: `copyuvm` and `freevm` are modelled by which slots name it.
- `kalloc()` in `allocproc` is taken to succeed. It cannot return 0 in this build: it faults instead (see KAlloc).
- The promotion loop leaves `lvl = -1`, so the next test reads `mlfq_size[-1]`. The model ends the pass there and rescans from level 3.

`MCProc` scales the limits to `limit_total = {2,1,1,1}` and `limit_rr = {2,1,1,1}`, with `StarveFactor = 3` standing for the 10. The shape is kept: level 0 runs a process until its slice ends, and the upper levels demote after their slice. The code's level-3 promotion threshold, 80, is larger than NPROC-1 = 63. In the model the threshold, 3, is likewise larger than NPROC-1 = 2. So whether ordinary waiting can push a level-3 process to promotion comes out the same as in the code (it cannot). `MCUnitLimit` sets every slice to one tick. ProcLifecycle and ProcStarvation use it, and there a process queued behind a newly forked one waits the 3 ticks that promote it, so the promotion loop does fire.

`Calls` is the set of system calls the user programs make in a run. It isolates the questions: boostproc is known to break the queues, so runs about other properties leave it out. `MaxPid` bounds `nextpid` and so the number of forks.

### `Lifecycle.tla`: the process lifecycle spec.md promises

This is an abstract module, written from spec.md's lifecycle, not from the code. Its state is `state` and `parent` per slot. Its steps are all made by the one running process, or by the CPU for `Run`:

- `Create`: an UNUSED slot becomes RUNNABLE, a child of the running process.
- `Run`: a RUNNABLE process runs when nothing else does.
- `Preempt`: the running process becomes RUNNABLE.
- `Block`: the running process sleeps, and only if it has a child to wait for. spec.md: `wait()`/`join()` with no qualifying children fail without blocking.
- `Wake`: the running process makes a sleeper RUNNABLE.
- `Terminate`: the running process becomes a ZOMBIE. It hands its children to the initial process and wakes at most its parent and the initial process.
- `Reap`: the running parent frees a zombie child's slot.

`Proc` instances it with its own `state` and `parent` (`Life`), and `LifecycleRefinement == Life!Spec` is checked as a property. Every step of the table, the scheduler, `kill` and `boostproc` must therefore be a lifecycle step or leave both variables unchanged.

### `KAlloc.tla` (with `MCKAlloc.tla`): page allocator, concurrent threads

**State:** `freelist` (head first), `size` (`size_freelist`), `allocated`, `numAlloc`, the holder of `kmem.lock`, and per thread its position `tpc`, its page `r`, the value `tmp` it loaded for an unfinished `+=`, and the pages it holds.

**Steps.** `kalloc()` is split into one step per statement:

- `AllocAcquire`;
- `AllocPick`: the random index, the walk, the unlink and the release;
- after the release, where interrupts are enabled and another CPU can run, `AllocHistory` (`allocated[num_alloc] = r`), `AllocCount` (`num_alloc += 1`), and `AllocLoadSize` / `AllocStoreSize` (`size_freelist -= 1` as a load and a store).

`kfree()` is one step under the lock.

`dump_allocated()` is a system call that takes no lock:

- `DumpStart` is the `numframes > num_alloc` test. On failure it records a return of -1.
- `DumpStep` is one pass of the loop, `frames[i] = allocated[num_alloc-1-i]`, with `num_alloc` read afresh on every pass. After the last pass it records the frames and a return of 0.

`dumped[t]` keeps the outcome of thread `t`'s last dump, along with the number of `kalloc()` calls made before it. `MCDumpSizes` takes `numframes` below zero, inside the history, equal to it, and past it. The two-thread runs give `DumpSizes = {}`: see the hazard at `kalloc.c:117`.

**Abstractions:**

- `xv6_rand()` is the real generator (`Rand.tla`): the variable `seed` is `rand_seed`, and each `AllocPick` draws `XV6Rand(seed)` and advances it. The index is that value modulo `size_freelist`, with C's sign rule for a negative size. `rand.h` is not in the repository; `XV6_RAND_MAX` is taken to be `INT_MAX`.
- The initial `rand_seed` is any of `Seeds`. `MCKAlloc` gives the values after 0 to 4 earlier draws from 1, since the kernel draws for other purposes before a thread calls `kalloc`. Their indexes cover every residue modulo 2 and 3, so every list position is picked in some behaviour.
- A zero size is a divide error.
- An index at or past the end of the list is a NULL dereference.

`MCKAlloc` adds a symmetry over the threads. It also adds a state constraint `AllocBound` that bounds the total number of `kalloc()` calls. A lost update of `num_alloc` would otherwise keep the history from ever filling.

**Refinement.** `PagePool.tla` is what the allocator promises: each page is free or owned by one caller, and acquire and release each move one page. `KAlloc` maps onto it: `free` is the set of pages on `kmem.freelist`, and a thread owns the pages it holds plus the page its unfinished `kalloc()` has unlinked. `PoolRefinement` (`Pool!Spec` under that mapping) is checked in KAllocConcurrent. The bookkeeping steps after the release are stuttering steps of the pool.

### `Rand.tla`: `xv6_rand`

TLC's integers are 32-bit signed values, so a 32-bit unsigned word is a pair `<<hi, lo>>` of 16-bit halves:

- `Shl` and `Shr` are the shifts, with the bits shifted past bit 31 lost;
- `XorW` is `^` on both halves (`Bitwise`);
- `XorShift32` is the three statements of `xv6_rand`;
- `ModRandMax` is `x % (2^31 - 1)`, using `2^31 = 1` modulo `2^31 - 1`.

`RefXorShift32` is an independent reference, written over a vector of 32 bits. `RandStep` (in KAllocSingle) checks three things. The step in which a `kalloc()` picks its page changes `rand_seed` by exactly one reference step. That holds even when the division or the walk then faults. No other step changes the seed. So a `kalloc()` that drew twice, or not at all, fails it as well as a wrong shift does.

### `Xfsck.tla` (with `MCXfsck.tla`): the file-system checker

**State.** `img` is the image, fixed by `Init`. `pc` is the check `main()` is at. `status` is `"running"`, the message printed before `exit(1)`, or `"ok"` for `return 0`. `dir_inodes` is the array of directory inodes.

**Image.** An image is a record:

- the superblock;
- the inode table `dip`, where inodes outside its domain are zero;
- the blocks the checks read, each holding directory entries or indirect addresses, with every other block zero;
- the set of blocks marked in the bitmap.

File data is not represented, because no check reads it.

**Steps.** Each check is one action, and its loops with their early exits are quantifiers over the same ranges. Every quirk of the loops is kept:

- blocks at address 0 are read, not skipped;
- check 6 starts at block 29;
- check 7 stops at `nb_inodes`;
- check 12 counts from slot 2 of every block and adds one for the first directory;
- check 8 compares a `uint` with an `int` bound.

`CollectDirs` builds `dir_inodes`. `roundUp` is exact integer arithmetic. The fs.h constants are CONSTANTS with xv6's values.

**Rules.** The second half of the module states what a consistent image is, taken from the comment above each check. The rules are written over the blocks and entries the image really has, not over the loops: `SuperblockOK`, `TypesOK`, `AddressesOK`, `DirsFormatted`, `BitmapCoversUse`, `BitmapOnlyUse`, `DirectOnceOK`, `SizesOK`, `AllReferenced`, `ReferencedInUse`, `LinkCountsOK`, `DirsLinkedOnce` and `ParentsOK`.

**Inputs.** `MCXfsck` gives a small mkfs-like image: 200 inodes, so the data area starts at block 29, and 48 data blocks. It has a root, two directories, a two-block file, and a 13-block file through an indirect block at inode 30. `Corrupted` holds one corruption of each rule, and of some rules two.

### `PageProtection.tla` (with `MCPageProtection.tla`): `mprotect`, `munprotect` and the TLB

**State.**

- `pte[a]`: the flags `P`, `W` and `U` of the entry of page `a` in the caller's page table. The directory is fixed: `PresentPDX` are the slots that hold a page table.
- `tlb[a]`: `<<f>>` when the TLB caches flags `f` for `a`, else `<<>>`.
- `killed`: a user page fault happened, and `trap()` killed the process.
- Two history variables:
  - `want[a]` is what the last call over `a` that returned 0 asked for (`"ro"` or `"rw"`). It is `"any"` before any call, and after a call that returned -1.
  - `wrote` is the page and the outcome of the latest step, if that step was a user write.

**Actions.**

- `mprotect(a, l)` and `munprotect(a, l)` are the whole system call, written as one operator, `ChangeProtection`:
  - an unaligned `addr` or `len <= 0` returns -1;
  - otherwise the loop runs over `addr .. last`;
  - a directory slot without a page table is passed over;
  - the first missing PTE returns -1, after the pages before it were rewritten (`Hole`, `Rewritten`);
  - a present PTE has `W` cleared (`& 0xFFFFFFFD`) or set (`| 2`).

  The TLB is left as it is, as the code leaves it.
- `UserAccess(a, write)` is the processor:
  - it translates through the TLB, else it walks the tables;
  - it caches the flags of an allowed access;
  - a denied access faults and kills the process.
- `Evict(a)` is the TLB dropping an entry.
- `switchuvm` is the process being switched out and back in, which reloads `%cr3` and empties the TLB.

The address space is that of this xv6, whose user memory starts at 0 (`userinit` sets `sz = PGSIZE`). The kernel is mapped one-to-one above user memory with `PTE_W` and without `PTE_U`. `PTE_ADDR(*pde)` is used as a pointer without `P2V`, which is right only under that identity mapping.

### `Sem.tla` (with `MCSem.tla`): semaphores, concurrent threads

**State.**

- The fields `id`, `value` and `used` of `sem_list[s]`.
- The holder of each `splock`, and `num_sem`.
- Per thread: its position `pc` in a call, the call's argument, its `p->state` (`run`) and its `p->chan`.

Every thread runs on its own CPU. The unlocked tests of `sem_init`, `sem_wait` and `sem_post` are steps of their own (`InitCheck`, `WaitCheck`, `PostCheck`), each followed by the locked part:

- `InitScan`: the whole body under `lock_semlist`. It includes `initlock`, which frees `splock` whoever holds it.
- `WaitAcquire`, then `WaitTest`: the loop body. It either takes the count, or sleeps. `sleep` takes `ptable.lock` before it releases `splock`, so the switch to SLEEPING is part of the same step.
- `PostAcquire`, then `PostSignal`: the increment, `wakeup2` and the release.

`Destroy` is `sem_destroy`: its test cannot change before it takes the lock. `release()` of a lock the thread does not hold is a panic.

**Channels.** `sem_wait` sleeps on `&sem`, the address of its own local variable. A channel is therefore the pair `[frame, holds]`. `wakeup2` matches a sleeper by `holds`, the semaphore pointer stored at that address. `wakeup1`'s identity test would compare the frames, which never match.

`MCSem` bounds the counts with a constraint, and the threads are symmetric.

### `TestSem.tla` (with `MCTestSem.tla`): `test-sem.c` on the semaphores

This module composes the test program with `Sem`, which it instantiates (`S == INSTANCE Sem`) with the same variables.

- **Threads.** Copy `c` of the test runs `main()` in thread `<<c, "main">>` and `func()` in `<<c, "func">>`.
- **State added.** `prog` is the line each thread is at. `sem_id` is each copy's global. `printed` is what line 38 printed. `runs` counts how often each shell has started the test.
- **Steps.** A step of the program is a step of `Sem` for that thread, conjoined with the program's own guard. `MainInit`/`MainInitScan` are `sem_init`, which writes `*sem_id`. `MainWait`, `ChildPost` and `MainWaitAgain` are the unlocked tests of `sem_wait`/`sem_post`, with the copy's `sem_id` as argument. `Continue` is the rest of the call under the semaphore's lock. `MainDestroy` is `sem_destroy`. When a call returns, `prog` moves on along `After`. A failed `sem_init` or `thread_create` makes `main` exit, as the program does.
- **The thread library.** `thread_create` and `thread_join` are the user library around `clone()` and `join()`, which is not under `src/`. `thread_create` either starts the thread at `func` or fails; `thread_join` waits until the thread has exited.
- **Reruns.** `Rerun(c)` is the shell running the test again, after both threads have exited. It gets a fresh program image, but the kernel's semaphores are as the last run left them.
- **Not modelled.** `printf` is left out.

`Spec` assumes weak fairness of each copy's steps and of its reruns. That holds because the scheduler runs every RUNNABLE process again (`NoStarvation` of Proc) and a sleeping thread has no step enabled. `TestCompletes` says every run ends with line 38 printing -1. TLC finds it true for one copy. It is false for two copies, and is not checked in any run (see the hazard at `proc.c:1011`):

1. Copy c1 destroys its semaphore, and copy c2's `sem_init` is given the same slot.
2. c1's line 38 waits on c2's semaphore.
3. It takes the count that c2's `func` posted, and c2's main sleeps for good.

## Runs

| Run (cfg) | Expect | Checks | Bounds | Shows |
|---|---|---|---|---|
| ProcLifecycle | pass | TypeOK, NoLostWakeup, ZombieHasLiveParent, LifecycleRefinement | 3 slots, pids ≤ 3, one-tick slices; clone, exit, wait, join, boostproc | The wait/join/exit handshake: no parent sleeps in `wait()` or `join()` beside a zombie it would reap, and orphans (a thread's own threads) go to init, with full-table clones and boostproc's queue damage around it. The deadlock check is off: boostproc really can strand the only other process (ProcBoostLost), after which init sleeps forever. About 271k states. |
| ProcStarvation | pass | NoLostProcess, NoStarvation, LifecycleRefinement | 3 slots, pids ≤ 3, one-tick slices; fork, exit, wait, kill; FairSpec | Without boostproc, no queue entry of a live process is lost, stale entries included. Every RUNNABLE process is eventually run unless `kill(1)` makes init exit (a panic). Promotion fires here and never lifts a process past level 3. About 37k states, a little over 2 minutes. |
| ProcBoostLost | violation | NoLostProcess | 2 slots; fork, wait, boostproc | The child boosts; the scheduler's stale index removes the wrong entry; the child is never run again. |
| ProcStaleEntry | violation | OneEntryAtLevel | 2 slots; fork, exit, wait | After reap and re-fork, one slot has two queue entries (the spec's "exactly one queue"). |
| ProcThreadReap | violation | NoUndefinedBehaviour | 2 slots; clone, exit, wait | init clones a thread, the thread exits, and init's `wait()` reaps it and `freevm`s the page directory init runs on. |
| TestSem | pass | TypeOK, NoLostSemWakeup, ChildFinishesFirst | 2 shells, each running `test-sem` twice; 2 semaphores | Each `main` gets past its `sem_wait` only after its own `func` has posted ("child should finish first"), in every interleaving of both copies. No thread sleeps in `sem_wait` while its semaphore's count is positive, including on reused slots, where two waiters can sleep on one semaphore. Late `sem_init`s fail on `num_sem`. The deadlock check is off: a main can sleep for good on a slot the other copy reused. About 4.9k states. |
| SemLockReset | violation | SemLockExclusive | 2 threads, 2 semaphores | t1 holds semaphore 0's lock in `sem_wait`; t2 destroys and re-inits semaphore 0, and `initlock` frees the lock; t2's `sem_wait` takes it, and both are in the critical section. |
| KAllocSingle | pass | TypeOK, DumpIsRecentHistory, RandStep | 1 thread, 3 pages, history 4, ≤ 5 allocations, 5 initial seeds, 4 dump sizes | Without a concurrent `kalloc`, `dump_allocated` fails exactly when asked for more than were allocated. Otherwise it returns the newest pages, newest first. Every `kalloc` draws exactly once, and each draw is one xorshift32 step of the bit-level reference. About 343k states. |
| KAllocConcurrent | pass | PageOwnership, PoolRefinement | 2 threads, 2 pages, ≤ 4 allocations, 5 initial seeds | The lock-protected unlink never hands a page out twice, whatever the unlocked bookkeeping does, and kalloc/kfree implement `PagePool`. About 89k states. |
| KAllocStaleSize | violation | NoNullDereference | 2 threads | A kalloc reads a stale size and walks off the end of the list. |
| PageProtectStaleTLB | violation | ProtectionTakesEffect | user pages 0 and 4096 mapped, 8192 not; two kernel data pages; two pages above PHYSTOP; addr ∈ {0, 1, 4096, 0x10A000, 0xE000000}, len ∈ {0, 1, 2} | A read of page 0 caches a writable translation; `mprotect(0, 1)` returns 0; the next write to page 0 succeeds. spec.md asks that it fault. |
| XfsckImages | pass | ErrorIsJustified, AcceptedImageSound | 20 images: the good one and 19 single corruptions | Every message xfsck prints names a rule the image really breaks. Every image it accepts keeps the rules of checks 1–5 and 9–12. Five images are accepted: the good one, plus one each that breaks rules 6, 7 and 8 and the parent rule (see below). |

**Why the bounds are enough:**

- Three slots give init a child with a child of its own, which is enough for an exiting parent's zombie to be handed to init, for a parent to sleep while another child runs, and for a reused slot. ProcLifecycle creates processes with `clone` only (`fork` is exercised in ProcStarvation and the violation runs) and uses one-tick slices (`MCUnitLimit`): `fork`, `kill` or the scaled slices each multiply its state space by three or more, and none of its properties reads the slice lengths.
- PageProtectStaleTLB needs one page whose translation is cached before a call. The other inputs (an unaligned address, len 0, a range running into the unmapped page 8192, a range in a directory slot with no page table, kernel pages) exercise every branch of the loop. The run's counterexample is three steps long.
- ProcStarvation has three slots with one-tick slices. A process queued behind newly forked ones waits long enough to be promoted, so demotion, round robin and promotion all happen. With two slots and the scaled slices no process ever waits long enough to be promoted.
- **Starvation freedom has two independent causes in this code.** Each dispatch adds a tick, so a process that keeps running is demoted to level 0, and level 0's round robin (`proc.c:483`) moves it behind the others. Separately, the promotion loop lifts a process that has waited too long. Deleting the promotion loop leaves `NoStarvation` true in ProcStarvation. So does making round robin skip level 0, because promotion then rescues the waiting process. The reason is that the number of processes is bounded: higher-level work comes only from new processes, and each needs a slot some level-0 reaper frees. The mutant that breaks `NoStarvation` scans the levels upwards. That starves a level-3 process until the promotion loop writes `mlfq[4]`.
- Two threads and two pages are enough for every interleaving of two kallocs and a kfree around the unlocked statements. Each violation above is found within 25 states.
- TestSem: two copies with two runs each make four `sem_init`s on two slots. So a slot is reused, a stale id meets a live semaphore, and `num_sem` reaches `NUM_SEMAPHORES` with the slots free. One run per copy already shows the hang.
- xfsck is sequential, and its input is the whole nondeterminism. One corruption per rule makes each check both fail and pass. The image keeps xv6's real sizes: 200 inodes (so the data area starts at 29, where check 6 starts), 12 direct addresses, 128 indirect ones, and 32 entries per block. A corruption that sits in an inode number above 25 or a block above `sb->nblocks` is therefore possible.

**Fairness.** `FairSpec` adds weak fairness on four actions:

- `Dispatch`: `scheduler()` loops forever.
- `Yield`: the timer interrupt always preempts a process that stays in user mode.
- `TrapKilled`: a killed process exits on its next trap.
- `WaitResume`: a woken process that is running continues its `wait()` loop.

The user programs' system calls are not assumed to happen.

**Mutants.** Each property of a passing run is broken by one plausible defect of the code it is about, listed in `PROJECT.json`. The defects are:

- demotion without `lvl > 0`;
- exit without `wakeup1(parent)`;
- exit without re-parenting;
- `sem_wait` looping while `value < 0`;
- `sem_post` waking by channel address (`wakeup`) instead of `wakeup2`;
- `rm_priority` shifting from one entry too late;
- the level loop running upwards (a level-3 process then starves until promotion overflows);
- no bound on `allocated[]`;
- an unlink that leaves the page on the list;
- a middle xorshift shift of 16 instead of 17;
- a size store that drops the page the kalloc unlinked;
- `dump_allocated` testing `numframes >= num_alloc`;
- check 12 counting from slot 1;
- check 4 without its test that "." names the directory;
- `wait()` sleeping without testing `havekids`;
- `kill()` making its target RUNNABLE whatever its state.

Some defects have no run of their own because another run already shows their root cause:

- `rm_priority` on an emptied level makes `mlfq_size = -1` (NoUndefinedBehaviour). The cause is the stale index of ProcBoostLost, and ProcLifecycle reaches this state.
- The lost updates of `size_freelist` (SizeMatchesFreeList) and of the history (HistoryRecordsAllocations) come from the same unlocked bookkeeping as KAllocStaleSize. With two threads both invariants fail within 13 states. spec.md says the counts hold under any interleaving. With one thread they only restate the paired `-= 1` and `+= 1`, so no run checks them. Each needs a violation run, and every violation slot is taken.
- The overflow of `allocated[]` (HistoryInBounds) is reached by KAllocSingle's fifth allocation.
- `kill(0)` matches a free slot, whose pid is 0, and the flag survives until `allocproc` hands the slot to the next child (NoKilledFreeSlot, two steps with `Calls = {fork, kill}`). Its run gave its place to PageProtectStaleTLB.
- `kalloc()` on an empty free list computes `xv6_rand() % 0`. The comment and the spec say it returns 0 instead. `KAlloc` takes this step to `halt = "divide error"`, but no run checks it any more: the run gave its place to the xfsck model.

**What xfsck lets through.** XfsckImages includes four corrupt images that `xfsck` returns 0 on. `AcceptedImageSound` leaves out their rules for that reason:

- **Rule 6.** A block marked past `sb->nblocks` and used by nothing (block 60). Check 6 scans blocks `29 .. sb->nblocks-1`, but the data area runs to `ib_end`.
- **Rule 7.** Inode 30 sharing block 30 with inode 2. Check 7 compares only with inodes below `nb_inodes` (25), which is the number of inode blocks, not of inodes.
- **Rule 8.** A two-block file of exactly 512 bytes. Check 8 accepts `size = (b-1)*BSIZE`.
- **Parent rule.** A directory whose `..` names itself. The extra check finds the directory's own `.` entry.

Check 12 also skips slots 0 and 1 of a directory's second block. A directory of more than 32 entries can therefore make it reject a good image. The images here have one-block directories, so `ErrorIsJustified` does not meet that case. These are listed as hazards in `PROJECT.json`.

## Not modelled yet, and the plan

Later work adds, in this order:

1. **Sem, continued.** `kill` waking a `sem_wait` sleeper: its loop never tests `p->killed`. The spec's lock order (table lock before a semaphore lock) against the code's order (semaphore lock, then `ptable.lock` inside `sleep`/`wakeup2`). `num_sem` exhaustion, which TestSem reaches, stated as the spec's "fails if the registry is full" in a violation run. The same goes for the two-copy hang of `TestCompletes`, since both need run slots. Before `TestSem`, a free-call run over three threads (SemReuse) checked `NoLostSemWakeup`; it gave its slot to `TestSem`.
2. **A multi-CPU Proc.** Two scheduler loops, `allocproc`'s append after `release(&ptable.lock)`, and `fork`'s unlocked `state = RUNNABLE`.
3. **Liveness of the refinement.** `Lifecycle` with fairness on `Run`, so that its "every RUNNABLE process runs" is implied by `FairSpec`. Today `NoStarvation` states this directly.
4. **xfsck.** Violation runs for the rules xfsck lets through. They need run slots (a 12-run budget), and an image with a two-block directory for check 12.
5. **PageProtection.** A violation run for `mprotect` on a kernel page: the call clears `PTE_W` of the kernel's own mapping, and the next kernel write there panics. Also a thread made by `clone` that shares the page directory on another CPU: its TLB is never shot down.
6. **Operators.** `getprocinfo`'s indexing: entries of different levels overwrite each other.
7. **`dump_allocated` beside `kalloc`.** With two threads a dump can overlap a `kalloc()` and read `num_alloc` mid-update. Checking that needs a statement of the history that allows for a `kalloc()` still in flight.

Out of scope:

- `test-protect.c`: it would compose PageProtection with `fork`, which copies the page table by `copyuvm` in `vm.c`, not under `src/`. Its outcome rests on `wait()` switching the parent out, which empties the TLB before `munprotect`.
- `test-filenum.c`: `open`/`close` live in the file layer outside `src/`, and `getfilenum` only counts.
- `user.h`: declarations only.

- `getfilenum`: a read-only count.
- `xfsck`'s argument handling, `open` and `mmap`: I/O before the first check.
- `xv6_srand`: it has no caller in the repository; its effect, an arbitrary seed, is the choice of `Seeds`.
- `kfree`'s address panic: callers only free pages they own.
