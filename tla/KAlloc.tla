------------------------------- MODULE KAlloc -------------------------------
(***************************************************************************)
(* The physical page allocator of kernel/kalloc.c.                         *)
(*                                                                         *)
(* kmem.freelist is a sequence of page numbers, head first.  Kernel        *)
(* threads call kalloc() and kfree(); interrupts are enabled again after   *)
(* release(&kmem.lock), so a thread can be preempted, or run beside one    *)
(* on another CPU, in the bookkeeping kalloc() does after the release:     *)
(* each of its statements there is a step of its own, and a "+= 1" is a    *)
(* load and a store.  kfree() does all its work under the lock and is one  *)
(* step.  The random index is xv6_rand() % size_freelist, computed by     *)
(* the xorshift generator of kernel/rand.c (module Rand) from rand_seed;   *)
(* the dividend is non-negative, so a negative size gives an index in      *)
(* 0 .. |size_freelist|-1.  How many numbers were drawn before (during     *)
(* boot, by earlier kallocs) is unknown: the initial seed is any of Seeds. *)
(***************************************************************************)
EXTENDS Integers, Sequences, FiniteSets, Rand

LOCAL INSTANCE SequencesExt

CONSTANTS
    Threads,    \* kernel threads that allocate and free pages
    NPAGES,     \* pages between end and PHYSTOP
    HistCap,    \* entries of allocated[] (512 in the code)
    Seeds,      \* values rand_seed can hold when the model starts
    DumpSizes,  \* numframes arguments of dump_allocated()
    NoThread    \* kmem.lock not held

ASSUME /\ NPAGES \in Nat \ {0}
       /\ HistCap \in Nat \ {0}
       /\ NoThread \notin Threads
       /\ Seeds \subseteq Words
       /\ DumpSizes \subseteq Int

Pages  == 1..NPAGES
NoPage == 0                    \* the NULL pointer

VARIABLES
    freelist,   \* kmem.freelist, head first
    size,       \* size_freelist
    allocated,  \* allocated[0 .. HistCap-1]
    numAlloc,   \* num_alloc
    lock,       \* holder of kmem.lock, or NoThread
    tpc,        \* per thread: where it is in kalloc(), or "idle"
    r,          \* per thread: the page kalloc() unlinked
    tmp,        \* per thread: the value loaded by an unfinished "+= 1"
    held,       \* per thread: pages kalloc() returned to it
    halt,       \* "none", or the fault that stopped the kernel
    allocLog,   \* history: pages in the order kalloc() unlinked them
    seed,       \* rand_seed
    dn,         \* per thread: numframes of its unfinished dump_allocated()
    frames,     \* per thread: frames[0 .. i-1] its dump has filled
    dumped      \* per thread: {} or the outcome of its last dump_allocated()

vars == <<freelist, size, allocated, numAlloc, lock, tpc, r, tmp, held,
          halt, allocLog, seed, dn, frames, dumped>>
dumpVars == <<dn, frames, dumped>>

-----------------------------------------------------------------------------
(* kinit(): kfree() of every page in increasing address order, so the      *)
(* highest page is the head.                                               *)
Init ==
    /\ freelist = [i \in 1..NPAGES |-> NPAGES + 1 - i]
    /\ size = NPAGES
    /\ allocated = [i \in 0..(HistCap - 1) |-> NoPage]
    /\ numAlloc = 0
    /\ lock = NoThread
    /\ tpc = [t \in Threads |-> "idle"]
    /\ r = [t \in Threads |-> NoPage]
    /\ tmp = [t \in Threads |-> 0]
    /\ held = [t \in Threads |-> {}]
    /\ halt = "none"
    /\ allocLog = <<>>
    /\ seed \in Seeds
    /\ dn = [t \in Threads |-> 0]
    /\ frames = [t \in Threads |-> <<>>]
    /\ dumped = [t \in Threads |-> {}]

Running(t) == halt = "none" /\ tpc[t] # "idle"

(* kalloc(): acquire(&kmem.lock).                                          *)
AllocAcquire(t) ==
    /\ halt = "none"
    /\ tpc[t] = "idle"
    /\ lock = NoThread
    /\ lock' = t
    /\ tpc' = [tpc EXCEPT ![t] = "pick"]
    /\ UNCHANGED <<freelist, size, allocated, numAlloc, r, tmp, held, halt,
                   allocLog, seed, dumpVars>>

(* Mutant: the unlink sets r_prev->next = r, leaving the page on the list. *)
AllocPickKeepsPage(t) ==
    /\ Running(t)
    /\ tpc[t] = "pick"
    /\ IF size = 0
       THEN /\ halt' = "divide error"
            /\ UNCHANGED <<freelist, tpc, r, lock, allocLog>>
       ELSE LET rd == XV6Rand(seed) % (IF size > 0 THEN size ELSE -size) IN
              IF rd >= Len(freelist)
              THEN /\ halt' = "NULL dereference"
                   /\ UNCHANGED <<freelist, tpc, r, lock, allocLog>>
              ELSE LET page == freelist[rd + 1] IN
                   /\ freelist' = IF rd = 0 THEN Tail(freelist) ELSE freelist
                   /\ r' = [r EXCEPT ![t] = page]
                   /\ allocLog' = Append(allocLog, page)
                   /\ lock' = NoThread
                   /\ tpc' = [tpc EXCEPT ![t] = "history"]
                   /\ UNCHANGED halt
    /\ seed' = XorShift32(seed)
    /\ UNCHANGED <<size, allocated, numAlloc, tmp, held, dumpVars>>

(* kalloc() under the lock: rd = xv6_rand() % size_freelist, walk rd      *)
(* links from the head and unlink that page, then release the lock.  A     *)
(* zero size_freelist is a divide error; a walk past the last page         *)
(* dereferences NULL.                                                      *)
AllocPick(t) ==
    /\ Running(t)
    /\ tpc[t] = "pick"
    /\ IF size = 0
       THEN /\ halt' = "divide error"
            /\ UNCHANGED <<freelist, tpc, r, lock, allocLog>>
       ELSE LET rd == XV6Rand(seed) % (IF size > 0 THEN size ELSE -size) IN
              IF rd >= Len(freelist)
              THEN /\ halt' = "NULL dereference"
                   /\ UNCHANGED <<freelist, tpc, r, lock, allocLog>>
              ELSE LET page == freelist[rd + 1] IN
                   /\ freelist' = SubSeq(freelist, 1, rd)
                                  \o SubSeq(freelist, rd + 2, Len(freelist))
                   /\ r' = [r EXCEPT ![t] = page]
                   /\ allocLog' = Append(allocLog, page)
                   /\ lock' = NoThread
                   /\ tpc' = [tpc EXCEPT ![t] = "history"]
                   /\ UNCHANGED halt
    /\ seed' = XorShift32(seed)
    /\ UNCHANGED <<size, allocated, numAlloc, tmp, held, dumpVars>>

(* Mutant: the write to allocated[num_alloc] is not kept inside the array; *)
(* num_alloc runs past its size.                                           *)
AllocHistoryUnchecked(t) ==
    /\ Running(t)
    /\ tpc[t] = "history"
    /\ allocated' = [i \in DOMAIN allocated |->
                       IF i = numAlloc THEN r[t] ELSE allocated[i]]
    /\ tmp' = [tmp EXCEPT ![t] = numAlloc]
    /\ tpc' = [tpc EXCEPT ![t] = "count"]
    /\ UNCHANGED <<freelist, size, numAlloc, lock, r, held, halt, allocLog, seed, dumpVars>>

(* allocated[num_alloc] = r; num_alloc is loaded once for the index and    *)
(* the increment that follows.                                             *)
AllocHistory(t) ==
    /\ Running(t)
    /\ tpc[t] = "history"
    /\ IF numAlloc >= HistCap
       THEN /\ halt' = "allocated[] overflow"
            /\ UNCHANGED <<allocated, tmp, tpc>>
       ELSE /\ allocated' = [allocated EXCEPT ![numAlloc] = r[t]]
            /\ tmp' = [tmp EXCEPT ![t] = numAlloc]
            /\ tpc' = [tpc EXCEPT ![t] = "count"]
            /\ UNCHANGED halt
    /\ UNCHANGED <<freelist, size, numAlloc, lock, r, held, allocLog, seed, dumpVars>>

(* num_alloc += 1, storing the value loaded above plus one.                *)
AllocCount(t) ==
    /\ Running(t)
    /\ tpc[t] = "count"
    /\ numAlloc' = tmp[t] + 1
    /\ tpc' = [tpc EXCEPT ![t] = "load size"]
    /\ UNCHANGED <<freelist, size, allocated, lock, r, tmp, held, halt,
                   allocLog, seed, dumpVars>>

(* size_freelist -= 1: the load ...                                        *)
AllocLoadSize(t) ==
    /\ Running(t)
    /\ tpc[t] = "load size"
    /\ tmp' = [tmp EXCEPT ![t] = size]
    /\ tpc' = [tpc EXCEPT ![t] = "store size"]
    /\ UNCHANGED <<freelist, size, allocated, numAlloc, lock, r, held,
                   halt, allocLog, seed, dumpVars>>

(* Mutant: kalloc() returns 0 instead of r.                              *)
AllocStoreSizeLosesPage(t) ==
    /\ Running(t)
    /\ tpc[t] = "store size"
    /\ size' = tmp[t] - 1
    /\ tpc' = [tpc EXCEPT ![t] = "idle"]
    /\ r' = [r EXCEPT ![t] = NoPage]
    /\ UNCHANGED <<freelist, allocated, numAlloc, lock, tmp, halt,
                   allocLog, seed, held, dumpVars>>

(* ... and the store; kalloc() returns r.                                  *)
AllocStoreSize(t) ==
    /\ Running(t)
    /\ tpc[t] = "store size"
    /\ size' = tmp[t] - 1
    /\ held' = [held EXCEPT ![t] = @ \cup {r[t]}]
    /\ tpc' = [tpc EXCEPT ![t] = "idle"]
    /\ r' = [r EXCEPT ![t] = NoPage]
    /\ UNCHANGED <<freelist, allocated, numAlloc, lock, tmp, halt,
                   allocLog, seed, dumpVars>>

(* kfree(v) of a page the thread holds: fill it with junk, then under the  *)
(* lock push it at the head and count it.                                  *)
Free(t) ==
    /\ halt = "none"
    /\ tpc[t] = "idle"
    /\ lock = NoThread
    /\ \E v \in held[t] :
         /\ freelist' = <<v>> \o freelist
         /\ size' = size + 1
         /\ held' = [held EXCEPT ![t] = @ \ {v}]
    /\ UNCHANGED <<allocated, numAlloc, lock, tpc, r, tmp, halt,
                   allocLog, seed, dumpVars>>

(* dump_allocated(frames, numframes), as a system call on a CPU beside the *)
(* allocator: no lock is taken.  numframes > num_alloc returns -1 at once. *)
(* Mutant: the test is numframes >= num_alloc.                             *)
DumpStartRejectsAll(t, n) ==
    /\ halt = "none"
    /\ tpc[t] = "idle"
    /\ IF n >= numAlloc
       THEN /\ dumped' = [dumped EXCEPT ![t] =
                          {[n |-> n, ret |-> -1, frames |-> <<>>, len |-> Len(allocLog)]}]
            /\ UNCHANGED <<tpc, dn, frames>>
       ELSE /\ tpc' = [tpc EXCEPT ![t] = "dump"]
            /\ dn' = [dn EXCEPT ![t] = n]
            /\ frames' = [frames EXCEPT ![t] = <<>>]
            /\ UNCHANGED dumped
    /\ UNCHANGED <<freelist, size, allocated, numAlloc, lock, r, tmp, held,
                   halt, allocLog, seed>>

DumpStart(t, n) ==
    /\ halt = "none"
    /\ tpc[t] = "idle"
    /\ IF n > numAlloc
       THEN /\ dumped' = [dumped EXCEPT ![t] =
                          {[n |-> n, ret |-> -1, frames |-> <<>>, len |-> Len(allocLog)]}]
            /\ UNCHANGED <<tpc, dn, frames>>
       ELSE /\ tpc' = [tpc EXCEPT ![t] = "dump"]
            /\ dn' = [dn EXCEPT ![t] = n]
            /\ frames' = [frames EXCEPT ![t] = <<>>]
            /\ UNCHANGED dumped
    /\ UNCHANGED <<freelist, size, allocated, numAlloc, lock, r, tmp, held,
                   halt, allocLog, seed>>

(* One pass of the loop, frames[i] = allocated[num_alloc-1-i]: num_alloc   *)
(* is read again on every pass.  After the last pass it returns 0.         *)
DumpStep(t) ==
    /\ Running(t)
    /\ tpc[t] = "dump"
    /\ LET i == Len(frames[t]) IN
         IF i < dn[t]
         THEN /\ frames' = [frames EXCEPT ![t] = Append(@, allocated[numAlloc - 1 - i])]
              /\ UNCHANGED <<tpc, dumped>>
         ELSE /\ dumped' = [dumped EXCEPT ![t] =
                             {[n |-> dn[t], ret |-> 0, frames |-> frames[t],
                               len |-> Len(allocLog)]}]
              /\ tpc' = [tpc EXCEPT ![t] = "idle"]
              /\ UNCHANGED frames
    /\ UNCHANGED <<freelist, size, allocated, numAlloc, lock, r, tmp, held,
                   halt, allocLog, seed, dn>>

(* panic(), or a fault in the kernel: it stops.                            *)
Halted == halt # "none" /\ UNCHANGED vars

Next ==
    \/ \E t \in Threads :
         \/ AllocAcquire(t) \/ AllocPick(t) \/ AllocHistory(t)
         \/ AllocCount(t) \/ AllocLoadSize(t) \/ AllocStoreSize(t) \/ Free(t)
         \/ \E n \in DumpSizes : DumpStart(t, n)
         \/ DumpStep(t)
    \/ Halted

Spec == Init /\ [][Next]_vars

-----------------------------------------------------------------------------
TypeOK ==
    /\ freelist \in Seq(Pages)
    /\ size \in Int
    /\ allocated \in [0..(HistCap - 1) -> Pages \cup {NoPage}]
    /\ numAlloc \in 0..HistCap
    /\ lock \in Threads \cup {NoThread}
    /\ tpc \in [Threads -> {"idle", "pick", "history", "count", "load size",
                            "store size", "dump"}]
    /\ r \in [Threads -> Pages \cup {NoPage}]
    /\ held \in [Threads -> SUBSET Pages]
    /\ frames \in [Threads -> Seq(Pages \cup {NoPage})]

Quiescent == \A t \in Threads : tpc[t] \in {"idle", "dump"}
InFlight == {u \in Threads : tpc[u] \notin {"idle", "pick", "dump"}}

(* No page is handed out twice: every page is exactly once in the free     *)
(* list, or held by exactly one thread, or being returned by exactly one   *)
(* kalloc().  The unlink under kmem.lock keeps this even when the          *)
(* unlocked size_freelist is stale.                                        *)
PageOwnership ==
    LET owners(pg) == Cardinality({i \in 1..Len(freelist) : freelist[i] = pg})
                      + Cardinality({t \in Threads : pg \in held[t]})
                      + Cardinality({t \in InFlight : r[t] = pg})
    IN \A pg \in Pages : owners(pg) = 1

(* size_freelist counts the free list: whenever no kalloc() is part-way    *)
(* through its bookkeeping, it equals the length of kmem.freelist.  With   *)
(* two threads the unlocked "size_freelist -= 1" loses updates and this    *)
(* fails (README); no run checks it.                                       *)
SizeMatchesFreeList == Quiescent => size = Len(freelist)

(* dump_allocated() reports the allocations made: whenever no kalloc() is  *)
(* part-way through, allocated[0 .. num_alloc-1] is exactly the pages      *)
(* kalloc() unlinked, in the order it unlinked them.  With two threads the *)
(* unlocked history write loses entries and this fails; no run checks it.  *)
HistoryRecordsAllocations ==
    (Quiescent /\ halt = "none") =>
        /\ numAlloc = Len(allocLog)
        /\ \A i \in 0..(numAlloc - 1) : allocated[i] = allocLog[i + 1]

(* spec.md: history(n) returns the n most recent allocations in strict    *)
(* reverse order, and fails when n exceeds the allocations ever made.      *)
(* Every dump_allocated() that returned failed exactly when numframes      *)
(* exceeded the number of kalloc() calls before it, and otherwise filled   *)
(* frames with the pages of the last numframes of them, newest first.      *)
DumpIsRecentHistory ==
    \A t \in Threads : \A d \in dumped[t] :
        /\ d.ret = -1 <=> d.n > d.len
        /\ d.ret = 0 => d.frames = Reverse(SubSeq(allocLog, d.len - d.n + 1, d.len))

(* The history is bounded: once allocated[] is full the oldest entries are *)
(* lost (the spec), never written past its end.                            *)
HistoryInBounds == halt # "allocated[] overflow"

(* The walk of rd links from the head of kmem.freelist stays on the list:  *)
(* rd = xv6_rand() % size_freelist is below the number of free pages, so   *)
(* r never becomes NULL before it is unlinked.                             *)
NoNullDereference == halt # "NULL dereference"

(* A thread's step out of the pick stage of kalloc(), which calls        *)
(* xv6_rand() once, also when the division or the walk then faults.        *)
Drew == \E t \in Threads : tpc[t] = "pick" /\ (tpc'[t] # "pick" \/ halt' # halt)

(* xv6_rand() is called exactly once per kalloc(), in the step that picks  *)
(* the page, and rand_seed changes nowhere else; the new seed is one step  *)
(* of Marsaglia's xorshift on a 32-bit unsigned word (the reference, bit   *)
(* by bit), so no bit shifted past bit 31 survives.  A kalloc() that drew  *)
(* twice, or not at all, or another step that touched the seed, fails it.  *)
RandStep == [][IF Drew THEN seed' = RefXorShift32(seed) ELSE seed' = seed]_vars

(* The refinement mapping: the pages on kmem.freelist are the free pages,  *)
(* and a thread owns the pages kalloc() returned to it and the page its    *)
(* unfinished kalloc() has unlinked.                                       *)
FreePages == {freelist[i] : i \in 1..Len(freelist)}
OwnedPages == [t \in Threads |-> held[t] \cup (IF t \in InFlight THEN {r[t]} ELSE {})]
Pool == INSTANCE PagePool WITH Owners <- Threads, free <- FreePages,
                               owned <- OwnedPages

(* kalloc() and kfree(), with kalloc()'s bookkeeping after the release     *)
(* interleaved as it may be, implement the page pool: each step either     *)
(* moves one free page to the thread whose kalloc() unlinked it, or moves  *)
(* a page the thread owns back to the free list, or leaves both alone.     *)
PoolRefinement == Pool!Spec
=============================================================================
