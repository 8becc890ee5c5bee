-------------------------------- MODULE Sem ---------------------------------
(***************************************************************************)
(* The counting semaphores of kernel/proc.c: sem_init, sem_wait, sem_post  *)
(* and sem_destroy over sem_list[NUM_SEMAPHORES], with sleep() and         *)
(* wakeup2().                                                              *)
(*                                                                         *)
(* Threads run on their own CPUs.  A step is what a thread does between    *)
(* two points where another thread can observe or change the shared        *)
(* state.  The tests of sem->id and sem->used are made before any lock is  *)
(* taken, so each is a step of its own.  Work done under lock_semlist is   *)
(* one step, because only sem_init and sem_destroy take that lock and      *)
(* each does all its work inside it.  sem->splock is a variable:           *)
(* sem_init's initlock() can reset it while a thread holds it.             *)
(*                                                                         *)
(* sem_wait sleeps on &sem, the address of its own local variable that     *)
(* holds the semaphore pointer.  A channel is therefore the pair           *)
(* [frame |-> thread, holds |-> semaphore].  wakeup2() compares the words  *)
(* the channels point to; wakeup1() would compare the addresses.           *)
(***************************************************************************)
EXTENDS Integers, FiniteSets

CONSTANTS
    Threads,    \* processes making semaphore calls
    NSEM,       \* NUM_SEMAPHORES
    Counts,     \* initial counts passed to sem_init
    Calls,      \* the semaphore calls the programs make
    NoThread    \* a free spinlock

SemIds == 0..(NSEM - 1)
AllCalls == {"init", "wait", "post", "destroy"}
NoChan == [frame |-> NoThread, holds |-> -1]

ASSUME /\ NSEM \in Nat \ {0}
       /\ Counts \subseteq Nat
       /\ Calls \subseteq AllCalls
       /\ NoThread \notin Threads

VARIABLES
    semId,      \* sem_list[s].id
    value,      \* sem_list[s].value
    used,       \* sem_list[s].used
    splock,     \* holder of sem_list[s].splock, or NoThread
    numSem,     \* num_sem
    pc,         \* per thread: where it is in a semaphore call, or "idle"
    arg,        \* per thread: the sem_id (or count) of the current call
    run,        \* per thread: "RUNNING" or "SLEEPING" (p->state)
    chan,       \* per thread: p->chan
    halt        \* "none", or the panic that stopped the kernel

vars == <<semId, value, used, splock, numSem, pc, arg, run, chan, halt>>

-----------------------------------------------------------------------------
(* sem_list is a zero-initialised global.                                  *)
Init ==
    /\ semId = [s \in SemIds |-> 0]
    /\ value = [s \in SemIds |-> 0]
    /\ used = [s \in SemIds |-> 0]
    /\ splock = [s \in SemIds |-> NoThread]
    /\ numSem = 0
    /\ pc = [t \in Threads |-> "idle"]
    /\ arg = [t \in Threads |-> 0]
    /\ run = [t \in Threads |-> "RUNNING"]
    /\ chan = [t \in Threads |-> NoChan]
    /\ halt = "none"

Ready(t) == halt = "none" /\ run[t] = "RUNNING"

(* The test "sem->id == sem_id && sem->used == 1" of sem_wait and sem_post.*)
Live(s) == semId[s] = s /\ used[s] = 1

(* release(&sem->splock): release() panics unless the caller holds it.    *)
Release(t, s) ==
    IF splock[s] = t
    THEN /\ splock' = [splock EXCEPT ![s] = NoThread]
         /\ UNCHANGED halt
    ELSE /\ halt' = "release"
         /\ UNCHANGED splock

Return(t) == pc' = [pc EXCEPT ![t] = "idle"]

(* sem_init: the unlocked test of num_sem.                                 *)
InitCheck(t) ==
    /\ "init" \in Calls
    /\ Ready(t) /\ pc[t] = "idle"
    /\ \E c \in Counts :
         /\ arg' = [arg EXCEPT ![t] = c]
         /\ pc' = [pc EXCEPT ![t] = IF numSem >= NSEM THEN "idle" ELSE "init"]
    /\ UNCHANGED <<semId, value, used, splock, numSem, run, chan, halt>>

(* sem_init under lock_semlist: take the first unused semaphore, set it up *)
(* (initlock() makes its lock free) and count it in num_sem.               *)
InitScan(t) ==
    /\ Ready(t) /\ pc[t] = "init"
    /\ LET free == {s \in SemIds : used[s] = 0}
           s == CHOOSE x \in free : \A y \in free : x <= y
       IN IF free = {}
          THEN UNCHANGED <<semId, value, used, splock, numSem>>
          ELSE /\ semId' = [semId EXCEPT ![s] = s]
               /\ value' = [value EXCEPT ![s] = arg[t]]
               /\ used' = [used EXCEPT ![s] = 1]
               /\ splock' = [splock EXCEPT ![s] = NoThread]
               /\ numSem' = numSem + 1
    /\ Return(t)
    /\ UNCHANGED <<arg, run, chan, halt>>

(* sem_wait and sem_post: the unlocked test of the semaphore.              *)
Check(t, call, next) ==
    /\ call \in Calls
    /\ Ready(t) /\ pc[t] = "idle"
    /\ \E s \in SemIds :
         /\ arg' = [arg EXCEPT ![t] = s]
         /\ pc' = [pc EXCEPT ![t] = IF Live(s) THEN next ELSE "idle"]
    /\ UNCHANGED <<semId, value, used, splock, numSem, run, chan, halt>>

WaitCheck(t) == Check(t, "wait", "wait acquire")
PostCheck(t) == Check(t, "post", "post acquire")

(* acquire(&sem->splock), first in sem_wait and again in sleep() after a   *)
(* wakeup, when sleep() has cleared p->chan.                               *)
Acquire(t, from, to) ==
    /\ Ready(t) /\ pc[t] = from
    /\ splock[arg[t]] = NoThread
    /\ splock' = [splock EXCEPT ![arg[t]] = t]
    /\ pc' = [pc EXCEPT ![t] = to]
    /\ chan' = [chan EXCEPT ![t] = NoChan]
    /\ UNCHANGED <<semId, value, used, numSem, arg, run, halt>>

WaitAcquire(t) == Acquire(t, "wait acquire", "wait test")
PostAcquire(t) == Acquire(t, "post acquire", "post")

(* Mutant: the loop runs while value < 0, so a zero count is taken.        *)
WaitTestBelowZero(t) ==
    LET s == arg[t] IN
    /\ Ready(t) /\ pc[t] = "wait test"
    /\ IF value[s] >= 0
       THEN /\ value' = [value EXCEPT ![s] = @ - 1]
            /\ Release(t, s)
            /\ Return(t)
            /\ UNCHANGED <<run, chan>>
       ELSE /\ Release(t, s)
            /\ run' = [run EXCEPT ![t] = "SLEEPING"]
            /\ chan' = [chan EXCEPT ![t] = [frame |-> t, holds |-> s]]
            /\ pc' = [pc EXCEPT ![t] = "wait acquire"]
            /\ UNCHANGED value
    /\ UNCHANGED <<semId, used, numSem, arg>>

(* sem_wait's loop under the lock: take a positive count and release; or  *)
(* sleep(&sem, &sem->splock), which takes ptable.lock before it releases   *)
(* the semaphore lock, so no wakeup2 can run until the thread sleeps.      *)
WaitTest(t) ==
    LET s == arg[t] IN
    /\ Ready(t) /\ pc[t] = "wait test"
    /\ IF value[s] > 0
       THEN /\ value' = [value EXCEPT ![s] = @ - 1]
            /\ Release(t, s)
            /\ Return(t)
            /\ UNCHANGED <<run, chan>>
       ELSE /\ Release(t, s)
            /\ run' = [run EXCEPT ![t] = "SLEEPING"]
            /\ chan' = [chan EXCEPT ![t] = [frame |-> t, holds |-> s]]
            /\ pc' = [pc EXCEPT ![t] = "wait acquire"]
            /\ UNCHANGED value
    /\ UNCHANGED <<semId, used, numSem, arg>>

(* wakeup2(&sem): under ptable.lock, every SLEEPING thread whose channel   *)
(* holds the same semaphore pointer becomes RUNNABLE.                      *)
Wakeup2(s) ==
    [u \in Threads |-> IF run[u] = "SLEEPING" /\ chan[u].holds = s
                       THEN "RUNNING" ELSE run[u]]

(* Mutant: sem_post calls wakeup(&sem), which compares channel addresses.  *)
PostWakeupByAddress(t) ==
    LET s == arg[t]
        mine == [frame |-> t, holds |-> s]
    IN /\ Ready(t) /\ pc[t] = "post"
       /\ value' = [value EXCEPT ![s] = @ + 1]
       /\ run' = [u \in Threads |->
                    IF run[u] = "SLEEPING" /\ chan[u] = mine
                    THEN "RUNNING" ELSE run[u]]
       /\ Release(t, s)
       /\ Return(t)
       /\ UNCHANGED <<semId, used, numSem, arg, chan>>

(* sem_post under the lock: count the post, wakeup2(&sem), release.        *)
PostSignal(t) ==
    LET s == arg[t] IN
    /\ Ready(t) /\ pc[t] = "post"
    /\ value' = [value EXCEPT ![s] = @ + 1]
    /\ run' = Wakeup2(s)
    /\ Release(t, s)
    /\ Return(t)
    /\ UNCHANGED <<semId, used, numSem, arg, chan>>

(* sem_destroy: the unlocked test of sem->id, then under lock_semlist      *)
(* used = 0.  The test cannot change between the two (sem->id of slot s is *)
(* only ever 0 or s), so they are one step.  num_sem is not decremented    *)
(* and waiters are not woken.                                              *)
Destroy(t) ==
    /\ "destroy" \in Calls
    /\ Ready(t) /\ pc[t] = "idle"
    /\ \E s \in SemIds :
         /\ arg' = [arg EXCEPT ![t] = s]
         /\ used' = IF semId[s] = s THEN [used EXCEPT ![s] = 0] ELSE used
    /\ UNCHANGED <<semId, value, splock, numSem, pc, run, chan, halt>>

(* panic(): the kernel stops here.                                          *)
Halted == halt # "none" /\ UNCHANGED vars

Next ==
    \/ \E t \in Threads :
         \/ InitCheck(t) \/ InitScan(t) \/ WaitCheck(t) \/ PostCheck(t)
         \/ WaitAcquire(t) \/ PostAcquire(t) \/ WaitTest(t) \/ PostSignal(t)
         \/ Destroy(t)
    \/ Halted

Spec == Init /\ [][Next]_vars

-----------------------------------------------------------------------------
TypeOK ==
    /\ semId \in [SemIds -> SemIds]
    /\ value \in [SemIds -> Nat]
    /\ used \in [SemIds -> {0, 1}]
    /\ splock \in [SemIds -> Threads \cup {NoThread}]
    /\ numSem \in Nat
    /\ pc \in [Threads -> {"idle", "init", "wait acquire", "wait test",
                           "post acquire", "post"}]
    /\ run \in [Threads -> {"RUNNING", "SLEEPING"}]
    /\ chan \in [Threads -> [frame : Threads \cup {NoThread},
                             holds : SemIds \cup {-1}]]

(* No lost wakeup in sem_wait/sem_post: a thread never sleeps in         *)
(* sem_wait on a semaphore whose count is positive.  This needs sleep() to *)
(* take ptable.lock before it drops the semaphore lock, and wakeup2() to   *)
(* match the sleeper's channel by the semaphore it holds.                  *)
NoLostSemWakeup ==
    \A t \in Threads : run[t] = "SLEEPING" => value[chan[t].holds] <= 0

(* The semaphore's lock gives mutual exclusion: at most one thread at a    *)
(* time is inside the critical section of sem_wait or sem_post on a        *)
(* semaphore.                                                              *)
SemLockExclusive ==
    \A s \in SemIds :
      Cardinality({t \in Threads : pc[t] \in {"wait test", "post"}
                                   /\ arg[t] = s}) <= 1
=============================================================================
