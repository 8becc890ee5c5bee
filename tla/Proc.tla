-------------------------------- MODULE Proc --------------------------------
(***************************************************************************)
(* The process table and the MLFQ scheduler of kernel/proc.c, on one CPU.  *)
(*                                                                         *)
(* ptable.proc[] is a function from slots 1..NPROC to the fields the       *)
(* scheduler and the lifecycle calls read and write; mlfq[lvl] with        *)
(* mlfq_size[lvl] is the sequence mlfq[lvl] of slot numbers (a struct proc *)
(* pointer is its slot).  The scheduler's bookkeeping runs under           *)
(* ptable.lock from the moment the running process calls sched() to the    *)
(* end of the pass, so a process's switch-out and the scheduler's          *)
(* demotion, round-robin and promotion code form one action.  The system   *)
(* calls of the running process are atomic: on one CPU nothing else        *)
(* touches the table while they run.                                       *)
(***************************************************************************)
EXTENDS Integers, SequencesExt, FiniteSets

CONSTANTS
    NPROC,          \* slots of ptable.proc
    LimitTotal,     \* limit_total[lvl]: run ticks before demotion
    LimitRR,        \* limit_rr[lvl]: round-robin slice
    StarveFactor,   \* the 10 of "10 * limit_total" in the promotion check
    MaxPid,         \* bound: no fork once nextpid exceeds it
    Calls           \* the system calls the user programs make

Layers == 0..3                 \* NLAYER = 4, 3 is the highest priority
Slot   == 1..NPROC
NoProc == 0                    \* the NULL struct proc pointer
States == {"UNUSED", "EMBRYO", "SLEEPING", "RUNNABLE", "RUNNING", "ZOMBIE"}
AllCalls == {"fork", "clone", "exit", "wait", "join", "kill", "boostproc"}

ASSUME /\ NPROC \in Nat \ {0}
       /\ LimitTotal \in [Layers -> Nat \ {0}]
       /\ LimitRR \in [Layers -> Nat \ {0}]
       /\ StarveFactor \in Nat \ {0}
       /\ MaxPid \in Nat \ {0}
       /\ Calls \subseteq AllCalls

VARIABLES
    state,      \* p->state
    pid,        \* p->pid
    parent,     \* p->parent (a slot, or NoProc)
    killed,     \* p->killed
    level,      \* p->level
    ticks,      \* p->ticks_curr
    waits,      \* p->wait_ticks_curr
    chan,       \* p->chan: the slot slept on in wait(), or NoProc
    pc,         \* where the process resumes: "user", or inside "wait"
    mlfq,       \* mlfq[lvl][0 .. mlfq_size[lvl]-1]
    nextpid,    \* nextpid
    cur,        \* proc: the process the CPU runs, or NoProc
    at,         \* <<lvl, i>> of the scheduler's loop while cur runs
    halt,       \* "none", or the panic / undefined behaviour that stopped the kernel
    pgdir       \* p->pgdir: an address space, named by the pid that created it

vars == <<state, pid, parent, killed, level, ticks, waits, chan, pc, mlfq,
          nextpid, cur, at, halt, pgdir>>

-----------------------------------------------------------------------------
(* ticks_curr is only compared with limit_total[] and taken modulo         *)
(* limit_rr[]; once it reaches TicksCap it is kept below TicksCap + Period,*)
(* which leaves every such comparison and remainder unchanged.  waits is   *)
(* only compared with StarveFactor * limit_total[], so it saturates.       *)
TicksCap == Max({LimitTotal[l] : l \in Layers})
Period   == CHOOSE n \in 1..(LimitRR[0] * LimitRR[1] * LimitRR[2] * LimitRR[3]) :
                /\ \A l \in Layers : n % LimitRR[l] = 0
                /\ \A m \in 1..(n - 1) : \E l \in Layers : m % LimitRR[l] # 0
Tick(v)  == IF v + 1 >= TicksCap + Period THEN v + 1 - Period ELSE v + 1
WaitCap  == StarveFactor * TicksCap
Wait1(v) == IF v >= WaitCap THEN v ELSE v + 1

InQueue(s) == \E l \in Layers : Contains(mlfq[l], s)

(* The scheduler-owned part of the state, threaded through the pass.       *)
Sched == [mlfq |-> mlfq, ticks |-> ticks, waits |-> waits, level |-> level,
          halt |-> halt]

(* Mutant: the shift starts one entry late, removing the entry after      *)
(* index instead of the one at index.                                      *)
RmPriorityOffByOne(st, l, i) ==
    IF st.mlfq[l] = <<>>
    THEN [st EXCEPT !.halt = "mlfq_size below zero"]
    ELSE IF i + 1 < Len(st.mlfq[l])
         THEN [st EXCEPT !.mlfq[l] = RemoveAt(@, i + 2)]
         ELSE [st EXCEPT !.mlfq[l] = Front(@)]

(* rm_priority(level, index): shift the entries after index down by one    *)
(* and decrement mlfq_size.  When index >= mlfq_size the shift loop is     *)
(* empty and only the size drops, losing the last entry; on an empty queue *)
(* mlfq_size becomes -1 and the next append writes mlfq[level][-1].        *)
RmPriority(st, l, i) ==
    IF st.mlfq[l] = <<>>
    THEN [st EXCEPT !.halt = "mlfq_size below zero"]
    ELSE IF i < Len(st.mlfq[l])
         THEN [st EXCEPT !.mlfq[l] = RemoveAt(@, i + 1)]
         ELSE [st EXCEPT !.mlfq[l] = Front(@)]

AddTo(st, l, p) == [st EXCEPT !.mlfq[l] = Append(@, p)]

Continue(st, Op(_)) == IF st.halt = "none" THEN Op(st) ELSE st

(* The promotion loop of scheduler(): every queue entry, highest level     *)
(* first, whose process has waited StarveFactor * limit_total[its level]   *)
(* is moved to the tail of lvl+1.  i still advances after the removal, so  *)
(* the entry shifted into position i is not examined in this pass.  Level  *)
(* 3 is not skipped: mlfq[4] and limit_total[4] are outside their arrays.  *)
RECURSIVE Promote(_, _, _)
Promote(st, l, i) ==
    IF l < 0 \/ st.halt # "none" THEN st
    ELSE IF i >= Len(st.mlfq[l]) THEN Promote(st, l - 1, 0)
    ELSE LET p == st.mlfq[l][i + 1] IN
         IF st.waits[p] < StarveFactor * LimitTotal[st.level[p]]
         THEN Promote(st, l, i + 1)
         ELSE IF l = 3 \/ st.level[p] = 3
         THEN [st EXCEPT !.halt = "promotion past level 3"]
         ELSE LET moved == AddTo(RmPriority(st, l, i), l + 1, p)
              IN Promote([moved EXCEPT !.ticks[p] = 0, !.waits[p] = 0,
                                       !.level[p] = @ + 1], l, i + 1)

(* Mutant: the demotion test drops "lvl > 0", so a level-0 process is     *)
(* moved to level -1.                                                      *)
AfterRunDemoteZero(st, p, l, i) ==
    LET demote(s) == LET m == AddTo(RmPriority(s, l, i), l - 1, p)
                     IN Continue(m, LAMBDA x : [x EXCEPT !.ticks[p] = 0,
                                   !.waits[p] = 0, !.level[p] = l - 1])
        requeue(s) == Continue(RmPriority(s, l, i), LAMBDA x : AddTo(x, l, p))
        st1 == IF st.ticks[p] >= LimitTotal[l] THEN demote(st)
               ELSE IF st.ticks[p] % LimitRR[l] = 0 THEN requeue(st)
               ELSE st
    IN Promote(st1, 3, 0)

(* What scheduler() does once the process it ran at mlfq[lvl][i] comes     *)
(* back through sched(): demote it, or requeue it round-robin, then run    *)
(* the promotion loop.  lvl and i are the values from before the swtch.    *)
AfterRun(st, p, l, i) ==
    LET demote(s) == LET m == AddTo(RmPriority(s, l, i), l - 1, p)
                     IN Continue(m, LAMBDA x : [x EXCEPT !.ticks[p] = 0,
                                   !.waits[p] = 0, !.level[p] = l - 1])
        requeue(s) == Continue(RmPriority(s, l, i), LAMBDA x : AddTo(x, l, p))
        st1 == IF l > 0 /\ st.ticks[p] >= LimitTotal[l] THEN demote(st)
               ELSE IF st.ticks[p] % LimitRR[l] = 0 THEN requeue(st)
               ELSE st
    IN Promote(st1, 3, 0)

(* Hand the CPU back to the scheduler: the caller has set its own state    *)
(* (given as st), and the scheduler finishes its pass.                      *)
SwitchOut(st) ==
    LET done == AfterRun(st, cur, at[1], at[2])
    IN /\ mlfq' = done.mlfq
       /\ ticks' = done.ticks
       /\ waits' = done.waits
       /\ level' = done.level
       /\ halt' = done.halt
       /\ cur' = NoProc
       /\ at' = <<0, 0>>

-----------------------------------------------------------------------------
(* userinit(): slot 1 is allocated as pid 1 at level 3 and made RUNNABLE.  *)
Init ==
    /\ state = [s \in Slot |-> IF s = 1 THEN "RUNNABLE" ELSE "UNUSED"]
    /\ pid = [s \in Slot |-> IF s = 1 THEN 1 ELSE 0]
    /\ parent = [s \in Slot |-> NoProc]
    /\ killed = [s \in Slot |-> FALSE]
    /\ level = [s \in Slot |-> IF s = 1 THEN 3 ELSE 0]
    /\ ticks = [s \in Slot |-> 0]
    /\ waits = [s \in Slot |-> 0]
    /\ chan = [s \in Slot |-> NoProc]
    /\ pc = [s \in Slot |-> "user"]
    /\ mlfq = [l \in Layers |-> IF l = 3 THEN <<1>> ELSE <<>>]
    /\ nextpid = 2
    /\ cur = NoProc
    /\ at = <<0, 0>>
    /\ halt = "none"
    /\ pgdir = [s \in Slot |-> IF s = 1 THEN 1 ELSE 0]

(* Queue positions in the order scheduler() scans them.                    *)
Positions == UNION {{<<l, i>> : i \in 0..(Len(mlfq[l]) - 1)} : l \in Layers}
(* Mutant: the level loop runs upwards from level 0.                       *)
BeforeLowestFirst(a, b) == a[1] < b[1] \/ (a[1] = b[1] /\ a[2] < b[2])
Before(a, b) == a[1] > b[1] \/ (a[1] = b[1] /\ a[2] < b[2])
RunnableAt == {x \in Positions : state[mlfq[x[1]][x[2] + 1]] = "RUNNABLE"}

(* scheduler(): the first RUNNABLE entry in scan order is run.  Every      *)
(* RUNNABLE process, the chosen one included, gets a wait tick first; the  *)
(* chosen one then has its wait reset and its run tick counted.  After the *)
(* pass the loop restarts from level 3 (see README on the reuse of lvl).   *)
Dispatch ==
    /\ halt = "none"
    /\ cur = NoProc
    /\ RunnableAt # {}
    /\ LET x == CHOOSE y \in RunnableAt : \A z \in RunnableAt : z = y \/ Before(y, z)
           p == mlfq[x[1]][x[2] + 1]
       IN /\ waits' = [s \in Slot |->
                         IF s = p THEN 0
                         ELSE IF state[s] = "RUNNABLE" /\ pid[s] > 0
                              THEN Wait1(waits[s]) ELSE waits[s]]
          /\ state' = [state EXCEPT ![p] = "RUNNING"]
          /\ ticks' = [ticks EXCEPT ![p] = Tick(@)]
          /\ cur' = p
          /\ at' = x
    /\ UNCHANGED <<pid, parent, killed, level, chan, pc, mlfq, nextpid, halt, pgdir>>

(* The running process is in user mode, not killed, and about to trap.     *)
UserMode(p) == /\ halt = "none" /\ p # NoProc /\ cur = p /\ pc[p] = "user" /\ ~killed[p]

(* yield() on a timer interrupt.                                           *)
Yield ==
    /\ UserMode(cur)
    /\ state' = [state EXCEPT ![cur] = "RUNNABLE"]
    /\ SwitchOut(Sched)
    /\ UNCHANGED <<pid, parent, killed, chan, pc, nextpid, pgdir>>

(* allocproc() as fork() and clone() use it: the first UNUSED slot c gets *)
(* nextpid, level 3 with its counters reset, and the tail of mlfq[3];      *)
(* p->killed is not reset.  The caller makes it RUNNABLE as a child of the *)
(* running process, on the address space as.  kalloc(), copyuvm() and the  *)
(* stack translation cannot fail in this build (see KAlloc), so only a     *)
(* full table does.                                                        *)
NewProc(as) ==
    \/ /\ \A s \in Slot : state[s] # "UNUSED"
       /\ UNCHANGED <<state, pid, parent, level, ticks, waits, pc, mlfq,
                      nextpid, pgdir>>
    \/ \E c \in Slot :
         /\ state[c] = "UNUSED"
         /\ \A s \in 1..(c - 1) : state[s] # "UNUSED"
         /\ state' = [state EXCEPT ![c] = "RUNNABLE"]
         /\ pid' = [pid EXCEPT ![c] = nextpid]
         /\ nextpid' = nextpid + 1
         /\ parent' = [parent EXCEPT ![c] = cur]
         /\ level' = [level EXCEPT ![c] = 3]
         /\ ticks' = [ticks EXCEPT ![c] = 0]
         /\ waits' = [waits EXCEPT ![c] = 0]
         /\ pc' = [pc EXCEPT ![c] = "user"]
         /\ mlfq' = [mlfq EXCEPT ![3] = Append(@, c)]
         /\ pgdir' = [pgdir EXCEPT ![c] = as]

(* fork(): the child gets a copy of the address space, a new page          *)
(* directory, named here by the child's pid.                               *)
Fork ==
    /\ "fork" \in Calls
    /\ UserMode(cur)
    /\ nextpid <= MaxPid
    /\ NewProc(nextpid)
    /\ UNCHANGED <<killed, chan, cur, at, halt>>

(* clone(): the child shares the caller's page directory.                  *)
Clone ==
    /\ "clone" \in Calls
    /\ UserMode(cur)
    /\ nextpid <= MaxPid
    /\ NewProc(pgdir[cur])
    /\ UNCHANGED <<killed, chan, cur, at, halt>>

(* Mutant: exit() does not call wakeup1(proc->parent).                     *)
DoExitNoWakeParent(p) ==
    IF p = 1
    THEN /\ halt' = "init exiting"
         /\ UNCHANGED <<state, parent, mlfq, ticks, waits, level, cur, at>>
    ELSE LET kids == {s \in Slot : parent[s] = p}
             wakeInit == \E s \in kids : state[s] = "ZOMBIE"
             woken(s) == state[s] = "SLEEPING" /\ wakeInit /\ chan[s] = 1
         IN /\ state' = [s \in Slot |-> IF s = p THEN "ZOMBIE"
                                        ELSE IF woken(s) THEN "RUNNABLE"
                                        ELSE state[s]]
            /\ parent' = [s \in Slot |-> IF s \in kids THEN 1 ELSE parent[s]]
            /\ SwitchOut(Sched)

(* Mutant: exit() does not pass its children to initproc.                 *)
DoExitNoReparent(p) ==
    IF p = 1
    THEN /\ halt' = "init exiting"
         /\ UNCHANGED <<state, parent, mlfq, ticks, waits, level, cur, at>>
    ELSE LET woken(s) == state[s] = "SLEEPING" /\ chan[s] = parent[p]
         IN /\ state' = [s \in Slot |-> IF s = p THEN "ZOMBIE"
                                        ELSE IF woken(s) THEN "RUNNABLE"
                                        ELSE state[s]]
            /\ UNCHANGED parent
            /\ SwitchOut(Sched)

(* wakeup1(chan): the processes sleeping on chan, which the caller makes  *)
(* RUNNABLE.                                                               *)
Wakeup1(c) == {s \in Slot : state[s] = "SLEEPING" /\ chan[s] = c}

(* exit(): wake the parent sleeping in wait(), give the children to        *)
(* initproc (waking it if one of them is a zombie), become a ZOMBIE and    *)
(* enter the scheduler.  initproc exiting is a panic.                      *)
DoExit(p) ==
    IF p = 1
    THEN /\ halt' = "init exiting"
         /\ UNCHANGED <<state, parent, mlfq, ticks, waits, level, cur, at>>
    ELSE LET kids == {s \in Slot : parent[s] = p}
             wakeInit == \E s \in kids : state[s] = "ZOMBIE"
             woken == Wakeup1(parent[p]) \cup (IF wakeInit THEN Wakeup1(1) ELSE {})
         IN /\ state' = [s \in Slot |-> IF s = p THEN "ZOMBIE"
                                        ELSE IF s \in woken THEN "RUNNABLE"
                                        ELSE state[s]]
            /\ parent' = [s \in Slot |-> IF s \in kids THEN 1 ELSE parent[s]]
            /\ SwitchOut(Sched)

(* The exit system call; init (user/init.c) never makes it.               *)
Exit ==
    /\ "exit" \in Calls
    /\ UserMode(cur)
    /\ cur # 1
    /\ DoExit(cur)
    /\ UNCHANGED <<pid, killed, chan, pc, nextpid, pgdir>>

(* trap(): a killed process exits when it next runs in user mode.          *)
TrapKilled ==
    /\ halt = "none"
    /\ cur # NoProc
    /\ pc[cur] = "user"
    /\ killed[cur]
    /\ DoExit(cur)
    /\ UNCHANGED <<pid, killed, chan, pc, nextpid, pgdir>>

(* Mutant: the loop sleeps whenever no zombie is found, without testing    *)
(* havekids.                                                               *)
ReapSleepsChildless(p, kids, call) ==
    LET zombies == {s \in kids : state[s] = "ZOMBIE"}
        z == CHOOSE s \in zombies : \A t \in zombies : s <= t
        shared == \E s \in Slot \ {z} : state[s] # "UNUSED" /\ pgdir[s] = pgdir[z]
    IN \/ /\ zombies # {}
          /\ call = "wait" /\ shared
          /\ halt' = "freevm of a page directory in use"
          /\ UNCHANGED <<state, pid, parent, killed, pc, chan, pgdir, mlfq,
                         ticks, waits, level, cur, at>>
       \/ /\ zombies # {}
          /\ call = "join" \/ ~shared
          /\ state' = [state EXCEPT ![z] = "UNUSED"]
          /\ pid' = [pid EXCEPT ![z] = 0]
          /\ parent' = [parent EXCEPT ![z] = NoProc]
          /\ killed' = [killed EXCEPT ![z] = FALSE]
          /\ pgdir' = IF call = "join" THEN [pgdir EXCEPT ![z] = 0] ELSE pgdir
          /\ pc' = [pc EXCEPT ![p] = "user"]
          /\ chan' = [chan EXCEPT ![p] = NoProc]
          /\ UNCHANGED <<mlfq, ticks, waits, level, cur, at, halt>>
       \/ /\ zombies = {}
          /\ killed[p]
          /\ pc' = [pc EXCEPT ![p] = "user"]
          /\ chan' = [chan EXCEPT ![p] = NoProc]
          /\ UNCHANGED <<state, pid, parent, killed, pgdir, mlfq, ticks, waits,
                         level, cur, at, halt>>
       \/ /\ zombies = {}
          /\ ~killed[p]
          /\ chan' = [chan EXCEPT ![p] = p]
          /\ state' = [state EXCEPT ![p] = "SLEEPING"]
          /\ pc' = [pc EXCEPT ![p] = call]
          /\ SwitchOut(Sched)
          /\ UNCHANGED <<pid, parent, killed, pgdir>>

(* One pass of the loop of wait() and join(): reap the first zombie child *)
(* of kids, or return -1 when there is none or the caller is killed, or   *)
(* sleep on the caller itself until exit() wakes it (resuming at call).    *)
(* sleep() clears p->chan when it returns.  wait() frees the child's page  *)
(* directory with freevm(); freeing one that another process still uses,   *)
(* or will free again, is undefined behaviour.  join() clears p->pgdir.    *)
Reap(p, kids, call) ==
    LET zombies == {s \in kids : state[s] = "ZOMBIE"}
        z == CHOOSE s \in zombies : \A t \in zombies : s <= t
        shared == \E s \in Slot \ {z} : state[s] # "UNUSED" /\ pgdir[s] = pgdir[z]
    IN \/ /\ zombies # {}
          /\ call = "wait" /\ shared
          /\ halt' = "freevm of a page directory in use"
          /\ UNCHANGED <<state, pid, parent, killed, pc, chan, pgdir, mlfq,
                         ticks, waits, level, cur, at>>
       \/ /\ zombies # {}
          /\ call = "join" \/ ~shared
          /\ state' = [state EXCEPT ![z] = "UNUSED"]
          /\ pid' = [pid EXCEPT ![z] = 0]
          /\ parent' = [parent EXCEPT ![z] = NoProc]
          /\ killed' = [killed EXCEPT ![z] = FALSE]
          /\ pgdir' = IF call = "join" THEN [pgdir EXCEPT ![z] = 0] ELSE pgdir
          /\ pc' = [pc EXCEPT ![p] = "user"]
          /\ chan' = [chan EXCEPT ![p] = NoProc]
          /\ UNCHANGED <<mlfq, ticks, waits, level, cur, at, halt>>
       \/ /\ zombies = {}
          /\ kids = {} \/ killed[p]
          /\ pc' = [pc EXCEPT ![p] = "user"]
          /\ chan' = [chan EXCEPT ![p] = NoProc]
          /\ UNCHANGED <<state, pid, parent, killed, pgdir, mlfq, ticks, waits,
                         level, cur, at, halt>>
       \/ /\ zombies = {}
          /\ kids # {} /\ ~killed[p]
          /\ chan' = [chan EXCEPT ![p] = p]
          /\ state' = [state EXCEPT ![p] = "SLEEPING"]
          /\ pc' = [pc EXCEPT ![p] = call]
          /\ SwitchOut(Sched)
          /\ UNCHANGED <<pid, parent, killed, pgdir>>

(* wait(): every child qualifies.                                          *)
DoWait(p) == Reap(p, {s \in Slot : parent[s] = p}, "wait")

(* join(): only a child on the caller's page directory qualifies.          *)
DoJoin(p) == Reap(p, {s \in Slot : parent[s] = p /\ pgdir[s] = pgdir[p]}, "join")

(* The wait and join system calls.                                         *)
Wait ==
    /\ "wait" \in Calls
    /\ UserMode(cur)
    /\ DoWait(cur)
    /\ UNCHANGED <<nextpid>>

Join ==
    /\ "join" \in Calls
    /\ UserMode(cur)
    /\ DoJoin(cur)
    /\ UNCHANGED <<nextpid>>

(* wait() or join() resumed after sleep(): the loop runs again.            *)
WaitResume ==
    /\ halt = "none"
    /\ cur # NoProc
    /\ pc[cur] \in {"wait", "join"}
    /\ IF pc[cur] = "wait" THEN DoWait(cur) ELSE DoJoin(cur)
    /\ UNCHANGED <<nextpid>>

(* Mutant: kill() makes its target RUNNABLE whatever its state.           *)
KillWakesAny ==
    /\ "kill" \in Calls
    /\ UserMode(cur)
    /\ \E target \in 0..MaxPid :
         LET holders == {s \in Slot : pid[s] = target}
             v == CHOOSE s \in holders : \A t \in holders : s <= t
         IN \/ /\ holders = {}
               /\ UNCHANGED <<state, killed>>
            \/ /\ holders # {}
               /\ killed' = [killed EXCEPT ![v] = TRUE]
               /\ state' = [state EXCEPT ![v] = "RUNNABLE"]
    /\ UNCHANGED <<pid, parent, level, ticks, waits, chan, pc, mlfq, nextpid,
                   cur, at, halt, pgdir>>

(* kill(pid): the first slot in table order holding pid is marked killed,  *)
(* and made RUNNABLE if it sleeps.  UNUSED slots hold pid 0.               *)
Kill ==
    /\ "kill" \in Calls
    /\ UserMode(cur)
    /\ \E target \in 0..MaxPid :
         LET holders == {s \in Slot : pid[s] = target}
             v == CHOOSE s \in holders : \A t \in holders : s <= t
         IN \/ /\ holders = {}
               /\ UNCHANGED <<state, killed>>
            \/ /\ holders # {}
               /\ killed' = [killed EXCEPT ![v] = TRUE]
               /\ state' = IF state[v] = "SLEEPING"
                           THEN [state EXCEPT ![v] = "RUNNABLE"] ELSE state
    /\ UNCHANGED <<pid, parent, level, ticks, waits, chan, pc, mlfq, nextpid,
                   cur, at, halt, pgdir>>

(* boostproc(): find the caller's first entry in its level by pid, move it *)
(* to the tail of level+1 and reset its counters.  The scheduler's lvl and *)
(* i for the caller are not updated.                                       *)
BoostProc ==
    /\ "boostproc" \in Calls
    /\ UserMode(cur)
    /\ LET l == level[cur]
           idx == {i \in 0..(Len(mlfq[l]) - 1) : pid[mlfq[l][i + 1]] = pid[cur]}
           first == CHOOSE i \in idx : \A j \in idx : i <= j
       IN IF l = 3 \/ idx = {}
          THEN UNCHANGED <<mlfq, ticks, waits, level>>
          ELSE LET st == AddTo(RmPriority(Sched, l, first), l + 1, cur)
               IN /\ mlfq' = st.mlfq
                  /\ ticks' = [ticks EXCEPT ![cur] = 0]
                  /\ waits' = [waits EXCEPT ![cur] = 0]
                  /\ level' = [level EXCEPT ![cur] = l + 1]
    /\ UNCHANGED <<state, pid, parent, killed, chan, pc, nextpid, cur, at,
                   halt, pgdir>>

(* panic() and undefined behaviour: the kernel stops here.                 *)
Halted ==
    /\ halt # "none"
    /\ UNCHANGED vars

Next ==
    \/ Dispatch \/ Yield \/ Fork \/ Clone \/ Exit \/ TrapKilled \/ Wait \/ Join
    \/ WaitResume \/ Kill \/ BoostProc \/ Halted

(* The scheduler loop runs forever and the timer always interrupts the     *)
(* running process; kernel code that has been resumed runs on.  The user   *)
(* programs' system calls are not assumed to happen.                       *)
Spec == Init /\ [][Next]_vars
FairSpec == Spec /\ WF_vars(Dispatch) /\ WF_vars(Yield) /\ WF_vars(TrapKilled)
                 /\ WF_vars(WaitResume)

-----------------------------------------------------------------------------
TypeOK ==
    /\ state \in [Slot -> States]
    /\ pid \in [Slot -> 0..MaxPid]
    /\ parent \in [Slot -> Slot \cup {NoProc}]
    /\ killed \in [Slot -> BOOLEAN]
    /\ level \in [Slot -> Layers]
    /\ ticks \in [Slot -> 0..(TicksCap + Period)]
    /\ waits \in [Slot -> 0..WaitCap]
    /\ chan \in [Slot -> Slot \cup {NoProc}]
    /\ pc \in [Slot -> {"user", "wait", "join"}]
    /\ pgdir \in [Slot -> 0..MaxPid]
    /\ mlfq \in [Layers -> Seq(Slot)]
    /\ nextpid \in 1..(MaxPid + 1)
    /\ cur \in Slot \cup {NoProc}

Live == {"RUNNABLE", "RUNNING", "SLEEPING"}

(* No undefined behaviour: the scheduler never shrinks a queue below zero  *)
(* (rm_priority with a stale index after boostproc) and never promotes a   *)
(* level-3 process into mlfq[4].                                           *)
NoUndefinedBehaviour == halt \in {"none", "init exiting"}

(* Every process that can run or will run again has an entry in some       *)
(* level queue, so scheduler() can still find it: no rm_priority removes   *)
(* the entry of a process other than the one it means to move.             *)
NoLostProcess ==
    halt = "none" => \A s \in Slot : state[s] \in Live => InQueue(s)

(* The spec's queue invariant: a RUNNABLE, RUNNING or SLEEPING process is  *)
(* an entry of exactly one queue, the one of its recorded level.  wait()   *)
(* reaps a zombie without removing its entry and allocproc() appends the   *)
(* reused slot again.                                                      *)
OneEntryAtLevel ==
    halt = "none" =>
      \A s \in Slot : state[s] \in Live =>
        /\ Contains(mlfq[level[s]], s)
        /\ \A l \in Layers : \A i, j \in 1..Len(mlfq[l]) :
             (mlfq[l][i] = s /\ mlfq[l][j] = s) => i = j
        /\ \A l \in Layers \ {level[s]} : ~Contains(mlfq[l], s)

(* No lost wakeup in wait()/join() and exit(): a parent never sleeps in    *)
(* wait() while one of its children is a zombie, or in join() while one of *)
(* its threads is, including children handed to initproc by an exiting     *)
(* parent.                                                                 *)
NoLostWakeup ==
    \A p \in Slot :
      (state[p] = "SLEEPING" /\ pc[p] \in {"wait", "join"}) =>
        \A s \in Slot :
          (parent[s] = p /\ (pc[p] = "wait" \/ pgdir[s] = pgdir[p]))
            => state[s] # "ZOMBIE"

(* Every zombie can still be reaped: its parent is a process that has not  *)
(* exited, because exit() hands the children of the exiting process to     *)
(* initproc.                                                               *)
ZombieHasLiveParent ==
    \A s \in Slot : state[s] = "ZOMBIE" =>
      /\ parent[s] \in Slot
      /\ state[parent[s]] \notin {"UNUSED", "ZOMBIE"}

(* kill() marks only a process that holds the pid: no free slot carries   *)
(* the killed flag, which allocproc() would hand to the next process       *)
(* created there (wait() clears it when it frees a slot).                  *)
NoKilledFreeSlot == \A s \in Slot : state[s] = "UNUSED" => ~killed[s]

(* Proc implements the lifecycle of spec.md (module Lifecycle): every step *)
(* of the table, wait()/join() sleeping only with a child to wait for,     *)
(* exit() waking only the parent and initproc, kill() waking only a        *)
(* sleeper, is a step of Lifecycle or leaves state and parent unchanged.   *)
Life == INSTANCE Lifecycle WITH Procs <- Slot, InitProc <- 1, NoParent <- NoProc
LifecycleRefinement == Life!Spec

(* Starvation freedom: a RUNNABLE process is eventually run, and the      *)
(* kernel does not stop on undefined behaviour first (only a panic, when   *)
(* kill(1) makes initproc exit, ends it).  Every dispatch counts a tick,   *)
(* so a process that keeps running is demoted to level 0, where round      *)
(* robin moves it behind the others; a process that waits too long is     *)
(* promoted by the promotion loop of scheduler(), which must never lift a  *)
(* level-3 process into mlfq[4].                                          *)
NoStarvation ==
    \A s \in Slot : state[s] = "RUNNABLE" ~> (state[s] = "RUNNING" \/ halt = "init exiting")
=============================================================================
