------------------------------- MODULE TestSem -------------------------------
(***************************************************************************)
(* user/test-sem.c run on the semaphores of kernel/proc.c (module Sem).    *)
(*                                                                         *)
(* main makes a semaphore with count 0, creates a thread running func,     *)
(* waits on the semaphore, joins the thread, destroys the semaphore and    *)
(* waits on it once more, printing what that last sem_wait returns.  func  *)
(* posts the semaphore and exits.  The two share the global sem_id.        *)
(*                                                                         *)
(* Each step of a thread is a step of Sem for that thread, taken only when *)
(* its program is at the call the step belongs to; when the call returns   *)
(* (Sem's pc back at "idle") the program moves on.  thread_create and      *)
(* thread_join are the user library around clone() and join(): a create   *)
(* that fails (no free process slot) returns -1, and join waits until the  *)
(* thread has exited.  printf is left out, except the value line 38 prints.*)
(***************************************************************************)
EXTENDS Integers

CONSTANTS
    Copies,     \* shells each running the test, at the same time
    Runs,       \* how many times each shell runs it, one after another
    NSEM, Counts, Calls, NoThread

(* Copy c of the test runs main() in thread <<c, "main">> and func() in    *)
(* thread <<c, "func">>.                                                   *)
Main(c) == <<c, "main">>
Child(c) == <<c, "func">>
Threads == {Main(c) : c \in Copies} \cup {Child(c) : c \in Copies}

VARIABLES
    semId, value, used, splock, numSem, pc, arg, run, chan, halt,
    prog,       \* per thread: the line of the test program it is at
    sem_id,     \* per copy: the global int sem_id of its program
    printed,    \* per copy: <<v>> when line 38 has printed v, else <<>>
    runs        \* per copy: runs of the test started so far

S == INSTANCE Sem

semVars == <<semId, value, used, splock, numSem, pc, arg, run, chan, halt>>
vars == <<semVars, prog, sem_id, printed, runs>>

Init ==
    /\ S!Init
    /\ prog = [t \in Threads |-> IF t[2] = "main" THEN "sem_init" ELSE "unborn"]
    /\ sem_id = [c \in Copies |-> 0]
    /\ printed = [c \in Copies |-> <<>>]
    /\ runs = [c \in Copies |-> 1]

(* The line that follows each call of the program when it returns.        *)
After == [sem_init |-> "thread_create", wait |-> "thread_join",
          post |-> "exit", destroy |-> "again", again |-> "exit"]

-----------------------------------------------------------------------------
(* sem_init(&sem_id, count): the test of num_sem; -1 ends main at once.    *)
MainInit(c) ==
    /\ prog[Main(c)] = "sem_init"
    /\ S!InitCheck(Main(c)) /\ arg'[Main(c)] = 0
    /\ prog' = IF pc'[Main(c)] = "idle" THEN [prog EXCEPT ![Main(c)] = "exit"]
               ELSE prog
    /\ UNCHANGED <<sem_id, printed>>

(* sem_init under lock_semlist writes *sem_id = i of the slot it takes.    *)
MainInitScan(c) ==
    /\ prog[Main(c)] = "sem_init"
    /\ S!InitScan(Main(c))
    /\ LET taken == {s \in S!SemIds : used'[s] = 1 /\ used[s] = 0} IN
         IF taken = {}
         THEN /\ prog' = [prog EXCEPT ![Main(c)] = "exit"]
              /\ UNCHANGED sem_id
         ELSE /\ sem_id' = [sem_id EXCEPT ![c] = CHOOSE s \in taken : TRUE]
              /\ prog' = [prog EXCEPT ![Main(c)] = After.sem_init]
    /\ UNCHANGED printed

(* thread_create(&func, ...): the thread starts at func, or -1 ends main.  *)
thread_create(c) ==
    /\ prog[Main(c)] = "thread_create"
    /\ \/ prog' = [prog EXCEPT ![Main(c)] = "wait", ![Child(c)] = "post"]
       \/ prog' = [prog EXCEPT ![Main(c)] = "exit"]
    /\ UNCHANGED <<semVars, sem_id, printed>>

(* sem_wait(sem_id) or sem_post(sem_id): the unlocked test, with the       *)
(* program's sem_id as the argument.  A semaphore that is not live returns *)
(* -1 at once.                                                             *)
Call(t, line, check) ==
    /\ prog[t] = line
    /\ check /\ arg'[t] = sem_id[t[1]]
    /\ prog' = IF pc'[t] = "idle" THEN [prog EXCEPT ![t] = After[line]] ELSE prog

MainWait(c) ==
    Call(Main(c), "wait", S!WaitCheck(Main(c))) /\ UNCHANGED <<sem_id, printed>>

ChildPost(c) ==
    Call(Child(c), "post", S!PostCheck(Child(c))) /\ UNCHANGED <<sem_id, printed>>

(* Line 38: the sem_wait after the destroy, whose result is printed.       *)
MainWaitAgain(c) ==
    /\ Call(Main(c), "again", S!WaitCheck(Main(c)))
    /\ printed' = IF pc'[Main(c)] = "idle" THEN [printed EXCEPT ![c] = <<-1>>]
                  ELSE printed
    /\ UNCHANGED sem_id

(* The rest of a sem_wait or sem_post under the semaphore's lock, up to    *)
(* its return of 0.                                                        *)
Continue(t) ==
    /\ prog[t] \in {"wait", "post", "again"}
    /\ S!WaitAcquire(t) \/ S!PostAcquire(t) \/ S!WaitTest(t) \/ S!PostSignal(t)
    /\ prog' = IF pc'[t] = "idle" THEN [prog EXCEPT ![t] = After[prog[t]]] ELSE prog
    /\ printed' = IF pc'[t] = "idle" /\ prog[t] = "again"
                  THEN [printed EXCEPT ![t[1]] = <<0>>] ELSE printed
    /\ UNCHANGED sem_id

(* thread_join(): join() sleeps until the thread has exited.               *)
thread_join(c) ==
    /\ prog[Main(c)] = "thread_join"
    /\ prog[Child(c)] = "exited"
    /\ prog' = [prog EXCEPT ![Main(c)] = "destroy"]
    /\ UNCHANGED <<semVars, sem_id, printed>>

MainDestroy(c) ==
    /\ prog[Main(c)] = "destroy"
    /\ S!Destroy(Main(c)) /\ arg'[Main(c)] = sem_id[c]
    /\ prog' = [prog EXCEPT ![Main(c)] = After.destroy]
    /\ UNCHANGED <<sem_id, printed>>

(* exit(): from func, and from main at its end or after a failed call.     *)
Exit(t) ==
    /\ prog[t] = "exit"
    /\ prog' = [prog EXCEPT ![t] = "exited"]
    /\ UNCHANGED <<semVars, sem_id, printed>>

Done(c) == prog[Main(c)] = "exited" /\ prog[Child(c)] \in {"exited", "unborn"}

(* Copy c's shell runs the test again when both its threads have exited:   *)
(* a fresh program image, on the kernel's semaphores as they are.         *)
Rerun(c) ==
    /\ Done(c) /\ runs[c] < Runs
    /\ prog' = [prog EXCEPT ![Main(c)] = "sem_init", ![Child(c)] = "unborn"]
    /\ sem_id' = [sem_id EXCEPT ![c] = 0]
    /\ printed' = [printed EXCEPT ![c] = <<>>]
    /\ runs' = [runs EXCEPT ![c] = @ + 1]
    /\ UNCHANGED semVars

(* The steps of copy c's two threads.                                      *)
Step(c) ==
    /\ \/ MainInit(c) \/ MainInitScan(c) \/ thread_create(c) \/ MainWait(c)
       \/ thread_join(c) \/ MainDestroy(c) \/ MainWaitAgain(c) \/ ChildPost(c)
       \/ \E t \in {Main(c), Child(c)} : Continue(t) \/ Exit(t)
    /\ UNCHANGED runs

(* When no thread can step (the last runs have ended, or every thread      *)
(* sleeps) scheduler() loops on: the system stutters.                      *)
Next == \E c \in Copies : Step(c) \/ Rerun(c)

(* The scheduler runs every RUNNABLE process again (NoStarvation of Proc), *)
(* and the shell starts the next run: a step that stays enabled is taken.  *)
(* A sleeping thread has no step enabled.                                  *)
Spec == Init /\ [][Next]_vars /\ \A c \in Copies : WF_vars(Step(c)) /\ WF_vars(Rerun(c))

-----------------------------------------------------------------------------
TypeOK ==
    /\ S!TypeOK
    /\ prog \in [Threads -> {"unborn", "sem_init", "thread_create", "wait",
                             "post", "thread_join", "destroy", "again",
                             "exit", "exited"}]
    /\ sem_id \in [Copies -> S!SemIds]
    /\ printed \in [Copies -> {<<>>, <<-1>>, <<0>>}]
    /\ runs \in [Copies -> 1..Runs]

(* "child should finish first" / "parent: locked till child finishes":     *)
(* main gets past its sem_wait on the count-0 semaphore only after its     *)
(* own func's sem_post has returned, whatever the order the threads run in.*)
ChildFinishesFirst ==
    \A c \in Copies :
        prog[Main(c)] \in {"thread_join", "destroy", "again"}
            => prog[Child(c)] \in {"exit", "exited"}

(* No lost wakeup in sem_wait/sem_post (Sem), for the test's threads: a    *)
(* thread never sleeps in sem_wait on a semaphore whose count is positive, *)
(* also when two waiters sleep on one semaphore slot.                      *)
NoLostSemWakeup == S!NoLostSemWakeup

(* Every run of the test runs to its end: both threads exit, whether func *)
(* posts before main waits or after main has gone to sleep, and the        *)
(* sem_wait on the destroyed semaphore returns -1 instead of sleeping.     *)
(* This holds for one copy of the test.  With two copies it is violated:   *)
(* line 38 waits on an id another copy's sem_init may have been given.     *)
TestCompletes ==
    \A c \in Copies, k \in 1..Runs :
        <>(runs[c] = k /\ Done(c)
           /\ (prog[Child(c)] = "exited" => printed[c] = <<-1>>))
=============================================================================
