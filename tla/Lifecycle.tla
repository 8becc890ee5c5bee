------------------------------ MODULE Lifecycle ------------------------------
(***************************************************************************)
(* The process lifecycle that spec.md promises, on one CPU, without the    *)
(* scheduler's queues.  A process is born when a running process creates   *)
(* it and is at once RUNNABLE; it moves between RUNNABLE, RUNNING and      *)
(* SLEEPING; it becomes a ZOMBIE when it terminates; and its slot is freed *)
(* only when its parent, running, reaps it.  Only one process runs at a    *)
(* time.  A process sleeps to wait for a child only when it has one        *)
(* ("wait()/join() on a process with no qualifying children returns        *)
(* failure immediately without blocking").  A terminating process hands    *)
(* its children to the initial process and wakes at most its parent and   *)
(* the initial process.  A sleeping process is made RUNNABLE only by the   *)
(* running one.                                                            *)
(***************************************************************************)
CONSTANTS
    Procs,        \* process slots
    InitProc,     \* the slot of the initial process
    NoParent      \* the parent of a free slot and of the initial process

VARIABLES state, parent

Running(r) == state[r] = "RUNNING"

HasChild(r) == \E c \in Procs : parent[c] = r /\ state[c] # "UNUSED"

Init ==
    /\ state = [s \in Procs |-> IF s = InitProc THEN "RUNNABLE" ELSE "UNUSED"]
    /\ parent = [s \in Procs |-> NoParent]

Create(r, c) ==
    /\ Running(r) /\ state[c] = "UNUSED"
    /\ state' = [state EXCEPT ![c] = "RUNNABLE"]
    /\ parent' = [parent EXCEPT ![c] = r]

Run(s) ==
    /\ \A t \in Procs : ~Running(t)
    /\ state[s] = "RUNNABLE"
    /\ state' = [state EXCEPT ![s] = "RUNNING"]
    /\ UNCHANGED parent

Preempt(r) ==
    /\ Running(r)
    /\ state' = [state EXCEPT ![r] = "RUNNABLE"]
    /\ UNCHANGED parent

Block(r) ==
    /\ Running(r) /\ HasChild(r)
    /\ state' = [state EXCEPT ![r] = "SLEEPING"]
    /\ UNCHANGED parent

Wake(r, s) ==
    /\ Running(r) /\ state[s] = "SLEEPING"
    /\ state' = [state EXCEPT ![s] = "RUNNABLE"]
    /\ UNCHANGED parent

(* r terminates and wakes the sleepers W among its parent and InitProc.    *)
Terminate(r, W) ==
    /\ Running(r) /\ r # InitProc
    /\ W \subseteq {s \in {parent[r], InitProc} : state[s] = "SLEEPING"}
    /\ state' = [s \in Procs |-> IF s = r THEN "ZOMBIE"
                                 ELSE IF s \in W THEN "RUNNABLE" ELSE state[s]]
    /\ parent' = [s \in Procs |-> IF parent[s] = r THEN InitProc ELSE parent[s]]

Reap(r, z) ==
    /\ Running(r) /\ parent[z] = r /\ state[z] = "ZOMBIE"
    /\ state' = [state EXCEPT ![z] = "UNUSED"]
    /\ parent' = [parent EXCEPT ![z] = NoParent]

Next ==
    \E r, s \in Procs :
        \/ Create(r, s) \/ Run(s) \/ Preempt(r) \/ Block(r) \/ Wake(r, s)
        \/ Reap(r, s) \/ \E W \in SUBSET Procs : Terminate(r, W)

Spec == Init /\ [][Next]_<<state, parent>>
=============================================================================
