----------------------------- MODULE RtThreads -----------------------------
(***************************************************************************)
(* RT-Thread's threads and scheduler, as far as packages/syswatch depends  *)
(* on them.  The kernel is outside the repository: this is what            *)
(* syswatch.c supposes of rt_thread_delete, rt_thread_startup, the         *)
(* priorities and the order of the calls of the scheduler's hook.          *)
(***************************************************************************)
EXTENDS Naturals, Sequences

CONSTANTS
    Threads,       \* the application's threads
    Priority,      \* their priorities, 0 is the most urgent
    PriorityMax,   \* RT_THREAD_PRIORITY_MAX
    Idle, Syswatch \* the other two threads

ASSUME ThreadsAssumption ==
    /\ PriorityMax \in Nat /\ PriorityMax > 2
    /\ Priority \in [Threads -> 1 .. PriorityMax - 2]
    /\ Idle \notin Threads /\ Syswatch \notin Threads \cup {Idle}

VARIABLES
    stat,          \* what each thread is doing
    current,       \* the running thread, when it is not Syswatch
    hung,          \* the threads that never give the processor up again
    slack          \* this second, idle or a hung thread has had the processor

kernel == <<stat, current, hung, slack>>

(***************************************************************************)
(* A thread that runs or could run is "ready".  "rest" is a thread that    *)
(* has done its work of this second: the bound on wake-ups.                *)
(***************************************************************************)
Stat == {"suspend", "rest", "ready", "close", "killed"}

KernelTypeOK ==
    /\ stat \in [Threads -> Stat]
    /\ current \in Threads \cup {Idle}
    /\ hung \in SUBSET Threads
    /\ slack \in BOOLEAN

Prio(t) ==
    CASE t \in Threads -> Priority[t] [] t = Idle -> PriorityMax - 1 [] OTHER -> 0

Ready(st) == {t \in Threads : st[t] = "ready"}

\* The threads that the scheduler may choose; which of equals is left open.
Candidates(st) ==
    IF Ready(st) = {} THEN {Idle}
    ELSE {t \in Ready(st) : \A u \in Ready(st) : Priority[t] <= Priority[u]}

Rested(st) == [t \in Threads |-> IF st[t] = "rest" THEN "suspend" ELSE st[t]]
=============================================================================
