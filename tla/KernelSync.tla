----------------------------- MODULE KernelSync -----------------------------
(***************************************************************************)
(* One process of the Horizon kernel: its threads lock a mutex, wait for   *)
(* and signal condition variables (KConditionVariable), reserve and        *)
(* release a resource (KResourceLimit, under a KLightLock), while the      *)
(* timer fires, and other processes or debuggers change the priority of    *)
(* the threads, suspend, resume and terminate them.  All of them share the *)
(* thread objects and their priority inheritance (KThread).                *)
(***************************************************************************)
EXTENDS KResourceLimit, KConditionVariable

CONSTANTS
    Priorities,    \* the base priorities SetThreadPriority may ask for
    Program,       \* the calls each thread's code makes
    MaxCalls,      \* bound: calls the process makes
    MaxControls,   \* bound: changes of priority, suspensions and terminations
    Timeouts       \* timeouts of WaitProcessWideKeyAtomic in use

ASSUME PrioritiesAssumption == Priorities \subseteq Nat

VARIABLES calls, controls   \* calls and controls so far

vars == <<k, pc, seen, lvars, cvars, calls, controls>>

PCs == {"user", "arbitrate", "relock", "address", "arbunlock", "condvar", "doomed",
        "lock", "lockslow", "lockwait", "locked", "lightcv", "exiting", "dead"}

Init ==
    /\ k = KThreadsInit
    /\ pc = [t \in Threads |-> "user"]
    /\ seen = [t \in Threads |-> Nobody]
    /\ LimitInit
    /\ CondVarInit
    /\ calls = 0 /\ controls = 0

\* A new request of the program, within the bound.
NewCall(t, c) ==
    c \in Program[t] /\ calls < MaxCalls /\ calls' = calls + 1 /\ UNCHANGED controls

MutexCall(t) ==
    \/ /\ IF pc[t] = "user" THEN NewCall(t, "lock") ELSE UNCHANGED <<calls, controls>>
       /\ MutexLock(t)
    \/ /\ WaitForAddress(t) \/ MutexUnlock(t) \/ SignalToAddress(t) \/ WaitReturns(t)
       /\ UNCHANGED <<calls, controls>>
    \/ NewCall(t, "wait") /\ \E c \in CondVarKeys, w \in Timeouts : Wait(t, c, w)
    \/ NewCall(t, "signal") /\ \E c \in CondVarKeys, n \in {1, -1} : Signal(t, c, n)

LimitCall(t) ==
    \/ \E o \in {"reserve", "release", "limit"} : Request(t, o) /\ NewCall(t, o)
    \/ (LimitStep(t) \/ Exit(t)) /\ UNCHANGED <<calls, controls>>

Step(t) ==
    \/ MutexCall(t) /\ UNCHANGED lvars
    \/ LimitCall(t) /\ UNCHANGED cvars

Timer(t) ==
    /\ LimitTimer(t)
    /\ UNCHANGED <<cvars, calls, controls>>

Control(t) ==
    /\ controls < MaxControls /\ controls' = controls + 1
    /\ \/ \E y \in SuspendTypes : RequestSuspend(t, y)
       \/ RequestTerminate(t)
       \/ \E p \in Priorities \ {k.base[t]} : SetPriority(t, p)
    /\ UNCHANGED <<pc, seen, lvars, cvars, calls>>

Resumed(t) ==
    /\ \E y \in SuspendTypes : Resume(t, y)
    /\ UNCHANGED <<pc, seen, lvars, cvars, calls, controls>>

Next == \E t \in Threads : Step(t) \/ Timer(t) \/ Control(t) \/ Resumed(t)

Spec == Init /\ [][Next]_vars

\* A thread with a step to take that the program does not choose: it is in a
\* supervisor call or an arbitration loop, or has to leave.
Busy(t) == Runs(t) /\ pc[t] # "dead" /\ (pc[t] = "user" => k.term[t])

\* Weak fairness of the busy threads, each of which has a core to run on, and
\* of the timer interrupt.  The enabling conditions are written out: a busy
\* thread's steps move its pc, and a task leaves the timer or its wait ends.
Fairness ==
    \A t \in Threads :
        /\ []<>~Busy(t) \/ []<><<pc'[t] # pc[t]>>_vars
        /\ []<>(t \notin k.timer)
FairSpec == Spec /\ Fairness
-----------------------------------------------------------------------------
\* The type of the threads' fields, of the two lock words and of the counters.
TypeOK ==
    /\ k \in KThreads /\ pc \in [Threads -> PCs] /\ seen \in [Threads -> Threads \cup {Nobody}]
    /\ ltag \in Tags /\ tag \in Tags /\ in \subseteq Threads /\ flag \in [CondVarKeys -> {0, 1}]
    /\ lim \in [{"limit", "current", "hint", "peak", "waiters"} -> Nat]
    /\ op \in [Threads -> Ops] /\ late \in [Threads -> BOOLEAN] /\ extra \in [Threads -> Nat]

\* A thread's priority is the best of its own and of those of the threads that
\* wait for its locks, along whole chains of owners (RestorePriority).
PriorityInherited == \A t \in Threads : k.prio[t] = Inherited(k, t)

\* A thread in the critical section is the one the mutex's word names.
MutexExclusion == \A t \in in : tag.owner = t

\* Whoever is among the waiters of a thread is waiting, and waits on the thread
\* that the word of the mutex (the tag of the light lock) names, with the bit
\* that makes it call ArbitrateUnlock (UnlockSlowPath): no waiter is forgotten,
\* and none that gave up is kept.
WaitersKnown ==
    \A t \in Threads : k.owner[t] # Nobody =>
        /\ k.state[t] = "Waiting"
        /\ k.key[t] = Mutex => tag = [owner |-> k.owner[t], wait |-> TRUE]
        /\ k.key[t] = LightLock => ltag = [owner |-> k.owner[t], wait |-> TRUE]

\* The mutex is never left with a thread that does not know of it: its owner is
\* in the section, or has been woken to enter it.
NoOrphan ==
    LET o == tag.owner
    IN  \/ o \in {Nobody} \cup in
        \/ pc[o] \in {"address", "condvar"} /\ k.state[o] = "Runnable" /\ k.result[o] = "Success"

\* While a thread is in the tree of a condition variable, its word says so (the
\* process skips SignalProcessWideKey when the word is 0).
CvFlagTrue == \A c \in CondVarKeys : CondVarTree(k, c) # {} => flag[c] = 1

\* A timer task belongs to the wait it was registered for: none is left over
\* that would cut a later wait of the thread short.
TimersOfWaits ==
    \A t \in k.timer : k.state[t] = "Waiting" /\ k.queue[t] \in {"condvar", "lightcv"}

\* The reservations the threads hold, numbered for each thread.
Reservations == UNION {{t} \X (1 .. extra[t]) : t \in Threads}

\* The assertions of KResourceLimit, and what they stand for: the values count
\* the threads and reservations, the hints those that have not exited.
ChargesAccounted ==
    LET gone == {t \in Threads : pc[t] \in {"exiting", "dead"}}
    IN  /\ lim.current = Cardinality(Threads) + Cardinality(Reservations)
        /\ lim.current <= lim.limit
        /\ lim.hint = lim.current - Cardinality(gone)
        /\ lim.current <= lim.peak /\ lim.peak <= lim.limit

\* A release leaves no thread asleep that waits to reserve what it freed.
ReleaseWakes == [][lim'.current < lim.current => LightCvWaiters(k') = {}]_vars

\* A thread does not wait for ever for the light lock (a wait that termination
\* and timeouts cannot cut short), whoever is suspended.
LockGranted == \A t \in Threads : []<>(pc[t] = "lockwait" => HasLightLock(t))

\* A thread that is asked to terminate does, unless it stays suspended.
Terminates == \A t \in Threads : []<>(k.term[t] => k.state[t] = "Terminated" \/ k.flags[t] # {})
=============================================================================
