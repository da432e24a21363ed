------------------------------ MODULE KThread ------------------------------
(***************************************************************************)
(* The thread object of the Horizon kernel, libmesosphere's KThread: its   *)
(* wait state (BeginWait, EndWait, CancelWait of the thread queues), the   *)
(* priority inheritance through the locks other threads wait for it to     *)
(* release, suspension and termination.  Everything here runs under the    *)
(* scheduler lock, so each operator is a function from one state of the    *)
(* threads, a record k, to the next; the handlers that the other modules   *)
(* make of them are single steps.                                          *)
(*                                                                         *)
(* A LockWithPriorityInheritanceInfo is the set of threads that wait with  *)
(* one address key on one owner: it exists exactly while that set is not   *)
(* empty.  The red-black trees order threads by priority and put a new     *)
(* node after its equals; k.order holds <<t, u>> for t inserted before u,  *)
(* and <<t, t>> for t in a tree.                                           *)
(***************************************************************************)
EXTENDS Integers, FiniteSets, FiniteSetsExt

CONSTANTS
    Threads,          \* the threads of one process
    Nobody,           \* the null thread, handle and key
    BasePriority,     \* the priority each thread was created with
    Terminating,      \* TerminatingThreadPriority, above every thread's own
    KernelKeys,       \* address keys in kernel memory (light locks)
    UserKeys,         \* address keys in the process (mutexes)
    CondVarKeys,      \* condition variable keys
    SuspendTypes      \* the kinds of suspension in use

ASSUME ThreadAssumption ==
    /\ Nobody \notin Threads /\ IsFiniteSet(Threads)
    /\ BasePriority \in [Threads -> Nat] /\ Terminating \in Nat
    /\ \A t \in Threads : Terminating < BasePriority[t]
    /\ Nobody \notin KernelKeys \cup UserKeys \cup CondVarKeys
    /\ KernelKeys \cap UserKeys = {}

VARIABLES
    k,      \* the threads
    pc,     \* where each thread is in the code
    seen    \* the owner in the lock tag a thread has read

AddressKeys == KernelKeys \cup UserKeys
States      == {"Runnable", "Waiting", "Terminated"}
Queues      == {"none", "address", "condvar", "lightlock", "lightcv"}
Results     == {"Success", "TimedOut", "TerminationRequested"}

KThreads ==
    [state   : [Threads -> States],                    \* m_thread_state, the low bits
     flags   : [Threads -> SUBSET SuspendTypes],       \* m_thread_state, the suspend bits
     request : [Threads -> SUBSET SuspendTypes],       \* m_suspend_request_flags
     allow   : [Threads -> BOOLEAN],                   \* m_suspend_allowed_flags # 0
     term    : [Threads -> BOOLEAN],                   \* m_termination_requested
     queue   : [Threads -> Queues],                    \* m_wait_queue
     result  : [Threads -> Results],                   \* m_wait_result
     timer   : SUBSET Threads,                         \* the hardware timer's task tree
     base    : [Threads -> Nat],                       \* m_base_priority
     prio    : [Threads -> Nat],                       \* m_priority
     owner   : [Threads -> Threads \cup {Nobody}],     \* m_waiting_lock_info->m_owner
     key     : [Threads -> AddressKeys \cup {Nobody}], \* m_address_key
     condvar : [Threads -> CondVarKeys \cup {Nobody}], \* m_condvar_tree, m_condvar_key
     kwaiters: [Threads -> Nat],                       \* m_num_kernel_waiters
     order   : SUBSET (Threads \X Threads)]            \* who was inserted before whom

KThreadsInit ==
    [state   |-> [t \in Threads |-> "Runnable"],
     flags   |-> [t \in Threads |-> {}],
     request |-> [t \in Threads |-> {}],
     allow   |-> [t \in Threads |-> TRUE],
     term    |-> [t \in Threads |-> FALSE],
     queue   |-> [t \in Threads |-> "none"],
     result  |-> [t \in Threads |-> "Success"],
     timer   |-> {},
     base    |-> BasePriority,
     prio    |-> BasePriority,
     owner   |-> [t \in Threads |-> Nobody],
     key     |-> [t \in Threads |-> Nobody],
     condvar |-> [t \in Threads |-> Nobody],
     kwaiters|-> [t \in Threads |-> 0],
     order   |-> {}]

\* What the scheduler may run: a runnable thread with no suspend flag.
Runs(t) == k.state[t] = "Runnable" /\ k.flags[t] = {}
-----------------------------------------------------------------------------
(* The trees of waiting threads.                                           *)

\* The waiters of the lock info of owner o for address key a.
WaitersByKey(s, o, a) == {t \in Threads : s.owner[t] = o /\ s.key[t] = a}
WaitersOf(s, o)       == {t \in Threads : s.owner[t] = o}
CondVarTree(s, c)     == {t \in Threads : s.condvar[t] = c}

\* The comparators of the trees: by priority, equals in order of insertion.
InFront(s, t, u) ==
    \/ s.prio[t] < s.prio[u]
    \/ s.prio[t] = s.prio[u] /\ <<t, u>> \in s.order

\* GetHighestPriorityWaiter, nfind_key: the front of the tree that holds S.
FrontOf(s, S) ==
    LET front == {t \in S : \A u \in S \ {t} : InFront(s, t, u)}
    IN  CHOOSE t \in S : front # {} => t \in front

Linked(order)      == {t \in Threads : <<t, t>> \in order}
Remove(order, t)   == {p \in order : t \notin {p[1], p[2]}}
Inserted(order, t) == Remove(order, t) \cup ((Linked(order) \cup {t}) \X {t})
Count(a)           == IF a \in KernelKeys THEN 1 ELSE 0

\* Mutant: AddWaiterImpl counts a kernel waiter once per lock, not per waiter.
AddWaiterCountsLocks(s, o, t) ==
    [s EXCEPT !.owner[t] = o, !.order = Inserted(@, t),
              !.kwaiters[o] = @ + IF WaitersByKey(s, o, s.key[t]) = {} THEN Count(s.key[t]) ELSE 0]

AddWaiterImpl(s, o, t) ==
    [s EXCEPT !.owner[t] = o,
              !.order = Inserted(@, t),
              !.kwaiters[o] = @ + Count(s.key[t])]

RemoveWaiterImpl(s, t) ==
    [s EXCEPT !.owner[t] = Nobody,
              !.order = Remove(@, t),
              !.kwaiters[s.owner[t]] = @ - Count(s.key[t])]
-----------------------------------------------------------------------------
(* Priority inheritance.                                                   *)

Inherited(s, t) == Min({s.base[t]} \cup {s.prio[u] : u \in WaitersOf(s, t)})

\* One turn of RestorePriority's loop.  A thread in a tree is taken out before
\* its priority changes and inserted again after (which leaves its owner's
\* count of kernel waiters as it was); the loop goes on with the lock's owner.
RestoreStep(r) ==
    IF r.at = Nobody \/ Inherited(r.s, r.at) = r.s.prio[r.at]
    THEN [r EXCEPT !.at = Nobody]
    ELSE [s  |-> [r.s EXCEPT !.prio[r.at] = Inherited(r.s, r.at),
                             !.order = IF r.s.owner[r.at] # Nobody \/ r.s.condvar[r.at] # Nobody
                                       THEN Inserted(@, r.at) ELSE @],
          at |-> r.s.owner[r.at]]

\* Mutant: RestorePriority does not go on with the owner of the lock waited for.
RestoreOnce(s, t) ==
    LET r == RestoreStep([s |-> s, at |-> t])
    IN  [s EXCEPT !.prio = r.s.prio, !.order = r.s.order]

\* A chain of owners visits a thread at most twice before its priority is stable.
RestorePriority(s, t) ==
    LET turns == 2 * Cardinality(Threads)
        turn[i \in 0 .. turns] ==
            IF i = 0 THEN [s |-> s, at |-> t] ELSE RestoreStep(turn[i - 1])
    IN  [s EXCEPT !.prio = turn[turns].s.prio, !.order = turn[turns].s.order]

AddWaiter(s, o, t) ==
    LET s1 == AddWaiterImpl(s, o, t)
    IN  IF s1.prio[t] < s1.prio[o] THEN RestorePriority(s1, o) ELSE s1

\* "If our priority is the same as the thread's (and we've inherited), we may
\* need to restore to lower priority."
RestoreAfter(s, o, t) ==
    IF s.prio[o] = s.prio[t] /\ s.prio[o] < s.base[o] THEN RestorePriority(s, o) ELSE s

RemoveWaiter(s, t) == RestoreAfter(RemoveWaiterImpl(s, t), s.owner[t], t)

\* RemoveWaiterByKey: the state after it, the next owner and *out_has_waiters.
\* The lock info, with the waiters left on it, passes to the next owner.
RemoveWaiterByKey(s, o, a) ==
    LET S    == WaitersByKey(s, o, a)
        next == FrontOf(s, S)
        rest == S \ {next}
        s1   == [s EXCEPT !.owner = [t \in Threads |-> IF t = next THEN Nobody
                                                       ELSE IF t \in rest THEN next ELSE @[t]],
                          !.order = Remove(@, next),
                          !.kwaiters = [t \in Threads |->
                              @[t] + Count(a) * (IF t = o THEN -Cardinality(S)
                                                 ELSE IF t = next THEN Cardinality(rest) ELSE 0)]]
    IN  IF S = {} THEN [s |-> s, next |-> Nobody, more |-> FALSE]
        ELSE [s |-> RestoreAfter(s1, o, next), next |-> next, more |-> rest # {}]

SetBasePriority(s, t, p) ==
    RestorePriority([s EXCEPT !.base[t] = IF s.term[t] /\ p >= Terminating THEN Terminating ELSE p], t)
-----------------------------------------------------------------------------
(* Waiting.                                                                *)

\* BeginWait, and the timer task KScopedSchedulerLockAndSleep registers.
BeginWait(s, t, q, timed) ==
    [s EXCEPT !.state[t] = "Waiting", !.queue[t] = q,
              !.timer = IF timed THEN @ \cup {t} ELSE @]

\* Mutant: ending a wait leaves its timer task registered.
WakeKeepsTimer(s, t, r) ==
    [s EXCEPT !.state[t] = "Runnable", !.queue[t] = "none", !.result[t] = r, !.key[t] = Nobody]

\* KThreadQueue::EndWait and the base CancelWait; both clear the timer task,
\* except when it is the timer that cancels (and has removed the task itself).
\* The address key is dead from here on: every wait sets it again; and nobody
\* reads the result of a wait in a light lock or a light condition variable.
Wake(s, t, r) ==
    [s EXCEPT !.state[t] = "Runnable", !.queue[t] = "none",
              !.result[t] = IF s.queue[t] = "lightcv" THEN @ ELSE r,
              !.timer = @ \ {t}, !.key[t] = Nobody]

\* KThread::EndWait.
EndWait(s, t, r) == IF s.state[t] = "Waiting" THEN Wake(s, t, r) ELSE s

ClearConditionVariable(s, t) == [s EXCEPT !.condvar[t] = Nobody, !.order = Remove(@, t)]

\* Mutant: a cancelled condition variable wait leaves the lock's waiters alone.
CancelKeepsWaiter(s, t, r) ==
    CASE s.queue[t] = "address"   -> Wake(RemoveWaiter(s, t), t, r)
      [] s.queue[t] = "condvar"   -> Wake(ClearConditionVariable(s, t), t, r)
      [] s.queue[t] = "lightlock" -> s
      [] s.queue[t] = "lightcv"   -> Wake(s, t, r)

\* CancelWait of the queue the thread waits in: a wait for a light lock cannot
\* be cancelled; a condition variable's waiter is in its tree or, once
\* signalled, among the waiters of the mutex.
CancelWait(s, t, r) ==
    CASE s.queue[t] = "address"   -> Wake(RemoveWaiter(s, t), t, r)
      [] s.queue[t] = "condvar"   ->
            LET s1 == IF s.owner[t] # Nobody THEN RemoveWaiter(s, t) ELSE s
                s2 == IF s.condvar[t] # Nobody THEN ClearConditionVariable(s1, t) ELSE s1
            IN  Wake(s2, t, r)
      [] s.queue[t] = "lightlock" -> s
      [] s.queue[t] = "lightcv"   -> Wake(s, t, r)

\* The timer interrupt: DoInterruptTaskImpl removes the task, OnTimer cancels.
OnTimer(t) ==
    /\ t \in k.timer
    /\ LET s == [k EXCEPT !.timer = @ \ {t}]
       IN  k' = IF s.state[t] = "Waiting" THEN CancelWait(s, t, "TimedOut") ELSE s
-----------------------------------------------------------------------------
(* Suspension and termination.                                             *)

IsSuspended(s, t) == s.allow[t] /\ s.request[t] # {}
UpdateState(s, t) == [s EXCEPT !.flags[t] = IF s.allow[t] THEN s.request[t] ELSE {}]

\* Mutant: TrySuspend does not look for kernel waiters.
TrySuspendAlways(s, t) == UpdateState(s, t)

TrySuspend(s, t) == IF s.kwaiters[t] > 0 THEN s ELSE UpdateState(s, t)

\* Mutant: a suspended owner is not made to run for its kernel waiters.
ContinueNever(s, t) == s

ContinueIfHasKernelWaiters(s, t) ==
    IF IsSuspended(s, t) /\ s.kwaiters[t] > 0 THEN [s EXCEPT !.flags[t] = {}] ELSE s

\* SetActivity's RequestSuspend and Resume, under its checks.
RequestSuspend(t, type) ==
    /\ k.state[t] # "Terminated" /\ type \notin k.request[t]
    /\ k' = TrySuspend([k EXCEPT !.request[t] = @ \cup {type}], t)

Resume(t, type) ==
    /\ k.state[t] # "Terminated" /\ type \in k.request[t]
    /\ k' = UpdateState([k EXCEPT !.request[t] = @ \ {type}], t)

\* Mutant: a waiting thread is not woken to terminate.
LeaveAsleep(s, t) == s

WakeToTerminate(s, t) ==
    IF s.state[t] = "Waiting" THEN CancelWait(s, t, "TerminationRequested") ELSE s

\* The first RequestTerminate of a thread.
RequestTerminate(t) ==
    /\ ~k.term[t]
    /\ LET s1 == [k EXCEPT !.term[t] = TRUE]
           s2 == IF IsSuspended(s1, t) THEN UpdateState([s1 EXCEPT !.allow[t] = FALSE], t) ELSE s1
           s3 == IF s2.base[t] > Terminating
                 THEN RestorePriority([s2 EXCEPT !.base[t] = Terminating], t) ELSE s2
       IN  k' = WakeToTerminate(s3, t)

\* Exit, under the scheduler lock: suspension is disallowed, the state is set.
Terminated(s, t) ==
    [UpdateState([s EXCEPT !.allow[t] = FALSE], t) EXCEPT !.state[t] = "Terminated"]

SetPriority(t, p) == k' = SetBasePriority(k, t, p)
=============================================================================
