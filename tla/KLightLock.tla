----------------------------- MODULE KLightLock -----------------------------
(***************************************************************************)
(* KLightLock, the kernel's mutex, and KLightConditionVariable.  The fast  *)
(* paths are compare-exchanges on the lock's tag (the owner, and a low bit *)
(* that says that somebody may wait) outside the scheduler lock; the slow  *)
(* paths run under it.  One lock is modelled, m_lock of a resource limit.  *)
(***************************************************************************)
EXTENDS KThread

CONSTANT LightLock   \* the address of m_lock.m_tag

ASSUME LightLockAssumption == LightLock \in KernelKeys

VARIABLE ltag   \* m_lock.m_tag: the owner and the low bit

Tags == [owner : Threads \cup {Nobody}, wait : BOOLEAN]
Free == [owner |-> Nobody, wait |-> FALSE]

\* A thread past Lock(): it took the tag, or its wait for it was ended.
HasLightLock(t) == pc[t] = "locked" \/ (pc[t] = "lockwait" /\ k.state[t] = "Runnable")

\* The compare-exchange loop of Lock, at the exchange that succeeds.  It also
\* comes here from KLightConditionVariable::Wait, to lock again.
LockCas(t) ==
    /\ Runs(t) /\ pc[t] \in {"lock", "lightcv"}
    /\ IF ltag = Free
       THEN /\ ltag' = [owner |-> t, wait |-> FALSE]
            /\ pc' = [pc EXCEPT ![t] = "locked"]
            /\ UNCHANGED seen
       ELSE /\ ltag' = [ltag EXCEPT !.wait = TRUE]
            /\ pc' = [pc EXCEPT ![t] = "lockslow"]
            /\ seen' = [seen EXCEPT ![t] = ltag.owner]
    /\ UNCHANGED k

LockSlowPath(t) ==
    /\ Runs(t) /\ pc[t] = "lockslow"
    /\ IF ltag # [owner |-> seen[t], wait |-> TRUE]
       THEN pc' = [pc EXCEPT ![t] = "lock"] /\ UNCHANGED k
       ELSE /\ k' = ContinueIfHasKernelWaiters(
                        BeginWait(AddWaiter([k EXCEPT !.key[t] = LightLock], seen[t], t),
                                  t, "lightlock", FALSE), seen[t])
            /\ pc' = [pc EXCEPT ![t] = "lockwait"]
    /\ seen' = [seen EXCEPT ![t] = Nobody]
    /\ UNCHANGED ltag

\* Mutant: the tag is cleared although the lock has a next owner.
UnlockToNobody(s, t) ==
    LET r == RemoveWaiterByKey(s, t, LightLock)
    IN  [s |-> IF r.next = Nobody THEN r.s ELSE EndWait(r.s, r.next, "Success"), tag |-> Free]

\* UnlockSlowPath: hand the lock to the highest priority waiter, suspend this
\* thread again if the kernel waiters had kept it running, store the tag.
UnlockSlowPath(s, t) ==
    LET r  == RemoveWaiterByKey(s, t, LightLock)
        s1 == IF r.next = Nobody THEN r.s
              ELSE ContinueIfHasKernelWaiters(EndWait(r.s, r.next, "Success"), r.next)
    IN  [s   |-> IF IsSuspended(s1, t) THEN TrySuspend(s1, t) ELSE s1,
         tag |-> [owner |-> r.next, wait |-> r.more]]

\* Unlock: the exchange that succeeds if nobody has set the low bit.
Unlock(s, t) ==
    IF ltag = [owner |-> t, wait |-> FALSE] THEN [s |-> s, tag |-> Free]
    ELSE UnlockSlowPath(s, t)

\* The wait list of the condition variable: the threads waiting in its queue.
LightCvWaiters(s) == {t \in Threads : s.queue[t] = "lightcv"}

\* KLightConditionVariable::Wait up to the end of its scheduler lock: unlock,
\* join the list, sleep.  Another thread can take the light lock by its exchange
\* between the unlock and the joining, but its Broadcast needs the scheduler lock
\* and so finds this thread in the list: it comes after this step.
LightCvWait(t) ==
    LET u == Unlock(k, t)
    IN  /\ k' = BeginWait(u.s, t, "lightcv", TRUE)
        /\ ltag' = u.tag
        /\ pc' = [pc EXCEPT ![t] = "lightcv"]

\* Broadcast: end the wait of every thread of the list.
Broadcast(s) ==
    LET W == LightCvWaiters(s)
        Pick(f, v) == [t \in Threads |-> IF t \in W THEN v ELSE f[t]]
    IN  [s EXCEPT !.state = Pick(@, "Runnable"), !.queue = Pick(@, "none"),
                  !.result = Pick(@, "Success"), !.timer = @ \ W]

\* At most one thread is past KLightLock::Lock, and the tag names it; the thread
\* it names is past Lock: no hand-over is lost.
LightMutex ==
    /\ \A t \in Threads : HasLightLock(t) => ltag.owner = t
    /\ ltag.owner # Nobody => HasLightLock(ltag.owner)

\* A thread that others wait for inside the kernel is never suspended (the
\* check in TrySuspend, ContinueIfHasKernelWaiters in the light lock).
KernelOwnerRuns ==
    \A t \in Threads : k.flags[t] # {} => \A a \in KernelKeys : WaitersByKey(k, t, a) = {}
=============================================================================
