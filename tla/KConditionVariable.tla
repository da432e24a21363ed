------------------------- MODULE KConditionVariable -------------------------
(***************************************************************************)
(* KConditionVariable: the kernel's half of a process's mutexes and        *)
(* condition variables.  A mutex is a word of the process: the handle of   *)
(* its owner and HandleWaitMask.  The process locks and unlocks it itself  *)
(* while nobody waits; libnx's mutexLock and mutexUnlock do so, and        *)
(* InternalConditionVariableImpl waits and signals.  A mutex's word, and   *)
(* the word of a condition variable, stay mapped and accessible.           *)
(***************************************************************************)
EXTENDS KThread

CONSTANT Mutex   \* the address of the mutex's word

ASSUME MutexAssumption == Mutex \in UserKeys

VARIABLES
    tag,     \* the mutex's word: the owner's handle and HandleWaitMask
    flag,    \* the word of each condition variable: "has waiters"
    in       \* the threads in the mutex's critical section

cvars == <<tag, flag, in>>

Unlocked == [owner |-> Nobody, wait |-> FALSE]

CondVarInit == tag = Unlocked /\ flag = [c \in CondVarKeys |-> 0] /\ in = {}

\* mutexLock's exchange: take the free word, or mark it and ask the kernel.  It
\* is tried again when ArbitrateLock has returned, unless the kernel has put
\* this thread's handle in the word.
MutexLock(t) ==
    /\ Runs(t)
    /\ \/ pc[t] = "user" /\ t \notin in
       \/ pc[t] = "relock"
       \/ pc[t] = "address" /\ k.result[t] = "Success"
    /\ IF tag.owner \in {Nobody, t}
       THEN /\ tag' = IF tag.owner = t THEN tag ELSE [owner |-> t, wait |-> FALSE]
            /\ in' = in \cup {t}
            /\ pc' = [pc EXCEPT ![t] = "user"]
            /\ UNCHANGED seen
       ELSE /\ tag' = [tag EXCEPT !.wait = TRUE]
            /\ seen' = [seen EXCEPT ![t] = tag.owner]
            /\ pc' = [pc EXCEPT ![t] = "arbitrate"]
            /\ UNCHANGED in
    /\ UNCHANGED <<k, flag>>

\* ArbitrateLock: wait on the owner if the word still is what the thread saw.
WaitForAddress(t) ==
    /\ Runs(t) /\ pc[t] = "arbitrate"
    /\ IF k.term[t] \/ tag # [owner |-> seen[t], wait |-> TRUE]
       THEN /\ pc' = [pc EXCEPT ![t] = IF k.term[t] THEN "doomed" ELSE "relock"]
            /\ UNCHANGED k
       ELSE /\ k' = BeginWait(AddWaiter([k EXCEPT !.key[t] = Mutex], seen[t], t),
                              t, "address", FALSE)
            /\ pc' = [pc EXCEPT ![t] = "address"]
    /\ seen' = [seen EXCEPT ![t] = Nobody]
    /\ UNCHANGED cvars

\* mutexUnlock: clear the word, or let the kernel hand it on.
MutexUnlock(t) ==
    /\ Runs(t) /\ pc[t] = "user" /\ t \in in
    /\ IF tag.wait
       THEN pc' = [pc EXCEPT ![t] = "arbunlock"] /\ UNCHANGED <<tag, in>>
       ELSE tag' = Unlocked /\ in' = in \ {t} /\ UNCHANGED pc
    /\ UNCHANGED <<k, seen, flag>>

\* Mutant: the next owner is not woken.
HandOverAsleep(s, t) ==
    LET r == RemoveWaiterByKey(s, t, Mutex)
    IN  [s |-> r.s, tag |-> [owner |-> r.next, wait |-> r.more]]

\* The hand-over that SignalToAddress and Wait share: the highest priority
\* waiter owns the mutex, and the waiters left wait on it.
HandOver(s, t) ==
    LET r == RemoveWaiterByKey(s, t, Mutex)
    IN  [s   |-> IF r.next = Nobody THEN r.s ELSE EndWait(r.s, r.next, "Success"),
         tag |-> [owner |-> r.next, wait |-> r.more]]

\* ArbitrateUnlock.
SignalToAddress(t) ==
    /\ Runs(t) /\ pc[t] = "arbunlock"
    /\ k' = HandOver(k, t).s
    /\ tag' = HandOver(k, t).tag
    /\ in' = in \ {t}
    /\ pc' = [pc EXCEPT ![t] = "user"]
    /\ UNCHANGED <<seen, flag>>

\* WaitProcessWideKeyAtomic: release the mutex and join the tree, unless the
\* timeout is zero.
Wait(t, c, timeout) ==
    /\ Runs(t) /\ pc[t] = "user" /\ t \in in
    /\ IF k.term[t]
       THEN pc' = [pc EXCEPT ![t] = "doomed"] /\ UNCHANGED <<k, cvars>>
       ELSE /\ tag' = HandOver(k, t).tag
            /\ in' = in \ {t}
            /\ flag' = [flag EXCEPT ![c] = 1]
            /\ IF timeout = "zero"
               THEN k' = HandOver(k, t).s /\ pc' = [pc EXCEPT ![t] = "relock"]
               ELSE /\ k' = BeginWait([HandOver(k, t).s EXCEPT !.condvar[t] = c, !.key[t] = Mutex,
                                                               !.order = Inserted(@, t)],
                                      t, "condvar", timeout = "timed")
                    /\ pc' = [pc EXCEPT ![t] = "condvar"]
    /\ UNCHANGED seen

\* The wait has ended: with the mutex, or to lock it again after the timeout.
WaitReturns(t) ==
    /\ Runs(t)
    /\ \/ pc[t] = "condvar"
       \/ pc[t] = "address" /\ k.result[t] = "TerminationRequested"
    /\ in' = IF pc[t] = "condvar" /\ k.result[t] = "Success" THEN in \cup {t} ELSE in
    /\ pc' = [pc EXCEPT ![t] = CASE k.result[t] = "Success"  -> "user"
                                 [] k.result[t] = "TimedOut" -> "relock"
                                 [] OTHER                    -> "doomed"]
    /\ k' = [k EXCEPT !.result[t] = "Success"]
    /\ UNCHANGED <<seen, tag, flag>>

\* Mutant: SignalImpl takes the mutex from whoever holds it.
SignalImplSteals(s, g, t) ==
    IF g.owner = Nobody \/ ~g.wait
    THEN [s |-> EndWait(s, t, "Success"), tag |-> [owner |-> t, wait |-> FALSE]]
    ELSE [s |-> AddWaiter(s, g.owner, t), tag |-> [g EXCEPT !.wait = TRUE]]

\* SignalImpl: UpdateLockAtomic gives a free mutex to the thread, which then
\* runs; else the thread waits, still in the same wait, on the mutex's owner.
SignalImpl(s, g, t) ==
    IF g.owner = Nobody
    THEN [s |-> EndWait(s, t, "Success"), tag |-> [owner |-> t, wait |-> FALSE]]
    ELSE [s |-> AddWaiter(s, g.owner, t), tag |-> [g EXCEPT !.wait = TRUE]]

\* One turn of Signal's loop: the iterator steps on before SignalImpl runs.
SignalStep(c, r) ==
    IF r.at = Nobody THEN r
    ELSE LET t    == r.at
             s1   == ClearConditionVariable(r.s, t)
             tree == {u \in CondVarTree(s1, c) : InFront(r.s, t, u)}
             i    == SignalImpl(s1, r.tag, t)
         IN  [s |-> i.s, tag |-> i.tag, at |-> IF tree = {} THEN Nobody ELSE FrontOf(s1, tree)]

\* Mutant: Signal clears the flag whoever is left in the tree.
FlagCleared(c, r) == 0

\* "If we have no waiters, clear the has waiter flag."
FlagAfter(c, r) == IF r.at = Nobody THEN 0 ELSE flag[c]

\* SignalProcessWideKey: one waiter of the key (count 1) or all (count -1).
Signal(t, c, count) ==
    /\ Runs(t) /\ pc[t] = "user"
    /\ LET tree  == CondVarTree(k, c)
           first == [s |-> k, tag |-> tag, at |-> IF tree = {} THEN Nobody ELSE FrontOf(k, tree)]
           turns == IF count > 0 THEN count ELSE Cardinality(Threads)
           turn[i \in 0 .. turns] == IF i = 0 THEN first ELSE SignalStep(c, turn[i - 1])
       IN  /\ k' = turn[turns].s
           /\ tag' = turn[turns].tag
           /\ flag' = [flag EXCEPT ![c] = FlagAfter(c, turn[turns])]
    /\ UNCHANGED <<pc, seen, in>>
=============================================================================
