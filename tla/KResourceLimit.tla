--------------------------- MODULE KResourceLimit ---------------------------
(***************************************************************************)
(* KResourceLimit, one resource of it: the thread count of the process.    *)
(* Each thread was charged when it was created; a thread may reserve and   *)
(* release a further one (a thread it creates and destroys), and a thread  *)
(* that exits releases its hint but not its value.  Values are 1.          *)
(*                                                                         *)
(* What a call does while it holds m_lock is one step with the unlock that *)
(* ends it: the values are read and written under that lock only.  In the  *)
(* code a thread that a Broadcast wakes can come to the lock before that   *)
(* unlock, mark the tag and wait in LockSlowPath; here it finds the lock   *)
(* released, or held by the next one, and waits there.  Either way it is   *)
(* the unlock, by an exchange or a hand-over, that lets it on.             *)
(***************************************************************************)
EXTENDS KLightLock

CONSTANT Limits   \* the limit values in use

VARIABLES
    lim,     \* m_limit, m_current, m_hint, m_peak values and m_waiter_count
    op,      \* the call a thread is in
    late,    \* whether a Reserve's timeout has passed
    extra    \* the reservations a thread holds

lvars == <<ltag, lim, op, late, extra>>

ASSUME LimitsAssumption ==
    /\ Limits \subseteq Nat /\ \E l \in Limits : \A m \in Limits : m <= l
    /\ \A l \in Limits : Cardinality(Threads) <= l

Ops == {"none", "reserve", "retry", "release", "limit", "exit"}

LimitInit ==
    /\ ltag = Free
    /\ lim = [limit |-> Max(Limits), current |-> Cardinality(Threads), hint |-> Cardinality(Threads),
              peak |-> Cardinality(Threads), waiters |-> 0]
    /\ op = [t \in Threads |-> "none"]
    /\ late = [t \in Threads |-> FALSE]
    /\ extra = [t \in Threads |-> 0]

\* A supervisor call enters the kernel and comes to KScopedLightLock.
Call(t, o) ==
    /\ op' = [op EXCEPT ![t] = o]
    /\ late' = [late EXCEPT ![t] = FALSE]
    /\ pc' = [pc EXCEPT ![t] = "lock"]
    /\ UNCHANGED <<k, seen, ltag, lim, extra>>

\* The end of a KScopedLightLock's scope, with the threads in state s.
Leave(t, s) ==
    LET u == Unlock(s, t)
    IN  /\ k' = u.s
        /\ ltag' = u.tag
        /\ pc' = [pc EXCEPT ![t] = IF op[t] = "exit" THEN "exiting" ELSE "user"]
        /\ op' = [op EXCEPT ![t] = "none"]
        /\ late' = [late EXCEPT ![t] = FALSE]
        /\ UNCHANGED seen

\* Mutant: a reservation is granted on the hints, not on the values.
FitsHint == lim.hint + 1 <= lim.limit

Fits == lim.current + 1 <= lim.limit

\* Reserve: the early return on the hints, then one turn of its loop; "retry"
\* is the turn after a wait, which first leaves the waiters' count and returns
\* if the thread is to terminate.  A terminating thread's wait returns at once.
Reserve(t) ==
    /\ Runs(t) /\ HasLightLock(t) /\ op[t] \in {"reserve", "retry"}
    /\ \E passed \in {late[t], TRUE} :
       LET base   == IF op[t] = "retry" THEN lim.waiters - 1 ELSE lim.waiters
           giveUp == IF op[t] = "retry" THEN k.term[t] ELSE lim.hint >= lim.limit
           wait   == ~Fits /\ lim.hint + 1 <= lim.limit /\ ~passed /\ ~k.term[t]
       IN  \/ /\ ~giveUp /\ Fits
              /\ lim' = [lim EXCEPT !.current = @ + 1, !.hint = @ + 1, !.waiters = base,
                                    !.peak = IF lim.current + 1 > @ THEN lim.current + 1 ELSE @]
              /\ extra' = [extra EXCEPT ![t] = @ + 1]
              /\ Leave(t, k)
           \/ /\ ~giveUp /\ wait
              /\ lim' = [lim EXCEPT !.waiters = base + 1]
              /\ op' = [op EXCEPT ![t] = "retry"]
              /\ LightCvWait(t)
              /\ UNCHANGED <<seen, late, extra>>
           \/ /\ giveUp \/ ~(Fits \/ wait)
              /\ lim' = [lim EXCEPT !.waiters = base]
              /\ Leave(t, k)
              /\ UNCHANGED extra

\* Mutant: Release does not wake the threads waiting to reserve.
ReleaseQuietly(t) ==
    /\ Runs(t) /\ HasLightLock(t) /\ op[t] \in {"release", "exit"}
    /\ lim' = [lim EXCEPT !.current = @ - (IF op[t] = "exit" THEN 0 ELSE 1), !.hint = @ - 1]
    /\ extra' = [extra EXCEPT ![t] = @ - (IF op[t] = "exit" THEN 0 ELSE 1)]
    /\ Leave(t, k)

\* Release(1, 1), or the Release(0, 1) of a thread that exits.
Release(t) ==
    /\ Runs(t) /\ HasLightLock(t) /\ op[t] \in {"release", "exit"}
    /\ LET value == IF op[t] = "exit" THEN 0 ELSE 1
       IN  /\ lim' = [lim EXCEPT !.current = @ - value, !.hint = @ - 1]
           /\ extra' = [extra EXCEPT ![t] = @ - value]
    /\ Leave(t, IF lim.waiters # 0 THEN Broadcast(k) ELSE k)

SetLimitValue(t) ==
    /\ Runs(t) /\ HasLightLock(t) /\ op[t] = "limit"
    /\ \E l \in Limits :
           lim' = IF lim.current <= l THEN [lim EXCEPT !.limit = l, !.peak = lim.current] ELSE lim
    /\ Leave(t, k)
    /\ UNCHANGED extra

\* A supervisor call of a thread that runs in user mode.
Request(t, o) ==
    /\ Runs(t) /\ pc[t] = "user" /\ (o = "release" => extra[t] > 0)
    /\ Call(t, o)

LimitStep(t) ==
    \/ (LockCas(t) \/ LockSlowPath(t)) /\ UNCHANGED <<lim, op, late, extra>>
    \/ Reserve(t) \/ Release(t) \/ SetLimitValue(t)

\* The thread leaves: it was asked to terminate and is not inside the kernel.
\* Exit releases the thread's hint, then terminates it.  A program's own call of
\* ExitThread comes to the same Exit and is not modelled, nor is the Release(1, 0)
\* of PostDestroy: the value of a thread that has left stays charged.
Exit(t) ==
    \/ /\ Runs(t) /\ k.term[t]
       /\ pc[t] \in {"user", "arbitrate", "relock", "arbunlock", "doomed"}
       /\ Call(t, "exit")
    \/ /\ Runs(t) /\ pc[t] = "exiting"
       /\ k' = Terminated(k, t)
       /\ pc' = [pc EXCEPT ![t] = "dead"]
       /\ UNCHANGED <<seen, lvars>>

\* The timer interrupt; a Reserve it wakes is past its timeout.
LimitTimer(t) ==
    /\ OnTimer(t)
    /\ late' = [late EXCEPT ![t] = (op[t] = "retry")]
    /\ UNCHANGED <<pc, seen, ltag, lim, op, extra>>
=============================================================================
