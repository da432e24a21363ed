------------------------------ MODULE MCKernel ------------------------------
(* Instances of KernelSync.                                                *)
EXTENDS KernelSync, TLC

CONSTANTS t1, t2, t3, NoThread, LockKey, MutexKey, CondKey

PriorityOf == [t \in Threads |-> IF t = t1 THEN 2 ELSE IF t = t2 THEN 3 ELSE 4]

\* t1 waits for what t2 signals; t3, with the lowest priority, contends for both
\* locks; t2 and t3 reserve.
Roles ==
    (t1 :> {"lock", "wait"} @@ t2 :> {"lock", "signal", "limit", "reserve"}
     @@ t3 :> {"lock", "wait", "reserve", "release"})
=============================================================================
