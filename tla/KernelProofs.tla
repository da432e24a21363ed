---------------------------- MODULE KernelProofs ----------------------------
(***************************************************************************)
(* The safety properties of KernelSync, for any number of threads with any *)
(* priorities, programs, limits and timeouts.  The inductive invariant is  *)
(* Kern of KernelLemmas with the words of the condition variables and the  *)
(* account of the resource limit; every action keeps it.                   *)
(***************************************************************************)
EXTENDS ThreadProofs, KernelSteps, LimitProofs

\* The inductive invariant.
Inv ==
    /\ KernInv /\ CvFlag(k, flag)
    /\ Account(pc, op, lim, extra) /\ late \in [Threads -> BOOLEAN]

\* A step of a thread in the mutex or a condition variable.
LEMMA MutexStep ==
  ASSUME Inv, NEW t \in Threads, MutexCall(t), UNCHANGED lvars
  PROVE  Inv' /\ (Susp(k) => Susp(k')) /\ lim' = lim
<1>1. KernInv /\ CvFlag(k, flag) /\ Account(pc, op, lim, extra) /\ late \in [Threads -> BOOLEAN]
  BY Zenon DEF Inv
<1>2. ltag' = ltag /\ lim' = lim /\ late' = late
  BY Zenon DEF lvars
<1>3. Account(pc', op', lim', extra')
  BY Zenon, <1>1, MutexAccounts
<1>4. KernInv' /\ (Susp(k) => Susp(k')) /\ CvFlag(k', flag')
  BY Zenon, <1>1, <1>2, MutexKeeps, ThreadFactsHold
<1> QED
  BY Zenon, <1>1, <1>2, <1>3, <1>4 DEF Inv

\* Nobody waits for a release who is not counted.
LEMMA Uncounted ==
  ASSUME Inv, lim.waiters = 0
  PROVE  \A u \in Threads : k.queue[u] # "lightcv"
<1>1. /\ lim.waiters = Cardinality(Retries(op)) /\ \A u \in Threads : InCall(pc, op, extra, u)
  BY Zenon DEF Inv, Account
<1>2. Retries(op) = {}
  BY Zenon, <1>1, GoneFinite, FS_EmptySet
<1>3. SUFFICES ASSUME NEW u \in Threads, k.queue[u] = "lightcv" PROVE FALSE
  BY Zenon
<1>4. Place(k, pc, ltag, tag, u)
  BY Zenon, KernTypes DEF Inv, Spot
<1>5. pc[u] = "lightcv"
  BY Zenon, <1>3, <1>4 DEF Place
<1> QED
  BY Zenon, <1>1, <1>2, <1>5 DEF InCall, Retries

\* A step of a thread in the resource limit, or one that leaves the process.
LEMMA LimitKeeps ==
  ASSUME Inv, NEW t \in Threads, LimitCall(t), UNCHANGED cvars
  PROVE  /\ Inv' /\ (Susp(k) => Susp(k'))
         /\ lim'.current < lim.current => LightCvWaiters(k') = {}
<1>1. KernInv /\ CvFlag(k, flag) /\ Account(pc, op, lim, extra) /\ late \in [Threads -> BOOLEAN]
  BY Zenon DEF Inv
<1>2. tag' = tag /\ in' = in /\ flag' = flag
  BY Zenon DEF cvars
<1>3. lim.current \in Nat
  BY Zenon, <1>1, AccountNumbers
<1>4. SUFFICES /\ Kept /\ Account(pc', op', lim', extra') /\ late' \in [Threads -> BOOLEAN]
               /\ lim'.current < lim.current => LightCvWaiters(k') = {}
  <2>1. ASSUME Kept PROVE CvFlag(k', flag') /\ KernInv' /\ (Susp(k) => Susp(k'))
    BY Zenon, <1>1, <1>2, <2>1, FlagStays DEF Kept
  <2> QED
    BY Zenon, <2>1 DEF Inv
<1>5. ASSUME NEW o \in {"reserve", "release", "limit", "exit"}, Call(t, o), Runs(t),
             o = "release" => extra[t] > 0, pc[t] \in {"user", "arbitrate", "relock", "arbunlock", "doomed"}
      PROVE  /\ Kept /\ Account(pc', op', lim', extra') /\ late' \in [Threads -> BOOLEAN] /\ lim' = lim
  <2>1. Kept
    BY Zenon, <1>1, <1>2, <1>5, CallKeeps
  <2>2. Account(pc', op', lim', extra')
    BY Zenon, <1>1, <1>5, CallAccounts DEF FreePCs
  <2>3. late' \in [Threads -> BOOLEAN] /\ lim' = lim
    BY Zenon, <1>1, <1>5 DEF Call
  <2> QED
    BY Zenon, <2>1, <2>2, <2>3
<1>6. CASE \E o \in {"reserve", "release", "limit"} : Request(t, o) /\ NewCall(t, o)
  <2>1. PICK o \in {"reserve", "release", "limit"} : Request(t, o)
    BY Zenon, <1>6
  <2>2. Call(t, o) /\ Runs(t) /\ (o = "release" => extra[t] > 0) /\ pc[t] = "user"
    BY Zenon, <2>1 DEF Request
  <2> QED
    BY <1>3, <1>5, <2>2
<1>7. CASE LockCas(t) /\ UNCHANGED <<lim, op, late, extra>>
  <2>1. Kept /\ Account(pc', op', lim', extra')
    BY Zenon, <1>1, <1>2, <1>7, LockCasKeeps, LockAccounts
  <2> QED
    BY <1>1, <1>3, <1>7, <2>1
<1>8. CASE LockSlowPath(t) /\ UNCHANGED <<lim, op, late, extra>>
  <2>1. Kept /\ Account(pc', op', lim', extra')
    BY Zenon, <1>1, <1>2, <1>8, LockSlowPathKeeps, ThreadFactsHold, LockAccounts
  <2> QED
    BY <1>1, <1>3, <1>8, <2>1
<1>9. CASE Reserve(t)
  <2>1. Kept /\ Account(pc', op', lim', extra') /\ ~(lim'.current < lim.current)
    BY Zenon, <1>1, <1>2, <1>9, ReserveKeeps, ThreadFactsHold, ReserveAccounts, NotLower
  <2>2. late' = [late EXCEPT ![t] = FALSE] \/ late' = late
    BY Zenon, <1>9 DEF Reserve, Leave
  <2> QED
    BY Zenon, <1>1, <2>1, <2>2
<1>10. CASE Release(t)
  <2>1. /\ Kept /\ Account(pc', op', lim', extra')
        /\ (lim.waiters # 0 => \A u \in Threads : k'.queue[u] # "lightcv")
        /\ (\A u \in Threads : k'.queue[u] = "lightcv" => k.queue[u] = "lightcv")
    BY Zenon, <1>1, <1>2, <1>10, ReleaseKeeps, ThreadFactsHold, ReleaseAccounts
  <2>2. lim.waiters = 0 => \A u \in Threads : k.queue[u] # "lightcv"
    BY Zenon, Uncounted
  <2>3. LightCvWaiters(k') = {}
    BY Zenon, <2>1, <2>2 DEF LightCvWaiters
  <2>4. late' = [late EXCEPT ![t] = FALSE]
    BY Zenon, <1>10 DEF Release, Leave
  <2> QED
    BY Zenon, <1>1, <2>1, <2>3, <2>4
<1>11. CASE SetLimitValue(t)
  <2>1. Kept /\ Account(pc', op', lim', extra') /\ ~(lim'.current < lim.current)
    BY Zenon, <1>1, <1>2, <1>11, SetLimitValueKeeps, ThreadFactsHold, SetLimitAccounts, NotLower
  <2>2. late' = [late EXCEPT ![t] = FALSE]
    BY Zenon, <1>11 DEF SetLimitValue, Leave
  <2> QED
    BY Zenon, <1>1, <2>1, <2>2
<1>12. CASE Exit(t)
  <2>1. Kept
    BY Zenon, <1>1, <1>2, <1>12, ExitKeeps
  <2>2. CASE /\ pc[t] \in {"user", "arbitrate", "relock", "arbunlock", "doomed"} /\ Runs(t) /\ Call(t, "exit")
    BY <1>3, <1>5, <2>2
  <2>3. CASE pc[t] = "exiting" /\ pc' = [pc EXCEPT ![t] = "dead"] /\ UNCHANGED lvars
    <3>1. op' = op /\ lim' = lim /\ extra' = extra /\ late' = late
      BY Zenon, <2>3 DEF lvars
    <3>2. Account(pc', op', lim', extra')
      BY Zenon, <1>1, <2>3, <3>1, LockAccounts
    <3> QED
      BY <1>1, <1>3, <2>1, <3>1, <3>2
  <2> QED
    BY Zenon, <1>12, <2>2, <2>3 DEF Exit
<1> QED
  BY Zenon, <1>6, <1>7, <1>8, <1>9, <1>10, <1>11, <1>12 DEF LimitCall, LimitStep

\* The timer interrupt, and what others do to a thread.
LEMMA OthersKeep ==
  ASSUME Inv, NEW t \in Threads, Timer(t) \/ Control(t) \/ Resumed(t)
  PROVE  /\ Inv' /\ (OneKind /\ Susp(k) => Susp(k')) /\ lim' = lim
<1>1. /\ KernInv /\ CvFlag(k, flag) /\ Account(pc, op, lim, extra) /\ late \in [Threads -> BOOLEAN]
      /\ Trees(k)
  BY Zenon, KernTypes DEF Inv
<1>2. /\ tag' = tag /\ in' = in /\ flag' = flag /\ pc' = pc /\ seen' = seen /\ ltag' = ltag
      /\ lim' = lim /\ op' = op /\ extra' = extra /\ late' \in [Threads -> BOOLEAN]
  <2>1. CASE Timer(t)
    BY Zenon, <1>1, <2>1 DEF Timer, LimitTimer, cvars
  <2>2. CASE Control(t)
    BY Zenon, <1>1, <2>2 DEF Control, cvars, lvars
  <2>3. CASE Resumed(t)
    BY Zenon, <1>1, <2>3 DEF Resumed, cvars, lvars
  <2> QED
    BY Zenon, <2>1, <2>2, <2>3
<1>3. KernInv' /\ NoNewCv(k', k) /\ (OneKind /\ Susp(k) => Susp(k'))
  BY Zenon, <1>1, <1>2, OtherKeeps, ThreadFactsHold
<1>4. CvFlag(k', flag') /\ Account(pc', op', lim', extra')
  BY Zenon, <1>1, <1>2, <1>3, FlagStays
<1> QED
  BY Zenon, <1>2, <1>3, <1>4 DEF Inv

\* Every step.
LEMMA NextKeeps ==
  ASSUME Inv, [Next]_vars
  PROVE  /\ Inv' /\ (OneKind /\ Susp(k) => Susp(k'))
         /\ lim' # lim => (lim'.current < lim.current => LightCvWaiters(k') = {})
<1>1. ASSUME NEW t \in Threads, Step(t)
      PROVE  /\ Inv' /\ (Susp(k) => Susp(k'))
             /\ lim' # lim => (lim'.current < lim.current => LightCvWaiters(k') = {})
  <2>1. CASE MutexCall(t) /\ UNCHANGED lvars
    BY Zenon, <2>1, MutexStep
  <2>2. CASE LimitCall(t) /\ UNCHANGED cvars
    BY Zenon, <2>2, LimitKeeps
  <2> QED
    BY Zenon, <1>1, <2>1, <2>2 DEF Step
<1>2. ASSUME NEW t \in Threads, Timer(t) \/ Control(t) \/ Resumed(t)
      PROVE  Inv' /\ (OneKind /\ Susp(k) => Susp(k')) /\ lim' = lim
  BY Zenon, <1>2, OthersKeep
<1>3. CASE UNCHANGED vars
  <2>1. /\ k' = k /\ pc' = pc /\ seen' = seen /\ ltag' = ltag /\ lim' = lim /\ op' = op /\ late' = late
        /\ extra' = extra /\ tag' = tag /\ flag' = flag /\ in' = in
    BY Zenon, <1>3 DEF vars, lvars, cvars
  <2> QED
    BY Zenon, <2>1 DEF Inv, KernInv
<1> QED
  BY Zenon, <1>1, <1>2, <1>3 DEF Next

\* The invariant holds when the process starts.
LEMMA InitHas ==
  ASSUME Init
  PROVE  Inv /\ Susp(k)
<1>1. /\ k.state = [t \in Threads |-> "Runnable"] /\ k.queue = [t \in Threads |-> "none"] /\ k.timer = {}
      /\ k.owner = [t \in Threads |-> Nobody] /\ k.condvar = [t \in Threads |-> Nobody]
  BY Zenon DEF Init, KThreadsInit
<1>2. /\ k = KThreadsInit /\ pc = [t \in Threads |-> "user"] /\ seen = [t \in Threads |-> Nobody]
      /\ ltag = [owner |-> Nobody, wait |-> FALSE] /\ tag = [owner |-> Nobody, wait |-> FALSE] /\ in = {}
      /\ flag = [c \in CondVarKeys |-> 0] /\ op = [t \in Threads |-> "none"]
      /\ late = [t \in Threads |-> FALSE] /\ extra = [t \in Threads |-> 0]
  BY Zenon DEF Init, LimitInit, CondVarInit, Free, Unlocked
<1>3. k.flags = [t \in Threads |-> {}] /\ k.request = [t \in Threads |-> {}]
  BY Zenon DEF Init, KThreadsInit
<1>4. Trees(k) /\ Susp(k)
  BY Zenon, <1>1, <1>2, <1>3, TreesStart DEF Susp, SuspBut
<1>5. KernInv
  <2>1. ASSUME NEW t \in Threads PROVE Spot(k, pc, ltag, tag, in, seen, t)
    BY Zenon, <1>1, <1>2, Constants DEF Spot, Place, HasLock, Given, InPCs
  <2>2. /\ ltag \in Tags /\ tag \in Tags /\ pc \in [Threads -> PCs] /\ in \subseteq Threads
        /\ seen \in [Threads -> Threads \cup {Nobody}] /\ ~ltag.wait /\ ~tag.wait
    BY Zenon, <1>2 DEF Tags, PCs
  <2> QED
    BY Zenon, <1>4, <2>1, <2>2 DEF KernInv, Kern
<1>6. CvFlag(k, flag)
  BY Zenon, <1>1, <1>2 DEF CvFlag
<1>7. LimitInit
  BY Zenon DEF Init
<1>8. Account(pc, op, lim, extra)
  BY Zenon, <1>2, <1>7, AccountStarts
<1> QED
  BY Zenon, <1>2, <1>4, <1>5, <1>6, <1>8 DEF Inv
-----------------------------------------------------------------------------
(* The theorems.                                                           *)

\* The inductive invariant holds for ever.
THEOREM KernelInvariant == Spec => []Inv
<1>1. Init => Inv
  BY Zenon, InitHas
<1>2. Inv /\ [Next]_vars => Inv'
  BY Zenon, NextKeeps
<1> QED
  BY <1>1, <1>2, PTL DEF Spec

\* The fields of the threads, the words of the locks and the values of the
\* resource limit keep their types: no count or value of the code is negative.
THEOREM KernelTypeOK == Spec => []TypeOK
<1>1. Inv => TypeOK
  <2> SUFFICES ASSUME Inv PROVE TypeOK
    BY Zenon
  <2>1. /\ Trees(k) /\ Typed(k) /\ ltag \in Tags /\ tag \in Tags /\ pc \in [Threads -> PCs]
        /\ seen \in [Threads -> Threads \cup {Nobody}] /\ in \subseteq Threads
    BY Zenon, KernTypes DEF Inv
  <2>2. flag \in [CondVarKeys -> {0, 1}] /\ late \in [Threads -> BOOLEAN]
    BY Zenon DEF Inv, CvFlag
  <2>3. /\ lim \in [{"limit", "current", "hint", "peak", "waiters"} -> Nat]
        /\ op \in [Threads -> Ops] /\ extra \in [Threads -> Nat]
    BY Zenon DEF Inv, Account, LimitFields
  <2>4. k \in KThreads
    <3>1. ASSUME NEW t \in Threads PROVE k.kwaiters[t] \in Nat
      <4>1. k.kwaiters[t] = Cardinality(KernelWaiters(k, t))
        BY Zenon, <2>1 DEF Trees, Counts
      <4> QED
        BY Zenon, <4>1, KernelWaitersFinite
    <3>2. k.kwaiters \in [Threads -> Nat]
      BY Zenon, <2>1, <3>1 DEF Typed
    <3>3. k = [f \in Fields |-> k[f]]
      BY Zenon, <2>1 DEF Typed, Rec
    <3> QED
      BY Zenon, <2>1, <3>2, <3>3 DEF Typed, KThreads, Fields
  <2> QED
    BY Zenon, <2>1, <2>2, <2>3, <2>4 DEF TypeOK
<1> QED
  BY <1>1, KernelInvariant, PTL

\* RestorePriority's loop does its work: whatever the threads wait for, give up or
\* are asked to do, each has the best of its own priority and its waiters'.
THEOREM KernelPriorityInherited == Spec => []PriorityInherited
<1>1. Inv => PriorityInherited
  <2> SUFFICES ASSUME Inv, NEW t \in Threads PROVE k.prio[t] = Inherited(k, t)
    BY Zenon DEF PriorityInherited
  <2>1. Trees(k) /\ Typed(k)
    BY Zenon, KernTypes DEF Inv
  <2>2. Best(k, t, k.prio[t]) /\ k.base \in [Threads -> Nat] /\ k.prio \in [Threads -> Nat]
    BY Zenon, <2>1 DEF Trees, Typed
  <2>3. \A n : Best(k, t, n) <=> n = Inherited(k, t)
    BY Zenon, <2>2, InheritedIs
  <2> QED
    BY Zenon, <2>2, <2>3
<1> QED
  BY <1>1, KernelInvariant, PTL

\* KLightLock excludes: at most one thread is past Lock, the tag names it, and the
\* thread the tag names is past Lock.
THEOREM KernelLightMutex == Spec => []LightMutex
<1>1. Inv => LightMutex
  <2> SUFFICES ASSUME Inv PROVE LightMutex
    BY Zenon
  <2>1. ltag \in Tags /\ \A t \in Threads : ltag.owner = t <=> HasLock(k, pc, t)
    BY Zenon, KernTypes DEF Inv, Spot
  <2>2. \A t : HasLightLock(t) <=> HasLock(k, pc, t)
    BY Zenon DEF HasLightLock, HasLock
  <2> QED
    BY Zenon, <2>1, <2>2 DEF LightMutex, Tags
<1> QED
  BY <1>1, KernelInvariant, PTL

\* With one kind of suspension in use, no thread that others wait for inside the
\* kernel is suspended.  (With two kinds, Resume breaks this.)
THEOREM KernelOwnersRun == ASSUME OneKind PROVE Spec => []KernelOwnerRuns
<1>1. Init => Inv /\ Susp(k)
  BY Zenon, InitHas
<1>2. (Inv /\ Susp(k)) /\ [Next]_vars => (Inv /\ Susp(k))'
  BY Zenon, NextKeeps, OneKind
<1>3. Susp(k) => KernelOwnerRuns
  BY DEF Susp, SuspBut, KernelOwnerRuns, KernelWaiters, WaitersByKey
<1> QED
  BY <1>1, <1>2, <1>3, PTL DEF Spec

\* The process's mutex excludes, through exchanges in the process, hand-overs in
\* the kernel, signals, timeouts and terminations.
THEOREM KernelMutexExclusion == Spec => []MutexExclusion
<1>1. Inv => MutexExclusion
  <2> SUFFICES ASSUME Inv, NEW t \in in PROVE tag.owner = t
    BY Zenon DEF MutexExclusion
  <2>1. in \subseteq Threads /\ \A u \in Threads : Spot(k, pc, ltag, tag, in, seen, u)
    BY Zenon, KernTypes DEF Inv
  <2> QED
    BY Zenon, <2>1 DEF Spot
<1> QED
  BY <1>1, KernelInvariant, PTL

\* No waiter of a lock is forgotten, and none that gave up is kept.
THEOREM KernelWaitersKnown == Spec => []WaitersKnown
<1>1. Inv => WaitersKnown
  <2> SUFFICES ASSUME Inv, NEW t \in Threads, k.owner[t] # Nobody
               PROVE  /\ k.state[t] = "Waiting"
                      /\ k.key[t] = Mutex => tag = [owner |-> k.owner[t], wait |-> TRUE]
                      /\ k.key[t] = LightLock => ltag = [owner |-> k.owner[t], wait |-> TRUE]
    BY Zenon DEF WaitersKnown
  <2>1. Place(k, pc, ltag, tag, t) /\ tag \in Tags /\ ltag \in Tags
    BY Zenon, KernTypes DEF Inv, Spot
  <2> QED
    BY Zenon, <2>1, Constants DEF Place, Tags
<1> QED
  BY <1>1, KernelInvariant, PTL

\* The mutex is never left with a thread that does not know that it has it.
THEOREM KernelNoOrphan == Spec => []NoOrphan
<1>1. Inv => NoOrphan
  <2> SUFFICES ASSUME Inv PROVE NoOrphan
    BY Zenon
  <2>1. tag \in Tags /\ \A t \in Threads : tag.owner = t <=> t \in in \/ Given(k, pc, t)
    BY Zenon, KernTypes DEF Inv, Spot
  <2> QED
    BY Zenon, <2>1 DEF NoOrphan, Given, Tags
<1> QED
  BY <1>1, KernelInvariant, PTL

\* The process may trust the word of a condition variable: 0 means no waiters.
THEOREM KernelCvFlagTrue == Spec => []CvFlagTrue
<1>1. Inv => CvFlagTrue
  BY Constants DEF Inv, CvFlag, CvFlagTrue, CondVarTree
<1> QED
  BY <1>1, KernelInvariant, PTL

\* No timer task outlives the wait it was registered for.
THEOREM KernelTimersOfWaits == Spec => []TimersOfWaits
<1>1. Inv => TimersOfWaits
  <2> SUFFICES ASSUME Inv, NEW t \in k.timer
               PROVE  k.state[t] = "Waiting" /\ k.queue[t] \in {"condvar", "lightcv"}
    BY Zenon DEF TimersOfWaits
  <2>1. t \in Threads
    BY Zenon, KernTypes DEF Inv, Typed
  <2> QED
    BY Zenon, <2>1, KernTypes DEF Inv, Spot
<1> QED
  BY <1>1, KernelInvariant, PTL

\* The resource limit's values account for every thread and reservation, and the
\* assertions of KResourceLimit hold, whatever limits are set meanwhile.
THEOREM KernelChargesAccounted == Spec => []ChargesAccounted
<1>1. Inv => ChargesAccounted
  <2> SUFFICES ASSUME Inv PROVE ChargesAccounted
    OBVIOUS
  <2>1. Account(pc, op, lim, extra) /\ Reservations = Held(extra)
    BY Zenon DEF Inv, Reservations, Held
  <2>2. lim.limit \in Nat /\ lim.current \in Nat /\ lim.peak \in Nat
    BY Zenon, <2>1, AccountNumbers
  <2> QED
    BY <2>1, <2>2 DEF Account, ChargesAccounted, Gone
<1> QED
  BY <1>1, KernelInvariant, PTL

\* A Release that frees something leaves no thread asleep that waits to reserve:
\* m_waiter_count is never 0 while one is in the condition variable's list.
THEOREM KernelReleaseWakes == Spec => ReleaseWakes
<1>1. Inv /\ [Next]_vars => [lim'.current < lim.current => LightCvWaiters(k') = {}]_vars
  <2> SUFFICES ASSUME Inv, [Next]_vars PROVE lim'.current < lim.current => LightCvWaiters(k') = {}
    BY Zenon
  <2>1. lim.current \in Nat
    BY Zenon, AccountNumbers DEF Inv
  <2> QED
    BY <2>1, NextKeeps
<1> QED
  BY <1>1, KernelInvariant, PTL DEF Spec, ReleaseWakes
=============================================================================
