---------------------------- MODULE KernelLemmas ----------------------------
(***************************************************************************)
(* Where every thread of KernelSync can be, and what the operators of the  *)
(* kernel do to that.  The predicates are functions of the threads s, the  *)
(* places p, the light lock's tag g, the mutex's word m, the threads i in  *)
(* its critical section and the owners e that threads have read: each step *)
(* rebuilds them operator by operator.  The theorems are in KernelProofs.  *)
(***************************************************************************)
EXTENDS KernelSync, ThreadFacts, TLAPS
-----------------------------------------------------------------------------
(* What each operator does to one thread, and leaves to the others.        *)

\* The invariant is about these fields, and about the keys of waiters only.
LEMMA TreesSame ==
  ASSUME NEW s, Trees(s), NEW r, Typed(r),
         r.owner = s.owner, r.condvar = s.condvar, r.kwaiters = s.kwaiters, r.base = s.base,
         r.prio = s.prio, r.order = s.order,
         \A t \in Threads : s.owner[t] \in Threads => r.key[t] = s.key[t]
  PROVE  Trees(r)
<1>1. \A t \in Threads : KernelWaiters(r, t) = KernelWaiters(s, t)
  BY Zenon DEF KernelWaiters
<1>2. Counts(r) /\ Chains(r)
  BY <1>1 DEF Trees, Counts, Chains, Up
<1>3. \A t \in Threads : InTree(r, t) /\ Best(r, t, r.prio[t])
  BY DEF Trees, InTree, Best
<1> QED
  BY Zenon, <1>2, <1>3 DEF Trees

\* The fields of which neither is about.
LEMMA AllAlike ==
  ASSUME NEW s, NEW r, Same(r, s, {"flags", "request", "allow", "term", "base", "prio", "kwaiters", "order"})
  PROVE  \A u \in Threads : Alike(r, s, u)
BY Zenon DEF Same, Fields, Alike

\* Changes of the suspensions and the request to terminate: no tree changes.
LEMMA FlagsOnly ==
  ASSUME NEW s, Trees(s), NEW r, Same(r, s, {"flags", "request", "allow", "term"}),
         r.flags \in [Threads -> SUBSET SuspendTypes], r.request \in [Threads -> SUBSET SuspendTypes],
         r.allow \in [Threads -> BOOLEAN], r.term \in [Threads -> BOOLEAN]
  PROVE  Trees(r) /\ \A u \in Threads : Alike(r, s, u)
<1>1. Typed(r)
  BY Zenon DEF Trees, Typed, Same, Fields
<1>2. Trees(r)
  BY Zenon, <1>1, TreesSame DEF Same, Fields
<1> QED
  BY Zenon, <1>2, AllAlike DEF Same, Fields

\* r is s with thread t in other trees: by its owner o, and by c.
Placed(r, s, t, o, c) ==
    /\ SameSusp(r, s) /\ \A u \in Threads \ {t} : Alike(r, s, u)
    /\ r.state[t] = s.state[t] /\ r.queue[t] = s.queue[t] /\ r.result[t] = s.result[t]
    /\ t \in r.timer <=> t \in s.timer
    /\ r.owner[t] = o /\ r.condvar[t] = c

\* Two changes of the trees that thread t is in, one after the other.
LEMMA PlacedAgain ==
  ASSUME NEW s, NEW c, NEW r, NEW t, NEW o, NEW v, NEW q, NEW w,
         Placed(c, s, t, q, w), Placed(r, c, t, o, v)
  PROVE  Placed(r, s, t, o, v)
<1>1. ASSUME NEW u \in Threads \ {t}
      PROVE  Alike(r, s, u)
  <2>1. Alike(r, c, u) /\ Alike(c, s, u)
    BY Zenon DEF Placed
  <2> QED
    BY ONLY Zenon, <2>1 DEF Alike
<1>2. SameSusp(r, s)
  <2>1. SameSusp(r, c) /\ SameSusp(c, s)
    BY Zenon DEF Placed
  <2> QED
    BY ONLY Zenon, <2>1 DEF SameSusp
<1> QED
  BY Zenon, <1>1, <1>2 DEF Placed

\* AddWaiter, thread by thread.
LEMMA JoinedPlaced ==
  ASSUME NEW s, Typed(s), NEW o, NEW t \in Threads, NEW r, Joined(r, s, o, t)
  PROVE  Placed(r, s, t, o, s.condvar[t]) /\ r.key = s.key
BY Zenon DEF Joined, Same, Fields, Typed, Placed, Alike, SameSusp

\* RemoveWaiter, thread by thread.
LEMMA LeftPlaced ==
  ASSUME NEW s, Typed(s), NEW t \in Threads, NEW r, Left(r, s, t)
  PROVE  Placed(r, s, t, Nobody, s.condvar[t]) /\ r.key = s.key
BY Zenon DEF Left, Same, Fields, Typed, Placed, Alike, SameSusp

\* ClearConditionVariable takes the thread out of the condition variable's tree.
LEMMA ClearIs ==
  ASSUME ThreadFacts, NEW s, Trees(s), NEW t \in Threads, s.owner[t] = Nobody, NEW r, r = ClearConditionVariable(s, t)
  PROVE  Trees(r) /\ Placed(r, s, t, Nobody, Nobody) /\ r.key = s.key /\ OrderSame(r, s, {t})
<1>0. Typed(s) /\ Rec(s)
  BY Zenon DEF Trees, Typed
<1>1. /\ Same(r, s, {"condvar", "order"}) /\ r.condvar = [s.condvar EXCEPT ![t] = Nobody]
      /\ r.order = Remove(s.order, t)
  BY Zenon, <1>0 DEF ClearConditionVariable, Same, Rec, Fields
<1>2. /\ r.owner = s.owner /\ r.kwaiters = s.kwaiters /\ r.key = s.key /\ r.base = s.base
      /\ r.prio = s.prio /\ s.condvar \in [Threads -> CondVarKeys \cup {Nobody}]
  BY Zenon, <1>0, <1>1 DEF Same, Fields, Typed
<1>3. /\ Linear(r.order) /\ Linked(r.order) = Linked(s.order) \ {t}
      /\ \A u, v \in Threads \ {t} : <<u, v>> \in r.order <=> <<u, v>> \in s.order
  BY <1>1 DEF Trees, ThreadFacts, RemoveLinear
<1>4. Typed(r)
  BY <1>0, <1>1, <1>2, <1>3 DEF Typed, Same, Fields, Linear
<1>5. Counts(r) /\ Chains(r)
  BY <1>2 DEF Trees, Counts, KernelWaiters, Chains, Up
<1>6. \A u \in Threads : InTree(r, u) /\ Best(r, u, r.prio[u])
  BY <1>1, <1>2, <1>3 DEF Trees, InTree, Best
<1>7. Placed(r, s, t, Nobody, Nobody) /\ OrderSame(r, s, {t})
  BY Zenon, <1>1, <1>2, <1>3 DEF Placed, Same, Fields, Alike, SameSusp, OrderSame
<1> QED
  BY Zenon, <1>2, <1>3, <1>4, <1>5, <1>6, <1>7 DEF Trees

\* Thread t in the tree of condition variable c, with the key of the mutex.
Enqueued(s, t, c, a) == [s EXCEPT !.condvar[t] = c, !.key[t] = a, !.order = Inserted(@, t)]

\* SetConditionVariable and the insertion in the tree of c.
LEMMA EnqueueIs ==
  ASSUME ThreadFacts, NEW s, Trees(s), NEW t \in Threads, s.owner[t] = Nobody, NEW c \in CondVarKeys,
         NEW a \in AddressKeys,
         NEW r, r = Enqueued(s, t, c, a)
  PROVE  Trees(r) /\ Placed(r, s, t, Nobody, c) /\ r.key[t] = a
<1>0. Typed(s) /\ Rec(s)
  BY Zenon DEF Trees, Typed
<1>1. /\ Same(r, s, {"condvar", "key", "order"}) /\ r.condvar = [s.condvar EXCEPT ![t] = c]
      /\ r.key = [s.key EXCEPT ![t] = a] /\ r.order = Inserted(s.order, t)
  BY Zenon, <1>0 DEF Enqueued, Same, Rec, Fields
<1>2. /\ r.owner = s.owner /\ r.kwaiters = s.kwaiters /\ r.base = s.base /\ r.prio = s.prio
      /\ s.condvar \in [Threads -> CondVarKeys \cup {Nobody}]
      /\ s.key \in [Threads -> AddressKeys \cup {Nobody}]
  BY Zenon, <1>0, <1>1 DEF Same, Fields, Typed
<1>3. Linear(r.order) /\ Linked(r.order) = Linked(s.order) \cup {t}
  BY <1>1 DEF Trees, ThreadFacts, InsertedLinear
<1>4. Typed(r)
  BY <1>0, <1>1, <1>2, <1>3 DEF Typed, Same, Fields, Linear
<1>5. Counts(r) /\ Chains(r)
  <2>1. \A u \in Threads : KernelWaiters(r, u) = KernelWaiters(s, u)
    BY <1>1, <1>2, ThreadAssumption DEF KernelWaiters
  <2> QED
    BY <1>2, <2>1 DEF Trees, Counts, Chains, Up
<1>6. \A u \in Threads : InTree(r, u) /\ Best(r, u, r.prio[u])
  BY <1>1, <1>2, <1>3 DEF Trees, InTree, Best
<1>7. Placed(r, s, t, Nobody, c) /\ r.key[t] = a
  BY Zenon, <1>1, <1>2 DEF Placed, Same, Fields, Alike, SameSusp
<1> QED
  BY Zenon, <1>3, <1>4, <1>5, <1>6, <1>7 DEF Trees

\* The address key of a thread that is about to wait.
WithKey(s, t, a) == [s EXCEPT !.key[t] = a]

\* SetAddressKey, of a thread that waits for nobody.
LEMMA KeyIs ==
  ASSUME NEW s, Trees(s), NEW t \in Threads, s.owner[t] = Nobody, NEW a \in AddressKeys,
         NEW r, r = WithKey(s, t, a)
  PROVE  Trees(r) /\ Placed(r, s, t, Nobody, s.condvar[t]) /\ r.key[t] = a
<1>0. Typed(s) /\ Rec(s) /\ s.key \in [Threads -> AddressKeys \cup {Nobody}]
  BY Zenon DEF Trees, Typed
<1>1. Same(r, s, {"key"}) /\ r.key = [s.key EXCEPT ![t] = a]
  BY Zenon, <1>0 DEF WithKey, Same, Rec, Fields
<1>2. Typed(r)
  BY <1>0, <1>1 DEF Typed, Same, Fields
<1>3. Trees(r)
  <2>1. \A u \in Threads : s.owner[u] \in Threads => r.key[u] = s.key[u]
    BY Zenon, <1>0, <1>1, ThreadAssumption
  <2>2. /\ r.owner = s.owner /\ r.condvar = s.condvar /\ r.kwaiters = s.kwaiters
        /\ r.base = s.base /\ r.prio = s.prio /\ r.order = s.order
    BY Zenon, <1>1 DEF Same, Fields
  <2> QED
    BY Zenon, <1>2, <2>1, <2>2, TreesSame
<1>4. r.key[t] = a /\ \A u \in Threads \ {t} : r.key[u] = s.key[u]
  BY Zenon, <1>0, <1>1
<1>5. Placed(r, s, t, Nobody, s.condvar[t])
  BY Zenon, <1>1, <1>4 DEF Placed, Same, Fields, Alike, SameSusp
<1> QED
  BY Zenon, <1>3, <1>4, <1>5

\* r is s with thread t asleep in queue q.
Asleep(r, s, t, q, timed) ==
    /\ SameSusp(r, s) /\ \A u \in Threads \ {t} : Alike(r, s, u)
    /\ r.state[t] = "Waiting" /\ r.queue[t] = q /\ r.owner = s.owner /\ r.condvar = s.condvar
    /\ r.key = s.key /\ r.result = s.result /\ (t \in r.timer => timed \/ t \in s.timer)

\* BeginWait puts the thread to sleep, with or without a timer task.
LEMMA BeginWaitIs ==
  ASSUME NEW s, Trees(s), NEW t \in Threads, NEW q \in Queues, NEW timed \in BOOLEAN,
         NEW r, r = BeginWait(s, t, q, timed)
  PROVE  Trees(r) /\ Asleep(r, s, t, q, timed)
<1>0. /\ Typed(s) /\ Rec(s) /\ s.timer \in SUBSET Threads
      /\ s.state \in [Threads -> States] /\ s.queue \in [Threads -> Queues]
  BY Zenon DEF Trees, Typed
<1>1. /\ Same(r, s, {"state", "queue", "timer"})
      /\ r.state = [s.state EXCEPT ![t] = "Waiting"] /\ r.queue = [s.queue EXCEPT ![t] = q]
      /\ r.timer = IF timed THEN s.timer \cup {t} ELSE s.timer
  BY Zenon, <1>0 DEF BeginWait, Same, Rec, Fields
<1>2. r.timer \in SUBSET Threads /\ (t \in r.timer => timed \/ t \in s.timer)
      /\ \A u \in Threads \ {t} : u \in r.timer <=> u \in s.timer
  BY <1>0, <1>1
<1>3. Typed(r)
  BY <1>0, <1>1, <1>2 DEF Typed, Same, Fields, States
<1>4. Trees(r)
  BY <1>1, <1>3, TreesSame DEF Same, Fields
<1> QED
  BY Zenon, <1>0, <1>1, <1>2, <1>4 DEF Asleep, Same, Fields, Alike, SameSusp

\* r is s with thread t awake.
Awake(r, s, t, w) ==
    /\ SameSusp(r, s) /\ \A u \in Threads \ {t} : Alike(r, s, u)
    /\ r.state[t] = "Runnable" /\ r.queue[t] = "none" /\ r.owner = s.owner /\ r.condvar = s.condvar
    /\ t \notin r.timer /\ (s.queue[t] # "lightcv" => r.result[t] = w)
    /\ r.prio = s.prio /\ r.order = s.order

\* The end of a wait, of a thread that is among nobody's waiters any more.
LEMMA WakeIs ==
  ASSUME NEW s, Trees(s), NEW t \in Threads, s.owner[t] = Nobody, NEW w \in Results,
         NEW r, r = Wake(s, t, w)
  PROVE  Trees(r) /\ Awake(r, s, t, w)
<1>0. /\ Typed(s) /\ Rec(s) /\ s.timer \in SUBSET Threads /\ s.result \in [Threads -> Results]
      /\ s.state \in [Threads -> States] /\ s.queue \in [Threads -> Queues]
      /\ s.key \in [Threads -> AddressKeys \cup {Nobody}]
  BY Zenon DEF Trees, Typed
<1>1. /\ Same(r, s, {"state", "queue", "result", "timer", "key"})
      /\ r.state = [s.state EXCEPT ![t] = "Runnable"] /\ r.queue = [s.queue EXCEPT ![t] = "none"]
      /\ r.key = [s.key EXCEPT ![t] = Nobody] /\ r.timer = s.timer \ {t}
      /\ r.result = [s.result EXCEPT ![t] = IF s.queue[t] = "lightcv" THEN @ ELSE w]
  BY <1>0, Zenon DEF Wake, Same, Rec, Fields
<1>2. /\ r.result \in [Threads -> Results] /\ (s.queue[t] # "lightcv" => r.result[t] = w)
      /\ \A u \in Threads \ {t} : r.result[u] = s.result[u]
  BY <1>0, <1>1
<1>3. Typed(r)
  BY <1>0, <1>1, <1>2 DEF Typed, Same, Fields, States, Queues
<1>4. Trees(r)
  BY <1>0, <1>1, <1>3, TreesSame, ThreadAssumption DEF Same, Fields
<1> QED
  BY <1>0, <1>1, <1>2, <1>4 DEF Awake, Same, Fields, Alike, SameSusp

\* UpdateState makes the state's flags follow the requests.
LEMMA UpdateIs ==
  ASSUME NEW s, Trees(s), NEW t \in Threads, NEW r, r = UpdateState(s, t)
  PROVE  /\ Trees(r) /\ \A u \in Threads : Alike(r, s, u)
         /\ r.request = s.request /\ r.allow = s.allow /\ r.owner = s.owner /\ r.key = s.key
         /\ r.flags = [s.flags EXCEPT ![t] = IF s.allow[t] THEN s.request[t] ELSE {}]
<1>0. /\ Typed(s) /\ Rec(s) /\ s.flags \in [Threads -> SUBSET SuspendTypes]
      /\ s.request \in [Threads -> SUBSET SuspendTypes]
  BY Zenon DEF Trees, Typed
<1>1. /\ Same(r, s, {"flags"})
      /\ r.flags = [s.flags EXCEPT ![t] = IF s.allow[t] THEN s.request[t] ELSE {}]
  BY Zenon, <1>0 DEF UpdateState, Same, Rec, Fields
<1>2. r.flags \in [Threads -> SUBSET SuspendTypes]
  BY <1>0, <1>1
<1>3. Trees(r) /\ \A u \in Threads : Alike(r, s, u)
  <2>1. Same(r, s, {"flags", "request", "allow", "term"})
    BY Zenon, <1>1 DEF Same
  <2>2. r.request = s.request /\ r.allow = s.allow /\ r.term = s.term
    BY Zenon, <1>1 DEF Same, Fields
  <2> QED
    BY Zenon, <1>0, <1>2, <2>1, <2>2, FlagsOnly DEF Typed
<1> QED
  BY Zenon, <1>1, <1>3 DEF Same, Fields

\* Who is suspended was asked to be, and (but for X) nobody waits for them inside
\* the kernel.
SuspBut(s, X) ==
    \A t \in Threads : s.flags[t] # {} =>
        s.allow[t] /\ s.request[t] # {} /\ (t \notin X => KernelWaiters(s, t) = {})
Susp(s) == SuspBut(s, {})

\* TrySuspend suspends a thread that no kernel waiters keep running.
LEMMA TrySuspendIs ==
  ASSUME ThreadFacts, NEW s, Trees(s), NEW t \in Threads, NEW r, r = TrySuspend(s, t)
  PROVE  /\ Trees(r) /\ \A u \in Threads : Alike(r, s, u)
         /\ SuspBut(s, {t}) /\ (KernelWaiters(s, t) # {} => s.flags[t] = {}) => Susp(r)
<1>1. CASE s.kwaiters[t] > 0
  <2>1. r = s /\ KernelWaiters(s, t) # {}
    BY Zenon, <1>1 DEF TrySuspend, ThreadFacts, CountsTell
  <2> QED
    BY Zenon, <2>1 DEF Alike, Susp, SuspBut
<1>2. CASE ~(s.kwaiters[t] > 0)
  <2>1. r = UpdateState(s, t) /\ KernelWaiters(s, t) = {}
    BY Zenon, <1>2 DEF TrySuspend, ThreadFacts, CountsTell
  <2>2. /\ Trees(r) /\ \A u \in Threads : Alike(r, s, u)
        /\ r.request = s.request /\ r.allow = s.allow /\ r.owner = s.owner /\ r.key = s.key
        /\ r.flags = [s.flags EXCEPT ![t] = IF s.allow[t] THEN s.request[t] ELSE {}]
    BY <2>1, UpdateIs
  <2>3. ASSUME SuspBut(s, {t}) PROVE Susp(r)
    <3>1. \A u \in Threads : KernelWaiters(r, u) = KernelWaiters(s, u)
      BY Zenon, <2>2 DEF KernelWaiters
    <3>2. s.flags \in [Threads -> SUBSET SuspendTypes]
      BY Zenon DEF Trees, Typed
    <3>3. r.flags[t] = (IF s.allow[t] THEN s.request[t] ELSE {}) /\ \A u \in Threads \ {t} : r.flags[u] = s.flags[u]
      BY Zenon, <2>2, <3>2
    <3> QED
      BY Zenon, <2>1, <2>2, <2>3, <3>1, <3>3 DEF Susp, SuspBut
  <2> QED
    BY Zenon, <2>2, <2>3
<1> QED
  BY Zenon, <1>1, <1>2

\* ContinueIfHasKernelWaiters makes a suspended owner run.
LEMMA ContinueIs ==
  ASSUME ThreadFacts, NEW s, Trees(s), NEW t \in Threads, NEW r, r = ContinueIfHasKernelWaiters(s, t)
  PROVE  /\ Trees(r) /\ \A u \in Threads : Alike(r, s, u) /\ (SuspBut(s, {t}) => Susp(r))
         /\ r.request = s.request /\ r.allow = s.allow
<1>0. /\ Typed(s) /\ Rec(s) /\ s.flags \in [Threads -> SUBSET SuspendTypes]
  BY Zenon DEF Trees, Typed
<1>1. CASE IsSuspended(s, t) /\ s.kwaiters[t] > 0
  <2>1. r = [s EXCEPT !.flags[t] = {}]
    BY Zenon, <1>1 DEF ContinueIfHasKernelWaiters
  <2>2. Same(r, s, {"flags"}) /\ r.flags = [s.flags EXCEPT ![t] = {}]
    BY Zenon, <1>0, <2>1 DEF Same, Rec, Fields
  <2>3. /\ Same(r, s, {"flags", "request", "allow", "term"}) /\ r.flags \in [Threads -> SUBSET SuspendTypes]
        /\ r.request = s.request /\ r.allow = s.allow /\ r.term = s.term /\ r.owner = s.owner /\ r.key = s.key
    BY Zenon, <1>0, <2>2 DEF Same, Fields
  <2>4. Trees(r) /\ \A u \in Threads : Alike(r, s, u)
    BY Zenon, <1>0, <2>3, FlagsOnly DEF Typed
  <2>5. \A u \in Threads : KernelWaiters(r, u) = KernelWaiters(s, u)
    BY Zenon, <2>3 DEF KernelWaiters
  <2> QED
    BY <1>0, <2>2, <2>3, <2>4, <2>5 DEF Susp, SuspBut
<1>2. CASE ~(IsSuspended(s, t) /\ s.kwaiters[t] > 0)
  <2>1. r = s
    BY Zenon, <1>2 DEF ContinueIfHasKernelWaiters
  <2>2. SuspBut(s, {t}) => Susp(s)
    BY Zenon, <1>2 DEF Susp, SuspBut, IsSuspended, ThreadFacts, CountsTell
  <2> QED
    BY Zenon, <2>1, <2>2 DEF Alike
<1> QED
  BY Zenon, <1>1, <1>2
-----------------------------------------------------------------------------
(* Where the threads are.                                                  *)

\* What a thread waits in, and for whom: the light lock; the mutex; a condition
\* variable or, once signalled, the mutex; a release of the resource; nothing.
Place(s, p, g, m, t) ==
    \/ /\ p[t] = "lockwait" /\ s.state[t] = "Waiting" /\ s.queue[t] = "lightlock" /\ s.condvar[t] = Nobody
       /\ s.key[t] = LightLock /\ s.owner[t] = g.owner /\ g.owner \notin {Nobody, t} /\ g.wait
    \/ /\ p[t] = "address" /\ s.state[t] = "Waiting" /\ s.queue[t] = "address" /\ s.condvar[t] = Nobody
       /\ s.key[t] = Mutex /\ s.owner[t] = m.owner /\ m.owner \notin {Nobody, t} /\ m.wait
    \/ /\ p[t] = "condvar" /\ s.state[t] = "Waiting" /\ s.queue[t] = "condvar" /\ s.key[t] = Mutex
       /\ \/ s.owner[t] = Nobody /\ s.condvar[t] \in CondVarKeys /\ m.owner # t
          \/ s.owner[t] = m.owner /\ s.condvar[t] = Nobody /\ m.owner \notin {Nobody, t} /\ m.wait
    \/ /\ p[t] = "lightcv" /\ s.state[t] = "Waiting" /\ s.queue[t] = "lightcv"
       /\ s.owner[t] = Nobody /\ s.condvar[t] = Nobody
    \/ s.state[t] # "Waiting" /\ s.queue[t] = "none" /\ s.owner[t] = Nobody /\ s.condvar[t] = Nobody

\* A thread past Lock(); one that was woken with the mutex and is to enter.
HasLock(s, p, t) == p[t] = "locked" \/ (p[t] = "lockwait" /\ s.state[t] = "Runnable")
Given(s, p, t)   == p[t] \in {"address", "condvar"} /\ s.state[t] = "Runnable" /\ s.result[t] = "Success"

\* Where a thread can be that is in the critical section.
InPCs == {"user", "arbunlock", "doomed", "lock", "lockslow", "lockwait", "locked", "lightcv", "exiting", "dead"}

\* The invariant of one thread: the tags name the threads that have the locks.
Spot(s, p, g, m, i, e, t) ==
    /\ Place(s, p, g, m, t)
    /\ g.owner = t <=> HasLock(s, p, t)
    /\ m.owner = t <=> t \in i \/ Given(s, p, t)
    /\ t \in i => p[t] \in InPCs
    /\ p[t] = "arbunlock" => t \in i
    /\ p[t] \in {"arbitrate", "lockslow"} => e[t] \in Threads \ {t}
    /\ p[t] = "locked" => s.state[t] = "Runnable"
    /\ t \in s.timer => s.state[t] = "Waiting" /\ s.queue[t] \in {"condvar", "lightcv"}
    /\ s.state[t] = "Terminated" => p[t] = "dead"

\* The invariant of the threads and the two locks.
Kern(s, p, g, m, i, e) ==
    /\ Trees(s) /\ g \in Tags /\ m \in Tags /\ p \in [Threads -> PCs]
    /\ e \in [Threads -> Threads \cup {Nobody}] /\ i \subseteq Threads
    /\ (g.wait => g.owner # Nobody) /\ (m.wait => m.owner # Nobody)
    /\ \A t \in Threads : Spot(s, p, g, m, i, e, t)
-----------------------------------------------------------------------------
(* Threads that stay where they are.                                       *)

\* What the two locks need of the constants.
LEMMA Constants ==
  /\ Nobody \notin Threads /\ IsFiniteSet(Threads)
  /\ LightLock \in AddressKeys /\ Mutex \in AddressKeys /\ LightLock # Mutex /\ Nobody \notin CondVarKeys
  /\ LightLock \in KernelKeys /\ Mutex \notin KernelKeys
BY Zenon, ThreadAssumption, LightLockAssumption, MutexAssumption DEF AddressKeys

\* Thread u stays where it is, and neither lock's tag has changed for it.
Stays(u, s, p, g, m, i, e, r, q, d, h, j, f) ==
    /\ Alike(r, s, u) /\ q[u] = p[u] /\ f[u] = e[u] /\ (u \in j <=> u \in i)
    /\ d.owner = u <=> g.owner = u
    /\ h.owner = u <=> m.owner = u
    /\ s.owner[u] # Nobody /\ s.queue[u] = "lightlock" => d.owner = g.owner /\ d.wait
    /\ s.owner[u] # Nobody /\ s.queue[u] # "lightlock" => h.owner = m.owner /\ h.wait

\* What is right for that thread is still right.
LEMMA SpotOther ==
  ASSUME NEW s, NEW p, NEW g, NEW m, NEW i, NEW e, NEW u, Spot(s, p, g, m, i, e, u),
         NEW r, NEW q, NEW d, NEW h, NEW j, NEW f, Stays(u, s, p, g, m, i, e, r, q, d, h, j, f)
  PROVE  Spot(r, q, d, h, j, f, u)
<1> USE DEF Stays
<1>1. Place(r, q, d, h, u)
  BY DEF Spot, Place, Alike
<1>2. HasLock(r, q, u) <=> HasLock(s, p, u)
  BY Zenon DEF HasLock, Alike
<1>3. Given(r, q, u) <=> Given(s, p, u)
  BY Zenon DEF Given, Alike
<1> QED
  BY Zenon, <1>1, <1>2, <1>3 DEF Spot, Alike

\* The invariant is about the fields of Alike only.
LEMMA KernSame ==
  ASSUME NEW s, NEW p, NEW g, NEW m, NEW i, NEW e, Kern(s, p, g, m, i, e),
         NEW r, Trees(r), \A u \in Threads : Alike(r, s, u)
  PROVE  Kern(r, p, g, m, i, e)
<1>1. ASSUME NEW u \in Threads PROVE Spot(r, p, g, m, i, e, u)
  <2>1. Spot(s, p, g, m, i, e, u) /\ Alike(r, s, u)
    BY Zenon DEF Kern
  <2>2. s.owner[u] # Nobody => (s.queue[u] = "lightlock" => g.wait) /\ (s.queue[u] # "lightlock" => m.wait)
    BY Zenon, <2>1 DEF Spot, Place
  <2>3. Stays(u, s, p, g, m, i, e, r, p, g, m, i, e)
    BY Zenon, <2>1, <2>2 DEF Stays
  <2> QED
    BY Zenon, <2>1, <2>3, SpotOther
<1> QED
  BY Zenon, <1>1 DEF Kern

\* Thread t goes elsewhere in the code, with the lock's tags as they are.
Goes(p, e, t, q, f) ==
    /\ q \in [Threads -> PCs] /\ f \in [Threads -> Threads \cup {Nobody}]
    /\ \A u \in Threads \ {t} : q[u] = p[u] /\ f[u] = e[u]

\* Only t moves, and no lock is taken from another thread or given to one.
Moves(t, s, p, g, m, i, e, r, q, d, h, j, f) ==
    /\ Trees(r) /\ Goes(p, e, t, q, f) /\ j \subseteq Threads
    /\ \A u \in Threads \ {t} : Alike(r, s, u) /\ (u \in j <=> u \in i)
    /\ d \in Tags /\ h \in Tags /\ (d.wait => d.owner # Nobody) /\ (h.wait => h.owner # Nobody)
    /\ \A u \in Threads \ {t} : (d.owner = u <=> g.owner = u) /\ (h.owner = u <=> m.owner = u)
    /\ (g.wait => d.owner = g.owner /\ d.wait) /\ (m.wait => h.owner = m.owner /\ h.wait)

\* The others are where they were when one thread moves and no lock changes hands.
LEMMA KernMove ==
  ASSUME NEW s, NEW p, NEW g, NEW m, NEW i, NEW e, Kern(s, p, g, m, i, e), NEW t \in Threads,
         NEW r, NEW q, NEW d, NEW h, NEW j, NEW f, Moves(t, s, p, g, m, i, e, r, q, d, h, j, f),
         Spot(r, q, d, h, j, f, t)
  PROVE  Kern(r, q, d, h, j, f)
<1> USE DEF Moves
<1>1. ASSUME NEW u \in Threads \ {t} PROVE Spot(r, q, d, h, j, f, u)
  <2>1. Spot(s, p, g, m, i, e, u) /\ Alike(r, s, u) /\ q[u] = p[u] /\ f[u] = e[u]
    BY Zenon DEF Kern, Goes
  <2>2. s.owner[u] # Nobody => (s.queue[u] = "lightlock" => g.wait) /\ (s.queue[u] # "lightlock" => m.wait)
    BY Zenon, <2>1 DEF Spot, Place
  <2>3. Stays(u, s, p, g, m, i, e, r, q, d, h, j, f)
    BY Zenon, <2>1, <2>2 DEF Stays
  <2> QED
    BY Zenon, <2>1, <2>3, SpotOther
<1> QED
  BY Zenon, <1>1 DEF Kern, Goes
-----------------------------------------------------------------------------
(* Waits that end.                                                         *)

\* No thread gets kernel waiters it did not have.
LEMMA SuspKept ==
  ASSUME NEW s, NEW r, SameSusp(r, s), NEW X, SuspBut(s, X),
         \A u \in Threads : \/ r.owner[u] = Nobody \/ r.key[u] \notin KernelKeys
                            \/ r.owner[u] = s.owner[u] /\ r.key[u] = s.key[u]
  PROVE  SuspBut(r, X)
<1>1. \A u \in Threads : KernelWaiters(r, u) \subseteq KernelWaiters(s, u)
  BY Zenon, Constants DEF KernelWaiters
<1> QED
  BY Zenon, <1>1 DEF SuspBut, SameSusp

\* No thread is in the tree of another condition variable than it was.
NoNewCv(r, s) == \A u \in Threads : r.condvar[u] \in {s.condvar[u], Nobody}

\* r is s with thread t awake, that waits for nobody.
Freed(r, s, t) ==
    /\ SameSusp(r, s) /\ \A u \in Threads \ {t} : Alike(r, s, u)
    /\ r.state[t] = "Runnable" /\ r.queue[t] = "none" /\ r.owner[t] = Nobody /\ r.condvar[t] = Nobody
    /\ t \notin r.timer

\* Steps on the way to that.
LEMMA PlacedFreed ==
  ASSUME NEW s, NEW t \in Threads, NEW c, Placed(c, s, t, Nobody, Nobody), NEW w, NEW r, Awake(r, c, t, w)
  PROVE  Freed(r, s, t) /\ (s.queue[t] # "lightcv" => r.result[t] = w)
BY DEF Placed, Awake, Freed, Alike, SameSusp

\* A wait that is cut short: the thread gets neither lock.
LEMMA KernFreed ==
  ASSUME NEW s, NEW p, NEW g, NEW m, NEW i, NEW e, Kern(s, p, g, m, i, e), NEW t \in Threads,
         s.state[t] = "Waiting", p[t] # "lockwait", NEW r, Trees(r), Freed(r, s, t),
         p[t] = "lightcv" \/ r.result[t] # "Success"
  PROVE  Kern(r, p, g, m, i, e) /\ (Susp(s) => Susp(r)) /\ NoNewCv(r, s)
<1>1. Spot(s, p, g, m, i, e, t)
  BY Zenon DEF Kern
<1>2. Spot(r, p, g, m, i, e, t)
  <2>1. Place(r, p, g, m, t)
    BY Zenon DEF Place, Freed
  <2>2. p[t] \in {"address", "condvar", "lightcv"} /\ ~HasLock(s, p, t) /\ ~HasLock(r, p, t)
    BY Zenon, <1>1 DEF Spot, Place, HasLock
  <2>3. ~Given(s, p, t) /\ ~Given(r, p, t)
    BY Zenon, <2>2 DEF Given
  <2> QED
    BY Zenon, <1>1, <2>1, <2>2, <2>3 DEF Spot, Freed
<1>3. Kern(r, p, g, m, i, e)
  <2>1. Goes(p, e, t, p, e)
    BY Zenon DEF Kern, Goes
  <2>2. \A u \in Threads \ {t} : Alike(r, s, u)
    BY Zenon DEF Freed
  <2>3. /\ g \in Tags /\ m \in Tags /\ i \subseteq Threads
        /\ (g.wait => g.owner # Nobody) /\ (m.wait => m.owner # Nobody)
    BY Zenon DEF Kern
  <2>4. Moves(t, s, p, g, m, i, e, r, p, g, m, i, e)
    BY Zenon, <2>1, <2>2, <2>3 DEF Moves
  <2> QED
    BY Zenon, <1>2, <2>4, KernMove
<1>4. Susp(s) => Susp(r)
  <2>1. ASSUME NEW u \in Threads PROVE r.owner[u] = Nobody \/ (r.owner[u] = s.owner[u] /\ r.key[u] = s.key[u])
    <3>1. u = t \/ Alike(r, s, u)
      BY Zenon DEF Freed
    <3> QED
      BY Zenon, <3>1 DEF Freed, Alike
  <2>2. SameSusp(r, s)
    BY Zenon DEF Freed
  <2> QED
    BY <2>1, <2>2, SuspKept DEF Susp
<1>5. NoNewCv(r, s)
  BY Zenon DEF NoNewCv, Freed, Alike
<1> QED
  BY Zenon, <1>3, <1>4, <1>5

\* CancelWait: by the timer, or to terminate.
LEMMA CancelKeeps ==
  ASSUME ThreadFacts, NEW s, NEW p, NEW g, NEW m, NEW i, NEW e, Kern(s, p, g, m, i, e), NEW t \in Threads,
         s.state[t] = "Waiting", NEW w \in {"TimedOut", "TerminationRequested"},
         NEW r, r = CancelWait(s, t, w)
  PROVE  Kern(r, p, g, m, i, e) /\ (Susp(s) => Susp(r)) /\ NoNewCv(r, s)
<1>1. Place(s, p, g, m, t) /\ Trees(s) /\ Typed(s) /\ w \in Results
  BY Zenon DEF Kern, Spot, Trees, Results
<1>2. CASE s.queue[t] = "lightlock"
  <2>1. r = s
    BY Zenon, <1>2 DEF CancelWait
  <2> QED
    BY Zenon, <2>1 DEF NoNewCv
<1>3. CASE s.queue[t] = "lightcv"
  <2>1. r = Wake(s, t, w) /\ p[t] = "lightcv" /\ s.owner[t] = Nobody /\ s.condvar[t] = Nobody
    BY Zenon, <1>1, <1>3 DEF CancelWait, Place
  <2>2. Trees(r) /\ Awake(r, s, t, w)
    BY Zenon, <1>1, <2>1, WakeIs
  <2>3. Freed(r, s, t)
    BY Zenon, <2>1, <2>2 DEF Awake, Freed
  <2> QED
    BY Zenon, <2>1, <2>2, <2>3, KernFreed
<1>4. CASE s.queue[t] \in {"address", "condvar"}
  <2>0. p[t] \in {"address", "condvar"}
    BY Zenon, <1>1, <1>4 DEF Place
  <2>1. CASE s.owner[t] # Nobody
    <3> DEFINE c == RemoveWaiter(s, t)
    <3>1. r = Wake(c, t, w) /\ s.condvar[t] = Nobody
      BY Zenon, <1>1, <1>4, <2>1 DEF CancelWait, Place
    <3>2. Left(c, s, t) /\ Trees(c)
      BY Zenon, <1>1, <2>1 DEF ThreadFacts, RemoveWaiterIs
    <3> HIDE DEF c
    <3>3. Placed(c, s, t, Nobody, Nobody)
      BY Zenon, <1>1, <3>1, <3>2, LeftPlaced
    <3>4. Trees(r) /\ Awake(r, c, t, w)
      BY Zenon, <1>1, <3>1, <3>2, <3>3, WakeIs DEF Placed
    <3>5. Freed(r, s, t) /\ r.result[t] = w
      BY <1>4, <3>3, <3>4, PlacedFreed
    <3> QED
      BY Zenon, <2>0, <3>4, <3>5, KernFreed
  <2>2. CASE s.owner[t] = Nobody
    <3> DEFINE c == ClearConditionVariable(s, t)
    <3>1. r = Wake(c, t, w)
      BY Zenon, <1>1, <1>4, <2>2, Constants DEF CancelWait, Place
    <3>2. Trees(c) /\ Placed(c, s, t, Nobody, Nobody)
      BY Zenon, <1>1, <2>2, ClearIs
    <3> HIDE DEF c
    <3>4. Trees(r) /\ Awake(r, c, t, w)
      BY Zenon, <1>1, <3>1, <3>2, WakeIs DEF Placed
    <3>5. Freed(r, s, t) /\ r.result[t] = w
      BY <1>4, <3>2, <3>4, PlacedFreed
    <3> QED
      BY <2>0, <3>4, <3>5, KernFreed
  <2> QED
    BY Zenon, <2>1, <2>2
<1> QED
  BY Zenon, <1>1, <1>2, <1>3, <1>4 DEF Place
-----------------------------------------------------------------------------
(* The hand-over of a lock, by ArbitrateUnlock and by UnlockSlowPath.      *)

\* r is s with n, one of the waiters S, awake and the others waiting for n.
Handed(r, s, S, n) ==
    /\ SameSusp(r, s) /\ \A u \in Threads \ S : Alike(r, s, u)
    /\ \A u \in S \ {n} : /\ r.state[u] = s.state[u] /\ r.queue[u] = s.queue[u] /\ r.owner[u] = n
                          /\ r.key[u] = s.key[u] /\ r.condvar[u] = s.condvar[u]
                          /\ r.result[u] = s.result[u] /\ (u \in r.timer <=> u \in s.timer)
    /\ r.state[n] = "Runnable" /\ r.queue[n] = "none" /\ r.owner[n] = Nobody
    /\ r.condvar[n] = s.condvar[n] /\ r.result[n] = "Success" /\ n \notin r.timer

\* RemoveWaiterByKey and the EndWait of the next owner.
LEMMA PassOn ==
  ASSUME ThreadFacts, NEW s, Trees(s), NEW o \in Threads, NEW a, NEW S, S = WaitersByKey(s, o, a), S # {},
         \A u \in S : s.state[u] = "Waiting" /\ s.queue[u] # "lightcv",
         NEW q, q = RemoveWaiterByKey(s, o, a), NEW w, w = EndWait(q.s, q.next, "Success")
  PROVE  q.next \in S /\ q.more = (S # {q.next}) /\ Trees(w) /\ Handed(w, s, S, q.next)
<1> DEFINE n == q.next
           c == q.s
<1>1. n \in S /\ q.more = (S # {n}) /\ HandedOn(c, s, S, n) /\ Trees(c)
  BY DEF ThreadFacts, RemoveByKeyIs
<1> HIDE DEF n, c
<1>2. S \subseteq Threads /\ n \in Threads /\ Typed(s)
  BY Zenon, <1>1 DEF WaitersByKey, Trees
<1>3. /\ SameSusp(c, s) /\ c.state = s.state /\ c.queue = s.queue /\ c.key = s.key
      /\ c.condvar = s.condvar /\ c.result = s.result /\ c.timer = s.timer
      /\ c.owner[n] = Nobody /\ \A u \in S \ {n} : c.owner[u] = n
      /\ \A u \in Threads \ S : c.owner[u] = s.owner[u]
  BY Zenon, <1>1, <1>2 DEF HandedOn, Same, Fields, PassedOwner, SameSusp
<1>4. w = Wake(c, n, "Success")
  BY Zenon, <1>1, <1>3 DEF EndWait, n, c
<1>5. Trees(w) /\ Awake(w, c, n, "Success")
  BY Zenon, <1>1, <1>2, <1>3, <1>4, WakeIs DEF Results
<1>6. Handed(w, s, S, n)
  <2>1. ASSUME NEW u \in Threads \ S PROVE Alike(w, s, u)
    <3>1. Alike(w, c, u)
      BY Zenon, <1>1, <1>5 DEF Awake
    <3> QED
      BY ONLY Zenon, <1>3, <3>1 DEF Alike
  <2>2. ASSUME NEW u \in S \ {n}
        PROVE  /\ w.state[u] = s.state[u] /\ w.queue[u] = s.queue[u] /\ w.owner[u] = n
               /\ w.key[u] = s.key[u] /\ w.condvar[u] = s.condvar[u]
               /\ w.result[u] = s.result[u] /\ (u \in w.timer <=> u \in s.timer)
    <3>1. Alike(w, c, u) /\ c.owner[u] = n
      BY Zenon, <1>2, <1>3, <1>5 DEF Awake
    <3> QED
      BY ONLY Zenon, <1>3, <3>1 DEF Alike
  <2>3. /\ w.state[n] = "Runnable" /\ w.queue[n] = "none" /\ w.owner[n] = Nobody
        /\ w.condvar[n] = s.condvar[n] /\ w.result[n] = "Success" /\ n \notin w.timer
    <3>1. c.queue[n] # "lightcv"
      BY Zenon, <1>1, <1>3
    <3> QED
      BY ONLY Zenon, <1>3, <1>5, <3>1 DEF Awake
  <2>4. SameSusp(w, s)
    BY ONLY Zenon, <1>3, <1>5 DEF Awake, SameSusp
  <2> QED
    BY Zenon, <2>1, <2>2, <2>3, <2>4 DEF Handed
<1> QED
  BY Zenon, <1>1, <1>5, <1>6 DEF n

\* Who waits for the mutex, and that they are asleep.
LEMMA MutexWaiters ==
  ASSUME NEW s, NEW p, NEW g, NEW m, NEW i, NEW e, Kern(s, p, g, m, i, e), NEW t \in Threads, m.owner = t
  PROVE  /\ WaitersByKey(s, t, Mutex) = {u \in Threads : s.owner[u] # Nobody /\ s.queue[u] # "lightlock"}
         /\ \A u \in WaitersByKey(s, t, Mutex) :
                /\ s.state[u] = "Waiting" /\ s.queue[u] = p[u] /\ p[u] \in {"address", "condvar"}
                /\ s.key[u] = Mutex /\ s.condvar[u] = Nobody /\ m.wait /\ u # t /\ u \notin i
<1>1. ASSUME NEW u \in Threads
      PROVE  /\ (s.owner[u] = t /\ s.key[u] = Mutex) <=> (s.owner[u] # Nobody /\ s.queue[u] # "lightlock")
             /\ s.owner[u] = t /\ s.key[u] = Mutex =>
                /\ s.state[u] = "Waiting" /\ s.queue[u] = p[u] /\ p[u] \in {"address", "condvar"}
                /\ s.condvar[u] = Nobody /\ m.wait /\ u # t /\ u \notin i
  <2>1. Place(s, p, g, m, u) /\ (u \in i => p[u] \in InPCs)
    BY Zenon DEF Kern, Spot
  <2> QED
    BY Zenon, <2>1, Constants DEF Place, InPCs
<1> QED
  BY Zenon, <1>1 DEF WaitersByKey

\* Thread t, in its critical section, is about to hand the mutex on and to leave.
Leaving(t, s, p, g, m, i, e, q) ==
    /\ Kern(s, p, g, m, i, e) /\ t \in i /\ s.state[t] = "Runnable" /\ p[t] \in {"user", "arbunlock"}
    /\ Goes(p, e, t, q, e) /\ q[t] \in {"user", "relock"}

\* HandOver: the mutex goes to the front of the waiters or to nobody; the thread
\* that had it goes elsewhere.
LEMMA HandOverKeeps ==
  ASSUME ThreadFacts, NEW s, NEW p, NEW g, NEW m, NEW i, NEW e, NEW t \in Threads, NEW q,
         Leaving(t, s, p, g, m, i, e, q), NEW x, x = HandOver(s, t)
  PROVE  /\ Kern(x.s, q, g, x.tag, i \ {t}, e) /\ (Susp(s) => Susp(x.s)) /\ NoNewCv(x.s, s)
         /\ x.s.state[t] = "Runnable"
<1> USE DEF Leaving
<1> DEFINE S == WaitersByKey(s, t, Mutex)
           b == RemoveWaiterByKey(s, t, Mutex)
           n == b.next
<1>1. /\ Trees(s) /\ Spot(s, p, g, m, i, e, t) /\ g \in Tags /\ m \in Tags /\ i \subseteq Threads
      /\ e \in [Threads -> Threads \cup {Nobody}] /\ q \in [Threads -> PCs]
      /\ (g.wait => g.owner # Nobody) /\ (m.wait => m.owner # Nobody)
      /\ \A u \in Threads \ {t} : q[u] = p[u]
  BY Zenon DEF Kern, Goes
<1>2. m.owner = t /\ s.owner[t] = Nobody /\ g.owner # t /\ s.queue[t] = "none" /\ s.condvar[t] = Nobody /\ t \notin s.timer
  BY Zenon, <1>1 DEF Spot, Place, HasLock
<1>3. /\ S = {u \in Threads : s.owner[u] # Nobody /\ s.queue[u] # "lightlock"}
      /\ \A u \in S : /\ s.state[u] = "Waiting" /\ s.queue[u] = p[u] /\ p[u] \in {"address", "condvar"}
                      /\ s.key[u] = Mutex /\ s.condvar[u] = Nobody /\ m.wait /\ u # t /\ u \notin i
  BY <1>2, MutexWaiters
<1>4. ASSUME NEW r, NEW h, NEW u \in Threads \ (S \cup {t}), Alike(r, s, u), h.owner # u
      PROVE  Spot(r, q, g, h, i \ {t}, e, u)
  <2>1. Spot(s, p, g, m, i, e, u) /\ q[u] = p[u] /\ (s.owner[u] # Nobody => s.queue[u] = "lightlock")
    BY Zenon, <1>1, <1>3, <1>4 DEF Kern
  <2>2. s.owner[u] # Nobody => g.wait
    BY Zenon, <2>1 DEF Spot, Place
  <2> DEFINE j == i \ {t}
  <2>3. (u \in j <=> u \in i) /\ (h.owner = u <=> m.owner = u)
    BY Zenon, <1>2, <1>4
  <2> HIDE DEF S, j
  <2>5. Stays(u, s, p, g, m, i, e, r, q, g, h, j, e)
    BY Zenon, <1>4, <2>1, <2>2, <2>3 DEF Stays
  <2>4. Spot(r, q, g, h, j, e, u)
    BY Zenon, <2>1, <2>5, SpotOther
  <2> QED
    BY Zenon, <2>4 DEF j
<1>5. ASSUME NEW r, NEW h, Alike(r, s, t), h.owner # t
      PROVE  Spot(r, q, g, h, i \ {t}, e, t)
  <2>1. Place(r, q, g, h, t)
    BY Zenon, <1>2, <1>5 DEF Place, Alike
  <2>2. ~HasLock(r, q, t) /\ ~Given(r, q, t)
    BY Zenon DEF HasLock, Given
  <2> QED
    BY Zenon, <1>1, <1>2, <1>5, <2>1, <2>2 DEF Spot, Alike
<1>6. CASE S = {}
  <2> DEFINE h == [owner |-> Nobody, wait |-> FALSE]
  <2>1. x = [s |-> s, tag |-> h]
    BY Zenon, <1>6 DEF HandOver, RemoveWaiterByKey
  <2>2. h \in Tags /\ h.owner = Nobody /\ ~h.wait
    BY Zenon DEF Tags
  <2> HIDE DEF h, S
  <2>3. \A u \in Threads : Spot(s, q, g, h, i \ {t}, e, u)
    BY Zenon, <1>4, <1>5, <1>6, <2>2, Constants DEF Alike
  <2>4. Kern(s, q, g, h, i \ {t}, e)
    BY Zenon, <1>1, <2>2, <2>3 DEF Kern
  <2> QED
    BY <2>1, <2>4 DEF NoNewCv
<1>7. CASE S # {}
  <2> DEFINE w == EndWait(b.s, n, "Success")
             h == [owner |-> n, wait |-> b.more]
  <2>0. \A u \in S : s.state[u] = "Waiting" /\ s.queue[u] # "lightcv"
    BY Zenon, <1>3
  <2>1. n \in S /\ b.more = (S # {n}) /\ Trees(w) /\ Handed(w, s, S, n)
    BY Zenon, <1>1, <1>7, <2>0, PassOn
  <2>2. S \subseteq Threads /\ n \in Threads /\ n # Nobody
    BY Zenon, <2>1, Constants DEF WaitersByKey
  <2>3. x = [s |-> w, tag |-> h]
    BY Zenon, <2>2 DEF HandOver
  <2>4. h \in Tags /\ h.owner = n /\ (S # {n} => h.wait)
    BY Zenon, <2>1, <2>2 DEF Tags
  <2> HIDE DEF S, w, n, b, h
  <2>5. ASSUME NEW u \in Threads \ S PROVE Spot(w, q, g, h, i \ {t}, e, u)
    <3>1. Alike(w, s, u) /\ h.owner # u
      BY Zenon, <2>1, <2>4 DEF Handed
    <3> QED
      BY Zenon, <1>4, <1>5, <3>1
  <2>6. ASSUME NEW u \in S \ {n} PROVE Spot(w, q, g, h, i \ {t}, e, u)
    <3>1. /\ u \in Threads /\ Spot(s, p, g, m, i, e, u) /\ q[u] = p[u] /\ h.wait /\ h.owner # u
          /\ s.state[u] = "Waiting" /\ s.queue[u] = p[u] /\ p[u] \in {"address", "condvar"}
          /\ s.key[u] = Mutex /\ s.condvar[u] = Nobody /\ u # t /\ u \notin i
      BY Zenon, <1>1, <1>3, <2>1, <2>2, <2>4 DEF Kern
    <3>2. /\ w.state[u] = s.state[u] /\ w.queue[u] = s.queue[u] /\ w.owner[u] = n
          /\ w.key[u] = s.key[u] /\ w.condvar[u] = s.condvar[u]
          /\ w.result[u] = s.result[u] /\ (u \in w.timer <=> u \in s.timer)
      BY Zenon, <2>1 DEF Handed
    <3>3. Place(w, q, g, h, u)
      BY Zenon, <2>2, <2>4, <3>1, <3>2 DEF Place
    <3>4. ~HasLock(w, q, u) /\ ~Given(w, q, u) /\ ~HasLock(s, p, u)
      BY Zenon, <3>1, <3>2 DEF HasLock, Given
    <3> QED
      BY Zenon, <3>1, <3>2, <3>3, <3>4 DEF Spot
  <2>7. Spot(w, q, g, h, i \ {t}, e, n)
    <3>1. /\ Spot(s, p, g, m, i, e, n) /\ q[n] = p[n] /\ s.state[n] = "Waiting" /\ n \notin i /\ n # t
          /\ p[n] \in {"address", "condvar"} /\ s.condvar[n] = Nobody
      BY Zenon, <1>1, <1>3, <2>1, <2>2 DEF Kern
    <3>2. /\ w.state[n] = "Runnable" /\ w.queue[n] = "none" /\ w.owner[n] = Nobody
          /\ w.condvar[n] = s.condvar[n] /\ w.result[n] = "Success" /\ n \notin w.timer
      BY Zenon, <2>1 DEF Handed
    <3>3. Place(w, q, g, h, n) /\ Given(w, q, n) /\ ~HasLock(w, q, n) /\ ~HasLock(s, p, n)
      BY Zenon, <3>1, <3>2 DEF Place, Given, HasLock
    <3> QED
      BY Zenon, <2>4, <3>1, <3>2, <3>3 DEF Spot
  <2>8. Kern(w, q, g, h, i \ {t}, e)
    <3>1. \A u \in Threads : Spot(w, q, g, h, i \ {t}, e, u)
      BY Zenon, <2>2, <2>5, <2>6, <2>7
    <3>2. h.wait => h.owner # Nobody
      BY Zenon, <2>2, <2>4
    <3> QED
      BY Zenon, <1>1, <2>1, <2>4, <3>1, <3>2 DEF Kern
  <2>9. Susp(s) => Susp(w)
    <3>1. ASSUME NEW u \in Threads
          PROVE  \/ w.owner[u] = Nobody \/ w.key[u] \notin KernelKeys
                 \/ w.owner[u] = s.owner[u] /\ w.key[u] = s.key[u]
      <4>1. CASE u \in Threads \ S
        BY Zenon, <2>1, <4>1 DEF Handed, Alike
      <4>2. CASE u \in S
        BY <1>3, <2>1, <4>2, Constants DEF Handed
      <4> QED
        BY Zenon, <4>1, <4>2
    <3>2. SameSusp(w, s)
      BY Zenon, <2>1 DEF Handed
    <3> QED
      BY <3>1, <3>2, SuspKept DEF Susp
  <2>10. NoNewCv(w, s) /\ w.state[t] = "Runnable"
    <3>1. t \notin S
      BY Zenon, <1>3
    <3> QED
      BY Zenon, <2>1, <3>1 DEF NoNewCv, Handed, Alike
  <2> QED
    BY <2>3, <2>8, <2>9, <2>10
<1> QED
  BY Zenon, <1>6, <1>7

\* Who waits for the light lock, and that they are asleep.
LEMMA LockWaiters ==
  ASSUME NEW s, NEW p, NEW g, NEW m, NEW i, NEW e, Kern(s, p, g, m, i, e), NEW t \in Threads, g.owner = t
  PROVE  /\ WaitersByKey(s, t, LightLock) = {u \in Threads : s.owner[u] # Nobody /\ s.queue[u] = "lightlock"}
         /\ \A u \in WaitersByKey(s, t, LightLock) :
                /\ s.state[u] = "Waiting" /\ s.queue[u] = "lightlock" /\ p[u] = "lockwait"
                /\ s.key[u] = LightLock /\ s.condvar[u] = Nobody /\ g.wait /\ u # t
<1>1. ASSUME NEW u \in Threads
      PROVE  /\ (s.owner[u] = t /\ s.key[u] = LightLock) <=> (s.owner[u] # Nobody /\ s.queue[u] = "lightlock")
             /\ s.owner[u] = t /\ s.key[u] = LightLock =>
                /\ s.state[u] = "Waiting" /\ s.queue[u] = "lightlock" /\ p[u] = "lockwait"
                /\ s.condvar[u] = Nobody /\ g.wait /\ u # t
  <2>1. Place(s, p, g, m, u)
    BY Zenon DEF Kern, Spot
  <2> QED
    BY Zenon, <2>1, Constants DEF Place
<1> QED
  BY Zenon, <1>1 DEF WaitersByKey

\* The light lock goes to n, one of the waiters, or to nobody: where everybody is.
LEMMA LockHandedOn ==
  ASSUME NEW s, NEW p, NEW g, NEW m, NEW i, NEW e, Kern(s, p, g, m, i, e), NEW t \in Threads,
         HasLock(s, p, t), s.state[t] = "Runnable",
         NEW q, Goes(p, e, t, q, e), q[t] \in {"user", "lock", "exiting"},
         NEW S, S = WaitersByKey(s, t, LightLock), NEW h, h \in Tags, h.wait => h.owner # Nobody,
         NEW w, Trees(w),
         \/ S = {} /\ h.owner = Nobody /\ \A u \in Threads : Alike(w, s, u)
         \/ h.owner \in S /\ (S # {h.owner} => h.wait) /\ Handed(w, s, S, h.owner)
  PROVE  Kern(w, q, h, m, i, e)
<1> DEFINE n == h.owner
<1>1. /\ Spot(s, p, g, m, i, e, t) /\ g \in Tags /\ m \in Tags /\ i \subseteq Threads
      /\ e \in [Threads -> Threads \cup {Nobody}] /\ q \in [Threads -> PCs]
      /\ (m.wait => m.owner # Nobody) /\ \A u \in Threads \ {t} : q[u] = p[u]
  BY Zenon DEF Kern, Goes
<1>2. /\ g.owner = t /\ s.owner[t] = Nobody /\ s.queue[t] = "none" /\ s.condvar[t] = Nobody /\ t \notin s.timer
      /\ (m.owner = t <=> t \in i)
  BY Zenon, <1>1 DEF Spot, Place, HasLock, Given
<1>3. /\ S = {u \in Threads : s.owner[u] # Nobody /\ s.queue[u] = "lightlock"}
      /\ \A u \in S : /\ s.state[u] = "Waiting" /\ s.queue[u] = "lightlock" /\ p[u] = "lockwait"
                      /\ s.key[u] = LightLock /\ s.condvar[u] = Nobody /\ g.wait /\ u # t
  BY <1>2, LockWaiters
<1>4. /\ S \subseteq Threads /\ n \notin Threads \ S /\ t \notin S /\ Nobody \notin Threads
      /\ \A u \in Threads \ S : Alike(w, s, u)
  BY Zenon, <1>3, Constants DEF Handed
<1>5. ASSUME NEW u \in Threads \ S, u # t PROVE Spot(w, q, h, m, i, e, u)
  <2>1. /\ Spot(s, p, g, m, i, e, u) /\ q[u] = p[u] /\ (s.owner[u] # Nobody => s.queue[u] # "lightlock")
        /\ Alike(w, s, u) /\ (h.owner = u <=> g.owner = u)
    BY Zenon, <1>1, <1>2, <1>3, <1>4, <1>5 DEF Kern
  <2>2. s.owner[u] # Nobody => m.wait
    BY Zenon, <2>1 DEF Spot, Place
  <2>3. Stays(u, s, p, g, m, i, e, w, q, h, m, i, e)
    BY Zenon, <2>1, <2>2 DEF Stays
  <2> QED
    BY Zenon, <2>1, <2>3, SpotOther
<1>6. Spot(w, q, h, m, i, e, t)
  <2>1. Alike(w, s, t) /\ h.owner # t
    BY Zenon, <1>4
  <2>2. Place(w, q, h, m, t)
    BY Zenon, <1>2, <2>1 DEF Place, Alike
  <2>3. ~HasLock(w, q, t) /\ ~Given(w, q, t) /\ q[t] \in InPCs
    BY Zenon DEF HasLock, Given, InPCs
  <2> QED
    BY Zenon, <1>1, <1>2, <2>1, <2>2, <2>3 DEF Spot, Alike
<1>7. ASSUME NEW u \in S PROVE Spot(w, q, h, m, i, e, u)
  <2>1. /\ u \in Threads /\ Spot(s, p, g, m, i, e, u) /\ q[u] = p[u] /\ n \in S
        /\ s.state[u] = "Waiting" /\ s.queue[u] = "lightlock" /\ p[u] = "lockwait"
        /\ s.key[u] = LightLock /\ s.condvar[u] = Nobody /\ u # t /\ Handed(w, s, S, n)
    BY Zenon, <1>1, <1>3, <1>4, <1>7 DEF Kern
  <2>2. m.owner = u <=> u \in i
    BY Zenon, <2>1 DEF Spot, Given
  <2>3. CASE u = n
    <3>1. /\ w.state[u] = "Runnable" /\ w.queue[u] = "none" /\ w.owner[u] = Nobody
          /\ w.condvar[u] = Nobody /\ u \notin w.timer
      BY Zenon, <2>1, <2>3 DEF Handed
    <3>2. Place(w, q, h, m, u) /\ HasLock(w, q, u) /\ ~Given(w, q, u)
      BY Zenon, <2>1, <3>1 DEF Place, HasLock, Given
    <3> QED
      BY Zenon, <2>1, <2>2, <2>3, <3>1, <3>2 DEF Spot
  <2>5. Handed(w, s, S, n) /\ (S # {n} => h.wait)
    BY Zenon, <1>4
  <2>4. CASE u # n
    <3>1. /\ w.state[u] = s.state[u] /\ w.queue[u] = s.queue[u] /\ w.owner[u] = n /\ h.wait
          /\ w.key[u] = s.key[u] /\ w.condvar[u] = s.condvar[u] /\ (u \in w.timer <=> u \in s.timer)
      BY ONLY Zenon, u \in S, <2>1, <2>4, <2>5 DEF Handed
    <3>2. Place(w, q, h, m, u) /\ ~HasLock(w, q, u) /\ ~Given(w, q, u)
      BY Zenon, <1>4, <2>1, <2>4, <3>1 DEF Place, HasLock, Given
    <3> QED
      BY Zenon, <2>1, <2>2, <2>4, <3>1, <3>2 DEF Spot
  <2> QED
    BY Zenon, <2>3, <2>4
<1> QED
  BY Zenon, <1>1, <1>4, <1>5, <1>6, <1>7 DEF Kern

\* UnlockSlowPath's last check: suspend the thread again that kernel waiters had
\* kept running.
LEMMA SuspendAgain ==
  ASSUME ThreadFacts, NEW s, Trees(s), NEW t \in Threads, NEW r, r = IF IsSuspended(s, t) THEN TrySuspend(s, t) ELSE s
  PROVE  Trees(r) /\ (\A u \in Threads : Alike(r, s, u)) /\ (Susp(s) => Susp(r))
<1>1. CASE IsSuspended(s, t)
  <2>1. r = TrySuspend(s, t)
    BY Zenon, <1>1
  <2>2. Susp(s) => SuspBut(s, {t}) /\ (KernelWaiters(s, t) # {} => s.flags[t] = {})
    BY Zenon DEF Susp, SuspBut
  <2> QED
    BY Zenon, <2>1, <2>2, TrySuspendIs
<1>2. CASE ~IsSuspended(s, t)
  BY Zenon, <1>2 DEF Alike
<1> QED
  BY Zenon, <1>1, <1>2

\* KLightLock::Unlock, from whichever call; g is the tag it reads.
LEMMA UnlockKeeps ==
  ASSUME ThreadFacts, NEW s, NEW p, NEW m, NEW i, NEW e, Kern(s, p, ltag, m, i, e), NEW t \in Threads,
         HasLock(s, p, t), s.state[t] = "Runnable",
         NEW q, Goes(p, e, t, q, e), q[t] \in {"user", "lock", "exiting"},
         NEW x, x = Unlock(s, t)
  PROVE  /\ Kern(x.s, q, x.tag, m, i, e) /\ (Susp(s) => Susp(x.s)) /\ NoNewCv(x.s, s)
         /\ x.s.state[t] = "Runnable"
         /\ \A u \in Threads : x.s.queue[u] = "lightcv" => s.queue[u] = "lightcv"
<1> DEFINE S == WaitersByKey(s, t, LightLock)
           b == RemoveWaiterByKey(s, t, LightLock)
           n == b.next
<1>1. Trees(s) /\ ltag.owner = t
  BY Zenon DEF Kern, Spot
<1>2. \A u \in S : /\ s.state[u] = "Waiting" /\ s.queue[u] # "lightcv" /\ ltag.wait /\ u # t /\ s.condvar[u] = Nobody
  BY <1>1, LockWaiters
<1>3. \A u \in Threads : Alike(s, s, u)
  BY Zenon DEF Alike
<1>4. CASE ltag = [owner |-> t, wait |-> FALSE]
  <2>1. x = [s |-> s, tag |-> Free]
    BY Zenon, <1>4 DEF Unlock
  <2>2. S = {} /\ Free \in Tags /\ Free.owner = Nobody /\ ~Free.wait
    BY Zenon, <1>2, <1>4 DEF Free, Tags
  <2>3. Kern(s, q, Free, m, i, e)
    BY Zenon, <1>1, <1>3, <2>2, LockHandedOn
  <2> QED
    BY <2>1, <2>3 DEF NoNewCv
<1>5. CASE ltag # [owner |-> t, wait |-> FALSE] /\ S = {}
  <2> DEFINE f == IF IsSuspended(s, t) THEN TrySuspend(s, t) ELSE s
             h == [owner |-> Nobody, wait |-> FALSE]
  <2>1. x = [s |-> f, tag |-> h]
    BY Zenon, <1>5 DEF Unlock, UnlockSlowPath, RemoveWaiterByKey
  <2>2. h \in Tags /\ h.owner = Nobody /\ ~h.wait
    BY Zenon DEF Tags
  <2>3. Trees(f) /\ (\A u \in Threads : Alike(f, s, u)) /\ (Susp(s) => Susp(f))
    BY Zenon, <1>1, SuspendAgain
  <2> HIDE DEF f, h, S
  <2>4. Kern(f, q, h, m, i, e)
    BY Zenon, <1>1, <1>5, <2>2, <2>3, LockHandedOn DEF S
  <2> QED
    BY <2>1, <2>3, <2>4 DEF NoNewCv, Alike
<1>6. CASE ltag # [owner |-> t, wait |-> FALSE] /\ S # {}
  <2> DEFINE w == EndWait(b.s, n, "Success")
             c == ContinueIfHasKernelWaiters(w, n)
             f == IF IsSuspended(c, t) THEN TrySuspend(c, t) ELSE c
             h == [owner |-> n, wait |-> b.more]
  <2>0. \A u \in S : s.state[u] = "Waiting" /\ s.queue[u] # "lightcv"
    BY Zenon, <1>2
  <2>1. n \in S /\ b.more = (S # {n}) /\ Trees(w) /\ Handed(w, s, S, n)
    BY Zenon, <1>1, <1>6, <2>0, PassOn
  <2>2. S \subseteq Threads /\ n \in Threads /\ n # Nobody
    BY Zenon, <2>1, Constants DEF WaitersByKey
  <2>3. x = [s |-> f, tag |-> h]
    BY Zenon, <1>6, <2>2 DEF Unlock, UnlockSlowPath
  <2>4. h \in Tags /\ h.owner = n /\ (S # {n} => h.wait)
    BY Zenon, <2>1, <2>2 DEF Tags
  <2> HIDE DEF w, n, b, h
  <2>5. Trees(c) /\ (\A u \in Threads : Alike(c, w, u)) /\ (SuspBut(w, {n}) => Susp(c))
    BY Zenon, <2>1, <2>2, ContinueIs
  <2> HIDE DEF c
  <2>6. Trees(f) /\ (\A u \in Threads : Alike(f, c, u)) /\ (Susp(c) => Susp(f))
    BY Zenon, <2>5, SuspendAgain
  <2> HIDE DEF f, S
  <2>7. Kern(f, q, h, m, i, e)
    <3>1. Kern(w, q, h, m, i, e)
      <4>1. h.wait => h.owner # Nobody
        BY Zenon, <2>2, <2>4
      <4> QED
        BY Zenon, <1>1, <2>1, <2>4, <4>1, LockHandedOn DEF S
    <3> QED
      BY Zenon, <2>5, <2>6, <3>1, KernSame
  <2>8. Susp(s) => SuspBut(w, {n})
    <3>1. ASSUME NEW u \in Threads \ {n} PROVE KernelWaiters(w, u) \subseteq KernelWaiters(s, u)
      <4>1. ASSUME NEW v \in Threads, w.owner[v] = u PROVE v \notin S
        BY Zenon, <2>1, <2>2, <3>1, <4>1, Constants DEF Handed
      <4> QED
        BY Zenon, <2>1, <4>1 DEF Handed, Alike, KernelWaiters
    <3>2. SameSusp(w, s)
      BY Zenon, <2>1 DEF Handed
    <3> QED
      BY Zenon, <3>1, <3>2 DEF Susp, SuspBut, SameSusp
  <2>9. ASSUME NEW u \in Threads
        PROVE  /\ f.condvar[u] \in {s.condvar[u], Nobody} /\ (u = t => f.state[u] = s.state[u])
               /\ f.queue[u] = "lightcv" => s.queue[u] = "lightcv"
    <3>1. /\ w.condvar[u] \in {s.condvar[u], Nobody} /\ (u = t => w.state[u] = s.state[u])
          /\ w.queue[u] = "lightcv" => s.queue[u] = "lightcv"
      BY Zenon, <1>2, <2>1, <2>2 DEF Handed, Alike
    <3>2. Alike(f, c, u) /\ Alike(c, w, u)
      BY Zenon, <2>5, <2>6
    <3> QED
      BY Zenon, <3>1, <3>2 DEF Alike
  <2> QED
    BY <2>3, <2>5, <2>6, <2>7, <2>8, <2>9 DEF NoNewCv
<1> QED
  BY Zenon, <1>4, <1>5, <1>6
-----------------------------------------------------------------------------
(* Joining the waiters of an owner.                                        *)

\* Owners are few: the light lock's waits for nobody, the mutex's for nobody or for
\* the light lock's.
LEMMA OwnersWait ==
  ASSUME NEW s, NEW p, NEW g, NEW m, NEW i, NEW e, Kern(s, p, g, m, i, e), NEW u \in Threads
  PROVE  /\ s.owner[u] \in {Nobody, g.owner, m.owner}
         /\ g.owner = u => s.owner[u] = Nobody /\ s.condvar[u] = Nobody /\ s.state[u] = "Runnable"
         /\ m.owner = u => s.owner[u] \in {Nobody, g.owner} /\ s.condvar[u] = Nobody
<1>1. Spot(s, p, g, m, i, e, u)
  BY Zenon DEF Kern
<1>2. s.owner[u] \in {Nobody, g.owner, m.owner}
  BY Zenon, <1>1 DEF Spot, Place
<1>3. g.owner = u => s.owner[u] = Nobody /\ s.condvar[u] = Nobody /\ s.state[u] = "Runnable"
  BY Zenon, <1>1 DEF Spot, Place, HasLock
<1>4. m.owner = u => s.owner[u] \in {Nobody, g.owner} /\ s.condvar[u] = Nobody
  BY Zenon, <1>1, Constants DEF Spot, Place, Given, InPCs
<1> QED
  BY Zenon, <1>2, <1>3, <1>4

\* A thread outside the light lock that does not own the mutex may wait for its owner.
LEMMA MutexMayJoin ==
  ASSUME NEW s, NEW p, NEW g, NEW m, NEW i, NEW e, Kern(s, p, g, m, i, e), NEW t \in Threads,
         s.owner[t] = Nobody, p[t] \notin {"locked", "lockwait"}, NEW o \in Threads, m.owner = o, o # t,
         NEW c, \A u \in Threads : c.owner[u] = s.owner[u], c.condvar[t] = Nobody, c.key[t] = Mutex
  PROVE  MayJoin(c, o, t)
<1>1. \A u \in Threads :
         /\ s.owner[u] \in {Nobody, g.owner, m.owner} /\ (g.owner = u => s.owner[u] = Nobody)
         /\ m.owner = u => s.owner[u] \in {Nobody, g.owner}
  BY OwnersWait
<1>2. g.owner # t /\ g.owner \in Threads \cup {Nobody}
  BY Zenon DEF Kern, Spot, HasLock, Tags
<1>3. \A u \in Threads : c.owner[u] # t
  BY Zenon, <1>1, <1>2, Constants
<1>4. Up(c, c.owner[o]) = Nobody
  BY Zenon, <1>1, <1>2 DEF Up
<1> QED
  BY Zenon, <1>3, <1>4, Constants DEF MayJoin

\* A thread at LockSlowPath may wait for the light lock's owner.
LEMMA LockMayJoin ==
  ASSUME NEW s, NEW p, NEW g, NEW m, NEW i, NEW e, Kern(s, p, g, m, i, e), NEW t \in Threads,
         s.owner[t] = Nobody, NEW o \in Threads, g.owner = o, o # t,
         NEW c, \A u \in Threads : c.owner[u] = s.owner[u], c.condvar[t] = Nobody, c.key[t] = LightLock
  PROVE  MayJoin(c, o, t)
<1>1. \A u \in Threads :
         /\ s.owner[u] \in {Nobody, g.owner, m.owner} /\ (g.owner = u => s.owner[u] = Nobody)
         /\ m.owner = u => s.owner[u] \in {Nobody, g.owner}
  BY OwnersWait
<1>2. m.owner \in Threads \cup {Nobody}
  BY Zenon DEF Kern, Tags
<1>3. ASSUME NEW u \in Threads, c.owner[u] = t, NEW v \in Threads PROVE c.owner[v] # u
  BY <1>1, <1>3, Constants
<1>4. c.owner[o] = Nobody
  BY Zenon, <1>1
<1> QED
  BY Zenon, <1>3, <1>4, Constants DEF MayJoin, Up
-----------------------------------------------------------------------------
(* Signal.                                                                 *)

\* The mutex gets the wait bit, or an owner where it had none: the others.
LEMMA KernSignal ==
  ASSUME NEW s, NEW p, NEW g, NEW m, NEW i, NEW e, Kern(s, p, g, m, i, e), NEW t \in Threads,
         NEW r, Trees(r), \A u \in Threads \ {t} : Alike(r, s, u),
         NEW h, h \in Tags, h.wait => h.owner # Nobody,
         \A u \in Threads \ {t} : h.owner = u <=> m.owner = u,
         m.wait => h.owner = m.owner /\ h.wait, Spot(r, p, g, h, i, e, t)
  PROVE  Kern(r, p, g, h, i, e)
<1>1. /\ Goes(p, e, t, p, e) /\ g \in Tags /\ i \subseteq Threads /\ (g.wait => g.owner # Nobody)
  BY Zenon DEF Kern, Goes
<1>2. Moves(t, s, p, g, m, i, e, r, p, g, h, i, e)
  BY Zenon, <1>1 DEF Moves
<1> QED
  BY Zenon, <1>2, KernMove

\* Thread t has left the tree of its condition variable and has the mutex or waits
\* for it, at x; s were the threads before, and c once t was out of the tree.
Signalled(x, s, c, p, g, i, e, t) ==
    /\ Kern(x.s, p, g, x.tag, i, e) /\ (Susp(s) => Susp(x.s)) /\ NoNewCv(x.s, s)
    /\ x.s.condvar[t] = Nobody /\ \A u \in Threads \ {t} : x.s.condvar[u] = s.condvar[u]
    /\ OrderSame(x.s, c, {u \in Threads : s.condvar[u] = Nobody} \cup {t})

\* SignalImpl, of a thread just taken out of the condition variable's tree.
LEMMA SignalImplKeeps ==
  ASSUME ThreadFacts, NEW s, NEW p, NEW g, NEW m, NEW i, NEW e, Kern(s, p, g, m, i, e), NEW t \in Threads,
         s.condvar[t] # Nobody, NEW c, c = ClearConditionVariable(s, t), NEW x, x = SignalImpl(c, m, t)
  PROVE  Signalled(x, s, c, p, g, i, e, t)
<1>1. /\ Spot(s, p, g, m, i, e, t) /\ Trees(s) /\ Typed(s) /\ m \in Tags
      /\ (m.wait => m.owner # Nobody)
  BY Zenon DEF Kern, Trees
<1>2. /\ s.owner[t] = Nobody /\ p[t] = "condvar" /\ s.state[t] = "Waiting" /\ s.queue[t] = "condvar"
      /\ s.key[t] = Mutex /\ m.owner # t /\ t \notin i /\ g.owner # t
  BY Zenon, <1>1 DEF Spot, Place, HasLock, InPCs
<1>3. Trees(c) /\ Placed(c, s, t, Nobody, Nobody) /\ c.key = s.key /\ OrderSame(c, s, {t})
  BY Zenon, <1>1, <1>2, ClearIs
<1>4. CASE m.owner = Nobody
  <2> DEFINE r == Wake(c, t, "Success")
             h == [owner |-> t, wait |-> FALSE]
  <2>1. x = [s |-> r, tag |-> h]
    BY Zenon, <1>2, <1>3, <1>4 DEF SignalImpl, EndWait, Placed
  <2>2. Trees(r) /\ Awake(r, c, t, "Success")
    BY Zenon, <1>3, WakeIs DEF Placed, Results
  <2>3. h \in Tags /\ h.owner = t /\ ~h.wait
    BY Zenon DEF Tags
  <2> HIDE DEF r, h
  <2>4. Freed(r, s, t) /\ r.result[t] = "Success"
    BY <1>2, <1>3, <2>2, PlacedFreed
  <2>5. Spot(r, p, g, h, i, e, t)
    <3>1. Place(r, p, g, h, t) /\ ~HasLock(r, p, t) /\ Given(r, p, t)
      BY Zenon, <1>2, <2>4 DEF Freed, Place, HasLock, Given
    <3> QED
      BY Zenon, <1>1, <1>2, <2>3, <2>4, <3>1 DEF Spot, Freed
  <2>6. Kern(r, p, g, h, i, e)
    <3>1. \A u \in Threads \ {t} : Alike(r, s, u) /\ (h.owner = u <=> m.owner = u)
      BY Zenon, <1>4, <2>3, <2>4, Constants DEF Freed
    <3> QED
      BY Zenon, <1>1, <1>4, <2>2, <2>3, <2>5, <3>1, KernSignal
  <2>7. Susp(s) => Susp(r)
    <3>1. ASSUME NEW u \in Threads PROVE r.owner[u] = Nobody \/ (r.owner[u] = s.owner[u] /\ r.key[u] = s.key[u])
      <4>1. u = t \/ Alike(r, s, u)
        BY Zenon, <2>4 DEF Freed
      <4> QED
        BY Zenon, <2>4, <4>1 DEF Freed, Alike
    <3>2. SameSusp(r, s)
      BY Zenon, <2>4 DEF Freed
    <3> QED
      BY <3>1, <3>2, SuspKept DEF Susp
  <2>8. NoNewCv(r, s) /\ r.condvar[t] = Nobody /\ \A u \in Threads \ {t} : r.condvar[u] = s.condvar[u]
    BY Zenon, <2>4 DEF Freed, Alike, NoNewCv
  <2>9. OrderSame(r, c, {u \in Threads : s.condvar[u] = Nobody} \cup {t})
    BY Zenon, <2>2 DEF Awake, OrderSame
  <2> QED
    BY <2>1, <2>6, <2>7, <2>8, <2>9 DEF Signalled
<1>5. CASE m.owner # Nobody
  <2> DEFINE o == m.owner
             r == AddWaiter(c, o, t)
             h == [m EXCEPT !.wait = TRUE]
  <2>1. x = [s |-> r, tag |-> h]
    BY Zenon, <1>5 DEF SignalImpl
  <2>2. o \in Threads
    BY Zenon, <1>1, <1>5 DEF Tags
  <2>3. h \in Tags /\ h.owner = o /\ h.wait
    BY Zenon, <1>1, <2>2 DEF Tags
  <2>4. \A u \in Threads : c.owner[u] = s.owner[u]
    BY ONLY Zenon, <1>2, <1>3 DEF Placed, Alike
  <2>5. MayJoin(c, o, t)
    BY <1>2, <1>3, <2>2, <2>4, MutexMayJoin DEF Placed
  <2>6. Joined(r, c, o, t) /\ Trees(r) /\ OrderSame(r, c, {t, o, c.owner[o]})
    BY Zenon, <1>3, <2>2, <2>5 DEF ThreadFacts, AddWaiterIs
  <2> HIDE DEF r, h
  <2>7. Placed(r, c, t, o, Nobody) /\ r.key = c.key
    <3>1. Typed(c) /\ c.condvar[t] = Nobody
      BY Zenon, <1>3 DEF Trees, Placed
    <3> QED
      BY Zenon, <2>6, <3>1, JoinedPlaced
  <2>8. Placed(r, s, t, o, Nobody) /\ r.key = s.key
    BY Zenon, <1>3, <2>7, PlacedAgain
  <2> HIDE DEF o
  <2>9. Spot(r, p, g, h, i, e, t)
    <3>1. Place(r, p, g, h, t) /\ ~HasLock(r, p, t) /\ ~Given(r, p, t)
      BY Zenon, <1>2, <2>2, <2>3, <2>8, Constants DEF Placed, Place, HasLock, Given, o
    <3> QED
      BY Zenon, <1>1, <1>2, <2>3, <2>8, <3>1 DEF Spot, Placed, o
  <2>10. Kern(r, p, g, h, i, e)
    <3>1. \A u \in Threads \ {t} : Alike(r, s, u)
      BY Zenon, <2>8 DEF Placed
    <3>2. h.owner = m.owner /\ h.wait /\ h.owner # Nobody
      BY Zenon, <1>5, <2>3 DEF o
    <3> QED
      BY ONLY Zenon, Kern(s, p, g, m, i, e), t \in Threads, <2>3, <2>6, <2>9, <3>1, <3>2, KernSignal
  <2>11. Susp(s) => Susp(r)
    <3>1. ASSUME NEW u \in Threads
          PROVE  r.key[u] \notin KernelKeys \/ (r.owner[u] = s.owner[u] /\ r.key[u] = s.key[u])
      <4>1. u = t \/ Alike(r, s, u)
        BY Zenon, <2>8 DEF Placed
      <4> QED
        BY Zenon, <1>2, <2>8, <4>1, Constants DEF Alike
    <3>2. SameSusp(r, s)
      BY Zenon, <2>8 DEF Placed
    <3> QED
      BY <3>1, <3>2, SuspKept DEF Susp
  <2>12. NoNewCv(r, s) /\ r.condvar[t] = Nobody /\ \A u \in Threads \ {t} : r.condvar[u] = s.condvar[u]
    BY Zenon, <2>8 DEF Placed, Alike, NoNewCv
  <2>13. OrderSame(r, c, {u \in Threads : s.condvar[u] = Nobody} \cup {t})
    <3>1. s.condvar[o] = Nobody /\ s.owner[o] \in {Nobody, g.owner}
      BY Zenon, <2>2, OwnersWait DEF o
    <3>2. g.owner \in Threads => s.condvar[g.owner] = Nobody
      BY Zenon, OwnersWait
    <3>3. g.owner \in Threads \cup {Nobody}
      BY Zenon DEF Kern, Tags
    <3>4. \A u \in Threads : s.condvar[u] # Nobody => u \notin {o, c.owner[o]}
      BY Zenon, <2>2, <2>4, <3>1, <3>2, <3>3, Constants
    <3> QED
      BY Zenon, <2>6, <3>4 DEF OrderSame
  <2> QED
    BY <2>1, <2>10, <2>11, <2>12, <2>13 DEF Signalled
<1> QED
  BY Zenon, <1>4, <1>5

\* The loop of Signal at x, begun with the threads s: the iterator is at the front
\* of what is left in the tree of the condition variable c.
Signalling(x, s, c, p, g, i, e) ==
    /\ Kern(x.s, p, g, x.tag, i, e) /\ (Susp(s) => Susp(x.s)) /\ NoNewCv(x.s, s)
    /\ IF x.at = Nobody THEN CondVarTree(x.s, c) = {}
       ELSE /\ x.at \in CondVarTree(x.s, c)
            /\ \A u \in CondVarTree(x.s, c) \ {x.at} : InFront(x.s, x.at, u)

\* A turn of the loop: the iterator, moved on before SignalImpl changes the trees,
\* still is at the front afterwards.
LEMMA SignalStepKeeps ==
  ASSUME ThreadFacts, NEW x, NEW s, NEW c \in CondVarKeys, NEW p, NEW g, NEW i, NEW e, Signalling(x, s, c, p, g, i, e),
         NEW y, y = SignalStep(c, x)
  PROVE  Signalling(y, s, c, p, g, i, e)
<1>1. CASE x.at = Nobody
  BY Zenon, <1>1 DEF SignalStep
<1>2. CASE x.at # Nobody
  <2> DEFINE t    == x.at
             s1   == ClearConditionVariable(x.s, t)
             tree == {u \in CondVarTree(s1, c) : InFront(x.s, t, u)}
             a    == SignalImpl(s1, x.tag, t)
  <2>1. y = [s |-> a.s, tag |-> a.tag, at |-> IF tree = {} THEN Nobody ELSE FrontOf(s1, tree)]
    BY Zenon, <1>2 DEF SignalStep
  <2>2. t \in Threads /\ x.s.condvar[t] = c /\ c # Nobody
    BY Zenon, <1>2, Constants DEF Signalling, CondVarTree
  <2>3. Kern(x.s, p, g, x.tag, i, e) /\ Trees(x.s)
    BY Zenon DEF Signalling, Kern
  <2> HIDE DEF a
  <2>4. /\ Kern(a.s, p, g, a.tag, i, e) /\ (Susp(x.s) => Susp(a.s)) /\ NoNewCv(a.s, x.s)
        /\ a.s.condvar[t] = Nobody /\ \A u \in Threads \ {t} : a.s.condvar[u] = x.s.condvar[u]
        /\ OrderSame(a.s, s1, {u \in Threads : x.s.condvar[u] = Nobody} \cup {t})
    <3>1. a = SignalImpl(s1, x.tag, t)
      BY Zenon DEF a
    <3>3. s1 = ClearConditionVariable(x.s, t)
      BY Zenon
    <3> HIDE DEF t
    <3>2. x.s.condvar[t] # Nobody
      BY Zenon, <2>2
    <3> HIDE DEF s1
    <3>4. Signalled(a, x.s, s1, p, g, i, e, t)
      BY Zenon, <2>2, <2>3, <3>1, <3>2, <3>3, SignalImplKeeps
    <3> QED
      BY Zenon, <3>4 DEF Signalled
  <2>5. /\ x.s.owner[t] = Nobody /\ InTree(x.s, t) /\ Typed(x.s)
    BY Zenon, <2>2, <2>3 DEF Trees, InTree
  <2>6. Trees(s1) /\ Placed(s1, x.s, t, Nobody, Nobody)
    <3> HIDE DEF t
    <3> QED
      BY Zenon, <2>2, <2>3, <2>5, ClearIs
  <2> HIDE DEF s1, t
  <2>7. \A u \in Threads \ {t} : s1.condvar[u] = x.s.condvar[u] /\ InTree(s1, u)
    BY Zenon, <2>6 DEF Placed, Alike, Trees
  <2>8. s1.condvar[t] = Nobody
    BY Zenon, <2>6 DEF Placed
  <2>9. tree = CondVarTree(x.s, c) \ {t}
    BY Zenon, <1>2, <2>2, <2>7, <2>8 DEF CondVarTree, Signalling, t
  <2>10. CondVarTree(a.s, c) = tree
    BY Zenon, <2>2, <2>4, <2>9 DEF CondVarTree
  <2> HIDE DEF tree
  <2>11. tree \subseteq Linked(s1.order) /\ \A u \in tree : u \in Threads \ {t} /\ x.s.condvar[u] = c
    BY <2>2, <2>7, <2>9 DEF CondVarTree, InTree
  <2>12. ASSUME tree # {}
         PROVE  y.at \in tree /\ \A u \in tree \ {y.at} : InFront(a.s, y.at, u)
    <3>1. y.at = FrontOf(s1, tree)
      BY <2>1, <2>12
    <3>2. s1.prio \in [Threads -> Nat] /\ Linear(s1.order)
      BY Zenon, <2>6 DEF Trees, Typed
    <3>3. y.at \in tree /\ \A u \in tree \ {y.at} : InFront(s1, y.at, u)
      BY <2>11, <2>12, <3>1, <3>2 DEF ThreadFacts, FrontIs
    <3>4. \A u \in tree : u \in Threads \ ({v \in Threads : x.s.condvar[v] = Nobody} \cup {t})
      BY Zenon, <2>2, <2>11
    <3>5. \A u, v \in tree : a.s.prio[u] = s1.prio[u] /\ (<<u, v>> \in a.s.order <=> <<u, v>> \in s1.order)
      BY Zenon, <2>4, <3>4 DEF OrderSame
    <3> QED
      BY Zenon, <3>3, <3>5 DEF InFront
  <2>13. NoNewCv(a.s, s) /\ (Susp(s) => Susp(a.s))
    BY Zenon, <2>4 DEF Signalling, NoNewCv
  <2>14. y.s = a.s /\ y.tag = a.tag /\ (tree = {} => y.at = Nobody)
    BY <2>1
  <2>15. tree # {} => y.at # Nobody
    BY Zenon, <2>11, <2>12, Constants
  <2> QED
    BY Zenon, <2>4, <2>10, <2>12, <2>13, <2>14, <2>15 DEF Signalling
<1> QED
  BY Zenon, <1>1, <1>2

\* The turns of Signal's loop.
SignalTurns(h, first, c, n) ==
    /\ Turns(h, n) /\ h[0] = first
    /\ \A j \in 1 .. n : h[j] = SignalStep(c, h[j - 1])

\* The recursive function is well defined, for any number of turns.
LEMMA SignalTurnsExist ==
  ASSUME ThreadFacts, NEW first, NEW c, NEW n \in Nat
  PROVE  \E h : SignalTurns(h, first, c, n)
<1> DEFINE S == {j \in Nat : \E h : SignalTurns(h, first, c, j)}
<1>1. 0 \in S
  <2>1. SignalTurns([j \in 0 .. 0 |-> first], first, c, 0)
    BY DEF SignalTurns, Turns
  <2> QED
    BY Zenon, <2>1
<1>2. ASSUME NEW j \in 0 .. n - 1, j \in S PROVE j + 1 \in S
  <2>1. PICK h : SignalTurns(h, first, c, j)
    BY Zenon, <1>2
  <2> DEFINE f == [l \in 0 .. j + 1 |-> IF l = j + 1 THEN SignalStep(c, h[j]) ELSE h[l]]
  <2>2. Turns(f, j + 1)
    BY Zenon DEF Turns
  <2>3. f[0] = h[0] /\ \A l \in 1 .. j + 1 : f[l] = IF l = j + 1 THEN SignalStep(c, f[l - 1]) ELSE h[l]
    OBVIOUS
  <2>4. \A l \in 1 .. j : f[l - 1] = h[l - 1]
    OBVIOUS
  <2> HIDE DEF f
  <2>5. SignalTurns(f, first, c, j + 1)
    BY <2>1, <2>2, <2>3, <2>4 DEF SignalTurns
  <2> QED
    BY <2>5
<1> HIDE DEF S
<1>3. n \in S
  BY <1>1, <1>2 DEF ThreadFacts, Climb
<1> QED
  BY Zenon, <1>3 DEF S

\* What the loop of Signal leaves, after however many turns.
LEMMA SignalLoop ==
  ASSUME ThreadFacts, NEW s, NEW p, NEW g, NEW m, NEW i, NEW e, Kern(s, p, g, m, i, e), NEW c \in CondVarKeys,
         NEW n \in Nat, NEW first,
         first = [s |-> s, tag |-> m,
                  at |-> IF CondVarTree(s, c) = {} THEN Nobody ELSE FrontOf(s, CondVarTree(s, c))],
         NEW turn, turn = CHOOSE h : h = [j \in 0 .. n |-> IF j = 0 THEN first ELSE SignalStep(c, h[j - 1])]
  PROVE  Signalling(turn[n], s, c, p, g, i, e)
<1> DEFINE F(h) == [j \in 0 .. n |-> IF j = 0 THEN first ELSE SignalStep(c, h[j - 1])]
           S == {j \in 0 .. n : Signalling(turn[j], s, c, p, g, i, e)}
<1>1. PICK h : SignalTurns(h, first, c, n)
  BY ONLY Zenon, n \in Nat, SignalTurnsExist, ThreadFacts
<1>2. h = F(h)
  <2>1. \A j \in 0 .. n : h[j] = F(h)[j]
    BY <1>1 DEF SignalTurns
  <2> QED
    BY ONLY Zenon, <1>1, <2>1 DEF SignalTurns, Turns
<1>3. turn = F(turn)
  BY Zenon, <1>2
<1>4. turn[0] = first /\ \A j \in 1 .. n : turn[j] = SignalStep(c, turn[j - 1])
  <2>1. \A j \in 0 .. n : turn[j] = F(turn)[j]
    BY ONLY Zenon, <1>3
  <2> QED
    BY ONLY <2>1, n \in Nat
<1>5. first.s = s /\ first.tag = m
      /\ first.at = IF CondVarTree(s, c) = {} THEN Nobody ELSE FrontOf(s, CondVarTree(s, c))
  BY Zenon
<1>6. Signalling(first, s, c, p, g, i, e)
  <2>1. s.prio \in [Threads -> Nat] /\ Linear(s.order) /\ \A u \in Threads : InTree(s, u)
    BY Zenon DEF Kern, Trees, Typed
  <2> DEFINE tree == CondVarTree(s, c)
  <2>2. tree \subseteq Linked(s.order) /\ tree \subseteq Threads
    BY Zenon, <2>1, Constants DEF CondVarTree, InTree
  <2> HIDE DEF tree
  <2>3. tree # {} => /\ FrontOf(s, tree) \in tree
                     /\ \A u \in tree \ {FrontOf(s, tree)} : InFront(s, FrontOf(s, tree), u)
    BY ONLY Zenon, <2>1, <2>2, ThreadFacts DEF ThreadFacts, FrontIs
  <2>4. tree # {} => FrontOf(s, tree) # Nobody
    BY ONLY Zenon, <2>2, <2>3, Constants
  <2>5. NoNewCv(s, s)
    BY Zenon DEF NoNewCv
  <2>6. first.at = IF tree = {} THEN Nobody ELSE FrontOf(s, tree)
    BY Zenon, <1>5 DEF tree
  <2>7. tree = CondVarTree(s, c)
    BY Zenon DEF tree
  <2> QED
    BY ONLY Zenon, Kern(s, p, g, m, i, e), <1>5, <2>3, <2>4, <2>5, <2>6, <2>7 DEF Signalling
<1>7. 0 \in S
  BY ONLY <1>4, <1>6, n \in Nat
<1>8. ASSUME NEW j \in 0 .. n - 1, j \in S PROVE j + 1 \in S
  <2>1. turn[j + 1] = SignalStep(c, turn[j]) /\ j + 1 \in 0 .. n
    BY ONLY <1>4, n \in Nat, j \in 0 .. n - 1
  <2>2. Signalling(turn[j], s, c, p, g, i, e)
    BY ONLY Zenon, <1>8
  <2>3. Signalling(turn[j + 1], s, c, p, g, i, e)
    BY ONLY Zenon, <2>1, <2>2, c \in CondVarKeys, SignalStepKeeps, ThreadFacts
  <2> QED
    BY ONLY Zenon, <2>1, <2>3
<1> HIDE DEF S
<1>9. n \in S
  BY ONLY <1>7, <1>8, n \in Nat, ThreadFacts DEF ThreadFacts, Climb
<1> QED
  BY ONLY Zenon, <1>9 DEF S
=============================================================================
