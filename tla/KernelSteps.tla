---------------------------- MODULE KernelSteps ----------------------------
(***************************************************************************)
(* Every action of KernelSync keeps Kern of KernelLemmas: the condition    *)
(* variables' calls, the light lock's, the resource limit's as far as they *)
(* lock, wait and wake, the timer, and what one thread does to another.    *)
(***************************************************************************)
EXTENDS KernelLemmas

\* The threads and both locks.
KernInv == Kern(k, pc, ltag, tag, in, seen)

\* What a step keeps: the invariant, the suspended threads without kernel waiters,
\* and who may be in the tree of a condition variable.
Kept == KernInv' /\ (Susp(k) => Susp(k')) /\ NoNewCv(k', k)

\* The word of a condition variable with waiters is 1.
CvFlag(s, f) ==
    f \in [CondVarKeys -> {0, 1}] /\ \A t \in Threads : s.condvar[t] # Nobody => f[s.condvar[t]] = 1
-----------------------------------------------------------------------------
(* Running threads.                                                        *)

\* A running thread waits for nothing and has no timer task.
LEMMA Running ==
  ASSUME NEW s, NEW p, NEW g, NEW m, NEW i, NEW e, Kern(s, p, g, m, i, e), NEW t \in Threads,
         s.state[t] = "Runnable"
  PROVE  /\ Spot(s, p, g, m, i, e, t) /\ s.queue[t] = "none" /\ s.owner[t] = Nobody
         /\ s.condvar[t] = Nobody /\ t \notin s.timer
<1>1. Spot(s, p, g, m, i, e, t)
  BY Zenon DEF Kern
<1> QED
  BY Zenon, <1>1 DEF Spot, Place

\* A running thread that is at none of the places where it gets a lock.
LEMMA SpotRunning ==
  ASSUME NEW t \in Threads, NEW r, r.state[t] = "Runnable", r.queue[t] = "none", r.owner[t] = Nobody,
         r.condvar[t] = Nobody, t \notin r.timer,
         NEW q, q[t] \notin {"address", "condvar", "lockwait", "locked"},
         NEW d, d.owner # t, NEW h, NEW j, h.owner = t <=> t \in j, t \in j => q[t] \in InPCs,
         q[t] = "arbunlock" => t \in j,
         NEW f, q[t] \in {"arbitrate", "lockslow"} => f[t] \in Threads \ {t}
  PROVE  Spot(r, q, d, h, j, f, t)
<1>1. Place(r, q, d, h, t) /\ ~HasLock(r, q, t) /\ ~Given(r, q, t)
  BY Zenon DEF Place, HasLock, Given
<1> QED
  BY Zenon, <1>1 DEF Spot

\* Such a thread goes elsewhere in the code; it may take or release the mutex.
LEMMA KernGoes ==
  ASSUME NEW s, NEW p, NEW g, NEW m, NEW i, NEW e, Kern(s, p, g, m, i, e), NEW t \in Threads,
         s.state[t] = "Runnable", g.owner # t,
         NEW q, NEW f, Goes(p, e, t, q, f), q[t] \notin {"address", "condvar", "lockwait", "locked"},
         q[t] \in {"arbitrate", "lockslow"} => f[t] \in Threads \ {t},
         NEW h, h \in Tags, h.wait => h.owner # Nobody, m.wait => h.owner = m.owner /\ h.wait,
         \A u \in Threads \ {t} : h.owner = u <=> m.owner = u,
         NEW j, j \subseteq Threads, \A u \in Threads \ {t} : u \in j <=> u \in i,
         h.owner = t <=> t \in j, t \in j => q[t] \in InPCs, q[t] = "arbunlock" => t \in j
  PROVE  Kern(s, q, g, h, j, f)
<1>1. s.queue[t] = "none" /\ s.owner[t] = Nobody /\ s.condvar[t] = Nobody /\ t \notin s.timer
  BY Zenon, Running
<1>2. Spot(s, q, g, h, j, f, t)
  BY ONLY Zenon, <1>1, t \in Threads, s.state[t] = "Runnable", g.owner # t,
     q[t] \notin {"address", "condvar", "lockwait", "locked"},
     q[t] \in {"arbitrate", "lockslow"} => f[t] \in Threads \ {t}, h.owner = t <=> t \in j,
     t \in j => q[t] \in InPCs, q[t] = "arbunlock" => t \in j, SpotRunning
<1>3. /\ Trees(s) /\ g \in Tags /\ (g.wait => g.owner # Nobody)
      /\ \A u \in Threads \ {t} : Alike(s, s, u)
  BY Zenon DEF Kern, Alike
<1>4. Moves(t, s, p, g, m, i, e, s, q, g, h, j, f)
  BY Zenon, <1>2, <1>3 DEF Moves, Alike
<1> QED
  BY Zenon, <1>2, <1>3, <1>4, KernMove

\* The type of what a step assigns to pc and seen.
LEMMA KernTypes ==
  ASSUME KernInv
  PROVE  /\ Trees(k) /\ Typed(k) /\ ltag \in Tags /\ tag \in Tags /\ pc \in [Threads -> PCs]
         /\ seen \in [Threads -> Threads \cup {Nobody}] /\ in \subseteq Threads
         /\ (ltag.wait => ltag.owner # Nobody) /\ (tag.wait => tag.owner # Nobody)
         /\ \A t \in Threads : Spot(k, pc, ltag, tag, in, seen, t)
BY Zenon DEF KernInv, Kern, Trees

\* A step that does not touch the threads.
LEMMA KeptSame ==
  ASSUME KernInv', k' = k
  PROVE  Kept
BY Zenon DEF Kept, NoNewCv
-----------------------------------------------------------------------------
(* The mutex.                                                              *)

\* mutexLock takes the word, or marks it.
LEMMA MutexLockKeeps ==
  ASSUME KernInv, NEW t \in Threads, MutexLock(t), ltag' = ltag
  PROVE  Kept
<1>1. /\ k.state[t] = "Runnable" /\ k' = k /\ pc[t] \in {"user", "relock", "address"}
      /\ (pc[t] = "user" => t \notin in) /\ (pc[t] = "address" => k.result[t] = "Success")
  BY Zenon DEF MutexLock, Runs
<1>2. /\ ltag \in Tags /\ tag \in Tags /\ pc \in [Threads -> PCs] /\ in \subseteq Threads
      /\ seen \in [Threads -> Threads \cup {Nobody}] /\ (tag.wait => tag.owner # Nobody)
      /\ Spot(k, pc, ltag, tag, in, seen, t)
  BY Zenon, KernTypes
<1>3. ltag.owner # t /\ t \notin in
  BY Zenon, <1>1, <1>2 DEF Spot, HasLock, InPCs
<1>4. Kern(k, pc, ltag, tag, in, seen)
  BY Zenon DEF KernInv
<1>5. CASE tag.owner \in {Nobody, t}
  <2>1. /\ tag' = IF tag.owner = t THEN tag ELSE [owner |-> t, wait |-> FALSE]
        /\ in' = in \cup {t} /\ pc' = [pc EXCEPT ![t] = "user"] /\ seen' = seen
    BY Zenon, <1>5 DEF MutexLock
  <2>2. /\ tag' \in Tags /\ tag'.owner = t /\ (tag.wait => tag' = tag)
    BY Zenon, <1>2, <1>5, <2>1, Constants DEF Tags
  <2>3. Goes(pc, seen, t, pc', seen') /\ pc'[t] = "user"
    BY Zenon, <1>2, <2>1 DEF Goes, PCs
  <2>4. t \in in' /\ in' \subseteq Threads /\ \A u \in Threads \ {t} : u \in in' <=> u \in in
    BY Zenon, <1>2, <2>1
  <2>5. \A u \in Threads \ {t} : tag'.owner = u <=> tag.owner = u
    BY Zenon, <1>5, <2>2, Constants
  <2>6. /\ (tag'.wait => tag'.owner # Nobody) /\ (tag.wait => tag'.owner = tag.owner /\ tag'.wait)
        /\ pc'[t] \in InPCs
    BY Zenon, <2>2, <2>3, Constants DEF InPCs
  <2>7. Kern(k, pc', ltag, tag', in', seen')
    BY ONLY t \in Threads, <1>1, <1>3, <1>4, <2>2, <2>3, <2>4, <2>5, <2>6, KernGoes
  <2> QED
    BY Zenon, <1>1, <2>7, KeptSame DEF KernInv
<1>6. CASE tag.owner \notin {Nobody, t}
  <2>1. /\ tag' = [tag EXCEPT !.wait = TRUE] /\ seen' = [seen EXCEPT ![t] = tag.owner]
        /\ in' = in /\ pc' = [pc EXCEPT ![t] = "arbitrate"]
    BY Zenon, <1>6 DEF MutexLock
  <2>2. tag' \in Tags /\ tag'.owner = tag.owner /\ tag'.wait /\ tag.owner \in Threads \ {t}
    BY Zenon, <1>2, <1>6, <2>1 DEF Tags
  <2>3. Goes(pc, seen, t, pc', seen') /\ pc'[t] = "arbitrate" /\ seen'[t] = tag.owner
    BY Zenon, <1>2, <2>1, <2>2 DEF Goes, PCs
  <2>4. tag'.owner # Nobody /\ tag'.owner # t /\ \A u \in Threads \ {t} : tag'.owner = u <=> tag.owner = u
    BY Zenon, <1>6, <2>2
  <2>5. t \notin in' /\ in' \subseteq Threads /\ \A u \in Threads \ {t} : u \in in' <=> u \in in
    BY Zenon, <1>2, <1>3, <2>1
  <2>6. seen'[t] \in Threads \ {t}
    BY Zenon, <2>2, <2>3
  <2>7. Kern(k, pc', ltag, tag', in', seen')
    BY ONLY t \in Threads, <1>1, <1>3, <1>4, <2>2, <2>3, <2>4, <2>5, <2>6, KernGoes
  <2> QED
    BY <1>1, <2>7, KeptSame DEF KernInv
<1> QED
  BY Zenon, <1>5, <1>6

\* A thread that leaves the section: it runs, and the word is its own.
LEMMA InSection ==
  ASSUME KernInv, NEW t \in in, k.state[t] = "Runnable", pc[t] \in {"user", "arbunlock"}
  PROVE  t \in Threads /\ tag.owner = t /\ ltag.owner # t
<1>1. t \in Threads
  BY Zenon, KernTypes
<1>2. Spot(k, pc, ltag, tag, in, seen, t)
  BY Zenon, <1>1, KernTypes
<1> QED
  BY Zenon, <1>1, <1>2 DEF Spot, HasLock

\* mutexUnlock clears the word, or leaves it to ArbitrateUnlock.
LEMMA MutexUnlockKeeps ==
  ASSUME KernInv, NEW t \in Threads, MutexUnlock(t), ltag' = ltag
  PROVE  Kept
<1>1. /\ k.state[t] = "Runnable" /\ k' = k /\ pc[t] = "user" /\ t \in in /\ seen' = seen
  BY Zenon DEF MutexUnlock, Runs
<1>2. /\ ltag \in Tags /\ tag \in Tags /\ pc \in [Threads -> PCs] /\ in \subseteq Threads
      /\ seen \in [Threads -> Threads \cup {Nobody}] /\ (tag.wait => tag.owner # Nobody)
  BY Zenon, KernTypes
<1>3. tag.owner = t /\ ltag.owner # t
  BY Zenon, <1>1, InSection
<1>4. Kern(k, pc, ltag, tag, in, seen)
  BY Zenon DEF KernInv
<1>5. CASE tag.wait
  <2>1. pc' = [pc EXCEPT ![t] = "arbunlock"] /\ tag' = tag /\ in' = in
    BY Zenon, <1>5 DEF MutexUnlock
  <2>2. Goes(pc, seen, t, pc', seen) /\ pc'[t] = "arbunlock" /\ pc'[t] \in InPCs
    BY Zenon, <1>2, <2>1 DEF Goes, PCs, InPCs
  <2>3. Kern(k, pc', ltag, tag, in, seen)
    BY ONLY Zenon, t \in Threads, <1>1, <1>2, <1>3, <1>4, <2>2, KernGoes
  <2> QED
    BY Zenon, <1>1, <2>1, <2>3, KeptSame DEF KernInv
<1>6. CASE ~tag.wait
  <2>1. pc' = pc /\ tag' = Unlocked /\ in' = in \ {t}
    BY Zenon, <1>6 DEF MutexUnlock
  <2>2. tag' \in Tags /\ tag'.owner = Nobody /\ ~tag'.wait
    BY Zenon, <2>1 DEF Unlocked, Tags
  <2>3. Goes(pc, seen, t, pc, seen)
    BY Zenon, <1>2 DEF Goes
  <2>4. t \notin in' /\ in' \subseteq Threads /\ \A u \in Threads \ {t} : u \in in' <=> u \in in
    BY Zenon, <1>2, <2>1
  <2>5. tag'.owner # t /\ \A u \in Threads \ {t} : tag'.owner = u <=> tag.owner = u
    BY Zenon, <1>3, <2>2, Constants
  <2>6. Kern(k, pc, ltag, tag', in', seen)
    BY ONLY Zenon, t \in Threads, <1>1, <1>3, <1>4, <1>6, <2>2, <2>3, <2>4, <2>5, KernGoes
  <2> QED
    BY Zenon, <1>1, <2>1, <2>6, KeptSame DEF KernInv
<1> QED
  BY Zenon, <1>5, <1>6

\* A thread sets its key, joins the waiters of o and sleeps.
JoinAndSleep(s, t, a, o, q) == BeginWait(AddWaiter([s EXCEPT !.key[t] = a], o, t), t, q, FALSE)

\* What it changes, if the thread may wait for o.
LEMMA JoinSleeps ==
  ASSUME ThreadFacts, NEW s, Trees(s), NEW t \in Threads, s.owner[t] = Nobody, s.condvar[t] = Nobody, t \notin s.timer,
         NEW a \in AddressKeys, NEW o \in Threads, NEW q \in Queues,
         \A c : (\A u \in Threads : c.owner[u] = s.owner[u]) /\ c.condvar[t] = Nobody /\ c.key[t] = a
                  => MayJoin(c, o, t),
         NEW r, r = JoinAndSleep(s, t, a, o, q)
  PROVE  /\ Trees(r) /\ SameSusp(r, s) /\ \A u \in Threads \ {t} : Alike(r, s, u)
         /\ r.state[t] = "Waiting" /\ r.queue[t] = q /\ r.owner[t] = o /\ r.condvar[t] = Nobody
         /\ r.key[t] = a /\ t \notin r.timer
<1> DEFINE c == WithKey(s, t, a)
           b == AddWaiter(c, o, t)
<1>1. Trees(c) /\ Placed(c, s, t, Nobody, s.condvar[t]) /\ c.key[t] = a
  BY ONLY Trees(s), t \in Threads, s.owner[t] = Nobody, a \in AddressKeys, KeyIs
<1>3. r = BeginWait(b, t, q, FALSE)
  BY Zenon DEF JoinAndSleep, WithKey
<1> HIDE DEF c
<1>7. MayJoin(c, o, t)
  <2>1. (\A u \in Threads : c.owner[u] = s.owner[u]) /\ c.condvar[t] = Nobody /\ c.key[t] = a
    BY Zenon, <1>1 DEF Placed, Alike
  <2> QED
    BY Zenon, <2>1
<1>2. Joined(b, c, o, t) /\ Trees(b)
  BY ONLY Zenon, <1>1, <1>7, o \in Threads, t \in Threads, ThreadFacts DEF ThreadFacts, AddWaiterIs
<1> HIDE DEF b
<1>4. Placed(b, c, t, o, c.condvar[t]) /\ b.key = c.key
  BY ONLY Zenon, <1>1, <1>2, t \in Threads, JoinedPlaced DEF Trees
<1>5. Trees(r) /\ Asleep(r, b, t, q, FALSE)
  BY ONLY Zenon, <1>2, <1>3, t \in Threads, q \in Queues, BeginWaitIs
<1>6. Placed(b, s, t, o, Nobody) /\ b.key[t] = a
  BY ONLY <1>1, <1>4, s.condvar[t] = Nobody DEF Placed, Alike, SameSusp
<1> QED
  BY ONLY <1>5, <1>6, t \notin s.timer DEF Asleep, Placed, Alike, SameSusp

\* ArbitrateLock gives up, or waits for the owner that the thread has seen.
LEMMA WaitForAddressKeeps ==
  ASSUME ThreadFacts, KernInv, NEW t \in Threads, WaitForAddress(t), ltag' = ltag
  PROVE  Kept
<1>1. /\ k.state[t] = "Runnable" /\ pc[t] = "arbitrate" /\ tag' = tag /\ in' = in
      /\ seen' = [seen EXCEPT ![t] = Nobody]
  BY Zenon DEF WaitForAddress, Runs, cvars
<1>2. /\ ltag \in Tags /\ tag \in Tags /\ pc \in [Threads -> PCs] /\ in \subseteq Threads
      /\ seen \in [Threads -> Threads \cup {Nobody}] /\ (tag.wait => tag.owner # Nobody)
      /\ (ltag.wait => ltag.owner # Nobody) /\ Trees(k)
  BY Zenon, KernTypes
<1>3. Kern(k, pc, ltag, tag, in, seen)
  BY Zenon DEF KernInv
<1>4. /\ Spot(k, pc, ltag, tag, in, seen, t) /\ k.queue[t] = "none" /\ k.owner[t] = Nobody
      /\ k.condvar[t] = Nobody /\ t \notin k.timer
  BY Zenon, <1>1, <1>3, Running
<1>5. ltag.owner # t /\ t \notin in /\ tag.owner # t /\ seen[t] \in Threads \ {t}
  BY Zenon, <1>1, <1>4 DEF Spot, HasLock, InPCs, Given
<1>6. CASE k.term[t] \/ tag # [owner |-> seen[t], wait |-> TRUE]
  <2>1. k' = k /\ pc' = [pc EXCEPT ![t] = IF k.term[t] THEN "doomed" ELSE "relock"]
    BY Zenon, <1>6 DEF WaitForAddress
  <2>2. Goes(pc, seen, t, pc', seen') /\ pc'[t] \in {"doomed", "relock"}
    BY Zenon, <1>1, <1>2, <2>1 DEF Goes, PCs
  <2>3. Kern(k, pc', ltag, tag, in, seen')
    BY ONLY Zenon, t \in Threads, <1>1, <1>2, <1>3, <1>5, <2>2, KernGoes
  <2> QED
    BY Zenon, <1>1, <2>1, <2>3, KeptSame DEF KernInv
<1>7. CASE ~k.term[t] /\ tag = [owner |-> seen[t], wait |-> TRUE]
  <2> DEFINE o == seen[t]
  <2>1. k' = JoinAndSleep(k, t, Mutex, o, "address") /\ pc' = [pc EXCEPT ![t] = "address"]
    BY Zenon, <1>7 DEF WaitForAddress, JoinAndSleep
  <2>2. o \in Threads /\ o # t /\ tag.owner = o /\ tag.wait
    BY Zenon, <1>5, <1>7
  <2> HIDE DEF o
  <2>6. ASSUME NEW c, \A u \in Threads : c.owner[u] = k.owner[u], c.condvar[t] = Nobody, c.key[t] = Mutex
        PROVE  MayJoin(c, o, t)
    <3>1. pc[t] \notin {"locked", "lockwait"}
      BY Zenon, <1>1
    <3> QED
      BY ONLY Zenon, t \in Threads, <1>3, <1>4, <2>2, <2>6, <3>1, MutexMayJoin
  <2>7. /\ Trees(k') /\ SameSusp(k', k) /\ \A u \in Threads \ {t} : Alike(k', k, u)
        /\ k'.state[t] = "Waiting" /\ k'.queue[t] = "address" /\ k'.owner[t] = o /\ k'.condvar[t] = Nobody
        /\ k'.key[t] = Mutex /\ t \notin k'.timer
    <3>1. "address" \in Queues
      BY Zenon DEF Queues
    <3> QED
      BY ONLY t \in Threads, <1>2, <1>4, <2>1, <2>2, <2>6, <3>1, Constants, JoinSleeps, ThreadFacts
  <2>8. Goes(pc, seen, t, pc', seen') /\ pc'[t] = "address"
    BY Zenon, <1>1, <1>2, <2>1 DEF Goes, PCs
  <2>9. Spot(k', pc', ltag, tag, in, seen', t)
    <3>1. Place(k', pc', ltag, tag, t) /\ ~HasLock(k', pc', t) /\ ~Given(k', pc', t)
      BY Zenon, <2>2, <2>7, <2>8, Constants DEF Place, HasLock, Given
    <3> QED
      BY Zenon, <1>5, <2>7, <2>8, <3>1 DEF Spot
  <2>10. Kern(k', pc', ltag, tag, in, seen')
    <3>1. Moves(t, k, pc, ltag, tag, in, seen, k', pc', ltag, tag, in, seen')
      BY ONLY Zenon, t \in Threads, <1>2, <1>3, <2>7, <2>8, <2>9 DEF Moves
    <3> QED
      BY ONLY Zenon, t \in Threads, <1>2, <1>3, <2>7, <2>8, <2>9, <3>1, KernMove
  <2>11. Susp(k) => Susp(k')
    <3>1. ASSUME NEW u \in Threads
          PROVE  k'.key[u] \notin KernelKeys \/ (k'.owner[u] = k.owner[u] /\ k'.key[u] = k.key[u])
      BY Zenon, <2>7, Constants DEF Alike
    <3> QED
      BY <2>7, <3>1, SuspKept DEF Susp
  <2>12. NoNewCv(k', k)
    BY Zenon, <2>7 DEF NoNewCv, Alike
  <2> QED
    BY Zenon, <1>1, <2>10, <2>11, <2>12 DEF Kept, KernInv
<1> QED
  BY Zenon, <1>6, <1>7

\* ArbitrateUnlock hands the mutex on.
LEMMA SignalToAddressKeeps ==
  ASSUME ThreadFacts, KernInv, NEW t \in Threads, SignalToAddress(t), ltag' = ltag
  PROVE  Kept
<1> DEFINE x == HandOver(k, t)
<1>1. /\ k.state[t] = "Runnable" /\ pc[t] = "arbunlock" /\ k' = x.s /\ tag' = x.tag /\ in' = in \ {t}
      /\ pc' = [pc EXCEPT ![t] = "user"] /\ seen' = seen
  BY Zenon DEF SignalToAddress, Runs
<1>2. pc \in [Threads -> PCs] /\ seen \in [Threads -> Threads \cup {Nobody}] /\ Spot(k, pc, ltag, tag, in, seen, t)
  BY Zenon, KernTypes
<1>3. t \in in
  BY Zenon, <1>1, <1>2 DEF Spot
<1>4. Goes(pc, seen, t, pc', seen) /\ pc'[t] = "user"
  BY Zenon, <1>1, <1>2 DEF Goes, PCs
<1>5. Kern(k, pc, ltag, tag, in, seen) /\ x = HandOver(k, t)
  BY Zenon DEF KernInv
<1> HIDE DEF x
<1>6. Kern(x.s, pc', ltag, x.tag, in \ {t}, seen) /\ (Susp(k) => Susp(x.s)) /\ NoNewCv(x.s, k)
  <2>1. Leaving(t, k, pc, ltag, tag, in, seen, pc')
    BY ONLY Zenon, <1>1, <1>3, <1>4, <1>5 DEF Leaving
  <2> QED
    BY ONLY Zenon, t \in Threads, <1>5, <2>1, HandOverKeeps, ThreadFacts
<1> QED
  BY Zenon, <1>1, <1>6 DEF Kept, KernInv

\* WaitProcessWideKeyAtomic hands the mutex on and sleeps in the tree, or returns.
LEMMA WaitKeeps ==
  ASSUME ThreadFacts, KernInv, NEW t \in Threads, NEW c \in CondVarKeys, NEW w, Wait(t, c, w), ltag' = ltag
  PROVE  KernInv' /\ (Susp(k) => Susp(k')) /\ (CvFlag(k, flag) => CvFlag(k', flag'))
<1>1. k.state[t] = "Runnable" /\ pc[t] = "user" /\ t \in in /\ seen' = seen
  BY Zenon DEF Wait, Runs
<1>2. /\ ltag \in Tags /\ tag \in Tags /\ pc \in [Threads -> PCs] /\ in \subseteq Threads
      /\ seen \in [Threads -> Threads \cup {Nobody}] /\ (tag.wait => tag.owner # Nobody)
  BY Zenon, KernTypes
<1>3. tag.owner = t /\ ltag.owner # t /\ Kern(k, pc, ltag, tag, in, seen)
  BY Zenon, <1>1, InSection DEF KernInv
<1>4. CASE k.term[t]
  <2>1. pc' = [pc EXCEPT ![t] = "doomed"] /\ k' = k /\ tag' = tag /\ in' = in /\ flag' = flag
    BY Zenon, <1>4 DEF Wait, cvars
  <2>2. Goes(pc, seen, t, pc', seen) /\ pc'[t] = "doomed" /\ pc'[t] \in InPCs
    BY Zenon, <1>2, <2>1 DEF Goes, PCs, InPCs
  <2>3. Kern(k, pc', ltag, tag, in, seen)
    BY ONLY Zenon, t \in Threads, <1>1, <1>2, <1>3, <2>2, KernGoes
  <2> QED
    BY Zenon, <1>1, <2>1, <2>3 DEF KernInv
<1>5. CASE ~k.term[t]
  <2> DEFINE x == HandOver(k, t)
             q == [pc EXCEPT ![t] = "relock"]
             j == in \ {t}
  <2>1. tag' = x.tag /\ in' = j /\ flag' = [flag EXCEPT ![c] = 1]
    BY Zenon, <1>5 DEF Wait
  <2>2. Goes(pc, seen, t, q, seen) /\ q[t] = "relock"
    BY Zenon, <1>2 DEF Goes, PCs
  <2>3. x = HandOver(k, t) /\ j = in \ {t}
    BY Zenon
  <2>6. ASSUME \A u \in Threads : k'.condvar[u] \in {k.condvar[u], Nobody, c}
        PROVE  CvFlag(k, flag) => CvFlag(k', flag')
    BY Zenon, <2>1, <2>6, KernTypes DEF CvFlag, Typed
  <2>7. /\ Kern(x.s, q, ltag, x.tag, j, seen) /\ (Susp(k) => Susp(x.s)) /\ NoNewCv(x.s, k)
        /\ x.s.state[t] = "Runnable"
    <3> HIDE DEF x, q, j
    <3>1. Leaving(t, k, pc, ltag, tag, in, seen, q)
      BY ONLY Zenon, <1>1, <1>3, <2>2 DEF Leaving
    <3>2. /\ Kern(x.s, q, ltag, x.tag, in \ {t}, seen) /\ (Susp(k) => Susp(x.s)) /\ NoNewCv(x.s, k)
          /\ x.s.state[t] = "Runnable"
      BY ONLY Zenon, t \in Threads, <2>3, <3>1, HandOverKeeps, ThreadFacts
    <3> QED
      BY ONLY Zenon, <2>3, <3>2
  <2>4. CASE w = "zero"
    <3>1. k' = x.s /\ pc' = q
      BY Zenon, <1>5, <2>4 DEF Wait
    <3> HIDE DEF x, q, j
    <3>2. Kern(x.s, q, ltag, x.tag, j, seen) /\ (Susp(k) => Susp(x.s)) /\ NoNewCv(x.s, k)
      BY ONLY Zenon, <2>7
    <3>3. CvFlag(k, flag) => CvFlag(k', flag')
      BY Zenon, <2>1, <2>6, <3>1, <3>2 DEF NoNewCv
    <3> QED
      BY Zenon, <1>1, <2>1, <3>1, <3>2, <3>3 DEF KernInv
  <2>5. CASE w # "zero"
    <3> DEFINE a == Enqueued(x.s, t, c, Mutex)
               timed == (w = "timed")
    <3>1. k' = BeginWait(a, t, "condvar", timed) /\ pc' = [pc EXCEPT ![t] = "condvar"]
      BY Zenon, <1>5, <2>5 DEF Wait, Enqueued
    <3> HIDE DEF x, q, j
    <3>2. /\ Kern(x.s, q, ltag, x.tag, j, seen) /\ (Susp(k) => Susp(x.s)) /\ NoNewCv(x.s, k)
          /\ x.s.state[t] = "Runnable"
      BY ONLY Zenon, <2>7
    <3>3. /\ Spot(x.s, q, ltag, x.tag, j, seen, t) /\ x.s.queue[t] = "none" /\ x.s.owner[t] = Nobody
          /\ x.s.condvar[t] = Nobody /\ t \notin x.s.timer
      BY ONLY Zenon, t \in Threads, <3>2, Running
    <3>4. /\ ltag \in Tags /\ x.tag \in Tags /\ j \subseteq Threads /\ Trees(x.s)
          /\ (ltag.wait => ltag.owner # Nobody) /\ (x.tag.wait => x.tag.owner # Nobody)
      BY ONLY Zenon, <3>2 DEF Kern
    <3>5. Trees(a) /\ Placed(a, x.s, t, Nobody, c) /\ a.key[t] = Mutex
      BY ONLY t \in Threads, c \in CondVarKeys, <3>3, <3>4, Constants, EnqueueIs, ThreadFacts
    <3> HIDE DEF a
    <3>6. Trees(k') /\ Asleep(k', a, t, "condvar", timed)
      <4>1. "condvar" \in Queues /\ timed \in BOOLEAN
        BY Zenon DEF Queues
      <4> HIDE DEF timed
      <4> QED
        BY ONLY Zenon, t \in Threads, <3>1, <3>5, <4>1, BeginWaitIs
    <3>7. Goes(q, seen, t, pc', seen) /\ pc'[t] = "condvar"
      BY Zenon, <1>2, <3>1 DEF Goes, PCs, q
    <3>8. \A u \in Threads \ {t} : Alike(k', x.s, u)
      BY <3>5, <3>6 DEF Placed, Asleep, Alike
    <3>9. /\ SameSusp(k', x.s) /\ k'.state[t] = "Waiting" /\ k'.queue[t] = "condvar" /\ k'.key[t] = Mutex
          /\ k'.owner[t] = Nobody /\ k'.condvar[t] = c
      BY Zenon, <3>5, <3>6 DEF Placed, Asleep, SameSusp
    <3>10. Spot(k', pc', ltag, x.tag, j, seen, t)
      <4>1. x.tag.owner # t /\ t \notin j /\ ltag.owner # t
        BY Zenon, <2>2, <3>3 DEF Spot, InPCs, Given, HasLock
      <4>2. Place(k', pc', ltag, x.tag, t) /\ ~HasLock(k', pc', t) /\ ~Given(k', pc', t)
        BY Zenon, <3>7, <3>9, <4>1 DEF Place, HasLock, Given
      <4> QED
        BY Zenon, <3>7, <3>9, <4>1, <4>2 DEF Spot
    <3>11. Kern(k', pc', ltag, x.tag, j, seen)
      <4>1. Moves(t, x.s, q, ltag, x.tag, j, seen, k', pc', ltag, x.tag, j, seen)
        BY ONLY Zenon, t \in Threads, <3>2, <3>4, <3>6, <3>7, <3>8, <3>10 DEF Moves
      <4> QED
        BY ONLY Zenon, t \in Threads, <3>2, <3>4, <3>6, <3>7, <3>8, <3>10, <4>1, KernMove
    <3>12. Susp(x.s) => Susp(k')
      <4>1. ASSUME NEW u \in Threads
            PROVE  k'.owner[u] = Nobody \/ (k'.owner[u] = x.s.owner[u] /\ k'.key[u] = x.s.key[u])
        BY Zenon, <3>8, <3>9 DEF Alike
      <4> QED
        BY <3>9, <4>1, SuspKept DEF Susp
    <3>13. CvFlag(k, flag) => CvFlag(k', flag')
      BY Zenon, <2>6, <3>2, <3>8, <3>9 DEF NoNewCv, Alike
    <3> QED
      BY Zenon, <1>1, <2>1, <3>2, <3>11, <3>12, <3>13 DEF KernInv
  <2> QED
    BY Zenon, <2>4, <2>5
<1> QED
  BY Zenon, <1>4, <1>5

\* The wait of a condition variable, or a terminated one for the mutex, returns.
LEMMA WaitReturnsKeeps ==
  ASSUME KernInv, NEW t \in Threads, WaitReturns(t), ltag' = ltag
  PROVE  Kept
<1>1. /\ k.state[t] = "Runnable" /\ seen' = seen /\ tag' = tag
      /\ pc[t] = "condvar" \/ (pc[t] = "address" /\ k.result[t] = "TerminationRequested")
      /\ in' = IF pc[t] = "condvar" /\ k.result[t] = "Success" THEN in \cup {t} ELSE in
      /\ pc' = [pc EXCEPT ![t] = CASE k.result[t] = "Success"  -> "user"
                                   [] k.result[t] = "TimedOut" -> "relock"
                                   [] OTHER                    -> "doomed"]
      /\ k' = [k EXCEPT !.result[t] = "Success"]
  BY Zenon DEF WaitReturns, Runs
<1>2. /\ ltag \in Tags /\ tag \in Tags /\ pc \in [Threads -> PCs] /\ in \subseteq Threads
      /\ seen \in [Threads -> Threads \cup {Nobody}] /\ (tag.wait => tag.owner # Nobody)
      /\ (ltag.wait => ltag.owner # Nobody) /\ Trees(k) /\ Typed(k)
  BY Zenon, KernTypes
<1>3. Kern(k, pc, ltag, tag, in, seen)
  BY Zenon DEF KernInv
<1>4. /\ Spot(k, pc, ltag, tag, in, seen, t) /\ k.queue[t] = "none" /\ k.owner[t] = Nobody
      /\ k.condvar[t] = Nobody /\ t \notin k.timer
  BY Zenon, <1>1, <1>3, Running
<1>5. ltag.owner # t /\ t \notin in /\ (tag.owner = t <=> k.result[t] = "Success")
  BY Zenon, <1>1, <1>4 DEF Spot, HasLock, InPCs, Given
<1>6. Same(k', k, {"result"}) /\ k'.result = [k.result EXCEPT ![t] = "Success"]
  BY Zenon, <1>1, <1>2 DEF Typed, Same, Rec, Fields
<1>7. Typed(k')
  BY <1>2, <1>6 DEF Typed, Same, Fields, Results
<1>8. Trees(k')
  BY ONLY <1>2, <1>6, <1>7, TreesSame DEF Same, Fields
<1>9. /\ \A u \in Threads \ {t} : Alike(k', k, u)
      /\ k'.state[t] = "Runnable" /\ k'.queue[t] = "none" /\ k'.owner[t] = Nobody
      /\ k'.condvar[t] = Nobody /\ t \notin k'.timer
  BY <1>1, <1>2, <1>4, <1>6 DEF Same, Fields, Alike, Typed
<1>10. /\ Goes(pc, seen, t, pc', seen) /\ pc'[t] \in {"user", "relock", "doomed"}
       /\ (k.result[t] = "Success" => pc'[t] = "user")
  BY Zenon, <1>1, <1>2 DEF Goes, PCs
<1>11. /\ in' \subseteq Threads /\ (\A u \in Threads \ {t} : u \in in' <=> u \in in)
       /\ (tag.owner = t <=> t \in in') /\ (t \in in' => pc'[t] \in InPCs)
  BY Zenon, <1>1, <1>2, <1>5, <1>10 DEF InPCs
<1>12. Spot(k', pc', ltag, tag, in', seen, t)
  BY ONLY Zenon, t \in Threads, <1>5, <1>9, <1>10, <1>11, SpotRunning
<1>13. Kern(k', pc', ltag, tag, in', seen)
  <2>1. Moves(t, k, pc, ltag, tag, in, seen, k', pc', ltag, tag, in', seen)
    BY ONLY Zenon, t \in Threads, <1>2, <1>3, <1>8, <1>9, <1>10, <1>11, <1>12 DEF Moves
  <2> QED
    BY ONLY Zenon, t \in Threads, <1>2, <1>3, <1>8, <1>9, <1>10, <1>11, <1>12, <2>1, KernMove
<1>14. Susp(k) => Susp(k')
  BY Zenon, <1>6, SuspKept DEF Same, Fields, SameSusp, Susp
<1>15. NoNewCv(k', k)
  BY Zenon, <1>6 DEF Same, Fields, NoNewCv
<1> QED
  BY Zenon, <1>1, <1>13, <1>14, <1>15 DEF Kept, KernInv

\* SignalProcessWideKey, with its loop: the word of the condition variable is
\* cleared only when the tree is empty.
LEMMA SignalKeeps ==
  ASSUME ThreadFacts, KernInv, NEW t \in Threads, NEW c \in CondVarKeys, NEW n \in {1, -1}, Signal(t, c, n), ltag' = ltag
  PROVE  Kept /\ (CvFlag(k, flag) => CvFlag(k', flag'))
<1> DEFINE tree  == CondVarTree(k, c)
           first == [s |-> k, tag |-> tag, at |-> IF tree = {} THEN Nobody ELSE FrontOf(k, tree)]
           turns == IF n > 0 THEN n ELSE Cardinality(Threads)
           turn  == CHOOSE h : h = [j \in 0 .. turns |-> IF j = 0 THEN first ELSE SignalStep(c, h[j - 1])]
<1>1. /\ k' = turn[turns].s /\ tag' = turn[turns].tag
      /\ flag' = [flag EXCEPT ![c] = FlagAfter(c, turn[turns])]
      /\ pc' = pc /\ seen' = seen /\ in' = in
  BY Zenon DEF Signal
<1>2. turns \in Nat
  BY DEF ThreadFacts, CountsTell
<1>3. Kern(k, pc, ltag, tag, in, seen)
  BY Zenon DEF KernInv
<1> HIDE DEF turns
<1>4. Signalling(turn[turns], k, c, pc, ltag, in, seen)
  <2>1. first = [s |-> k, tag |-> tag, at |-> IF CondVarTree(k, c) = {} THEN Nobody ELSE FrontOf(k, CondVarTree(k, c))]
    BY Zenon
  <2> HIDE DEF first, tree
  <2>2. turn = CHOOSE h : h = [j \in 0 .. turns |-> IF j = 0 THEN first ELSE SignalStep(c, h[j - 1])]
    BY Zenon
  <2> HIDE DEF turn
  <2> QED
    BY ONLY <1>2, <1>3, <2>1, <2>2, c \in CondVarKeys, SignalLoop, ThreadFacts
<1> HIDE DEF turn
<1>5. Kept
  BY Zenon, <1>1, <1>4 DEF Signalling, Kept, KernInv
<1>6. NoNewCv(k', k) /\ \A u \in Threads : k.condvar[u] \in CondVarKeys \cup {Nobody}
  BY Zenon, <1>5, KernTypes DEF Kept, Typed
<1>7. CASE turn[turns].at = Nobody
  <2>1. CondVarTree(k', c) = {} /\ flag' = [flag EXCEPT ![c] = 0]
    BY Zenon, <1>1, <1>4, <1>7 DEF Signalling, FlagAfter
  <2> QED
    BY Zenon, <1>5, <1>6, <2>1 DEF CvFlag, NoNewCv, CondVarTree
<1>8. CASE turn[turns].at # Nobody
  <2>1. flag' = [flag EXCEPT ![c] = flag[c]]
    BY Zenon, <1>1, <1>8 DEF FlagAfter
  <2>2. flag \in [CondVarKeys -> {0, 1}] => flag' = flag
    BY Zenon, <2>1
  <2> QED
    BY Zenon, <1>5, <1>6, <2>2 DEF CvFlag, NoNewCv
<1> QED
  BY Zenon, <1>7, <1>8
-----------------------------------------------------------------------------
(* The light lock and the resource limit.                                  *)

\* A supervisor call comes to KScopedLightLock.
LEMMA CallKeeps ==
  ASSUME KernInv, NEW t \in Threads, NEW o, Call(t, o), Runs(t), tag' = tag, in' = in,
         pc[t] \in {"user", "arbitrate", "relock", "arbunlock", "doomed"}
  PROVE  Kept
<1>1. k.state[t] = "Runnable" /\ k' = k /\ ltag' = ltag /\ seen' = seen /\ pc' = [pc EXCEPT ![t] = "lock"]
  BY Zenon DEF Call, Runs
<1>2. /\ ltag \in Tags /\ tag \in Tags /\ pc \in [Threads -> PCs] /\ in \subseteq Threads
      /\ seen \in [Threads -> Threads \cup {Nobody}] /\ (tag.wait => tag.owner # Nobody)
      /\ Spot(k, pc, ltag, tag, in, seen, t)
  BY Zenon, KernTypes
<1>3. ltag.owner # t /\ (tag.owner = t <=> t \in in)
  <2>1. ~HasLock(k, pc, t) /\ ~Given(k, pc, t)
    BY Zenon DEF HasLock, Given
  <2> QED
    BY Zenon, <1>2, <2>1 DEF Spot
<1>4. Goes(pc, seen, t, pc', seen) /\ pc'[t] = "lock" /\ pc'[t] \in InPCs
  BY Zenon, <1>1, <1>2 DEF Goes, PCs, InPCs
<1>5. Kern(k, pc, ltag, tag, in, seen)
  BY Zenon DEF KernInv
<1>6. Kern(k, pc', ltag, tag, in, seen)
  <2>1. tag \in Tags /\ in \subseteq Threads /\ (tag.wait => tag.owner # Nobody) /\ k.state[t] = "Runnable"
    BY Zenon, <1>1, <1>2
  <2> QED
    BY ONLY Zenon, t \in Threads, <1>3, <1>4, <1>5, <2>1, KernGoes
<1> QED
  BY Zenon, <1>1, <1>6, KeptSame DEF KernInv

\* The compare-exchange of Lock takes the free lock, or sets the low bit.
LEMMA LockCasKeeps ==
  ASSUME KernInv, NEW t \in Threads, LockCas(t), tag' = tag, in' = in
  PROVE  Kept
<1>1. k.state[t] = "Runnable" /\ k' = k /\ pc[t] \in {"lock", "lightcv"}
  BY Zenon DEF LockCas, Runs
<1>2. /\ ltag \in Tags /\ tag \in Tags /\ pc \in [Threads -> PCs] /\ in \subseteq Threads
      /\ seen \in [Threads -> Threads \cup {Nobody}] /\ (tag.wait => tag.owner # Nobody)
      /\ (ltag.wait => ltag.owner # Nobody) /\ Trees(k) /\ \A u \in Threads \ {t} : Alike(k, k, u)
  BY Zenon, KernTypes DEF Alike
<1>3. Kern(k, pc, ltag, tag, in, seen)
  BY Zenon DEF KernInv
<1>4. /\ Spot(k, pc, ltag, tag, in, seen, t) /\ k.queue[t] = "none" /\ k.owner[t] = Nobody
      /\ k.condvar[t] = Nobody /\ t \notin k.timer
  BY Zenon, <1>1, <1>3, Running
<1>5. ltag.owner # t /\ (tag.owner = t <=> t \in in)
  BY Zenon, <1>1, <1>4 DEF Spot, HasLock, Given
<1>6. CASE ltag = Free
  <2>1. ltag' = [owner |-> t, wait |-> FALSE] /\ pc' = [pc EXCEPT ![t] = "locked"] /\ seen' = seen
    BY Zenon, <1>6 DEF LockCas
  <2>2. ltag' \in Tags /\ ltag'.owner = t /\ ~ltag'.wait /\ ltag.owner = Nobody /\ ~ltag.wait
    BY Zenon, <1>6, <2>1 DEF Tags, Free
  <2>3. Goes(pc, seen, t, pc', seen') /\ pc'[t] = "locked"
    BY Zenon, <1>2, <2>1 DEF Goes, PCs
  <2>4. \A u \in Threads \ {t} : ltag'.owner = u <=> ltag.owner = u
    BY Zenon, <2>2, Constants
  <2>5. Spot(k, pc', ltag', tag, in, seen', t)
    <3>1. Place(k, pc', ltag', tag, t) /\ HasLock(k, pc', t) /\ ~Given(k, pc', t)
      BY Zenon, <1>1, <1>4, <2>3 DEF Place, HasLock, Given
    <3> QED
      BY Zenon, <1>1, <1>4, <1>5, <2>2, <2>3, <3>1 DEF Spot, InPCs
  <2>6. Kern(k, pc', ltag', tag, in, seen')
    <3>1. Moves(t, k, pc, ltag, tag, in, seen, k, pc', ltag', tag, in, seen')
      BY ONLY Zenon, t \in Threads, <1>2, <1>3, <2>2, <2>3, <2>4, <2>5 DEF Moves, Alike
    <3> QED
      BY ONLY Zenon, t \in Threads, <1>2, <1>3, <2>2, <2>3, <2>4, <2>5, <3>1, KernMove
  <2> QED
    BY Zenon, <1>1, <2>6, KeptSame DEF KernInv
<1>7. CASE ltag # Free
  <2>1. /\ ltag' = [ltag EXCEPT !.wait = TRUE] /\ pc' = [pc EXCEPT ![t] = "lockslow"]
        /\ seen' = [seen EXCEPT ![t] = ltag.owner]
    BY Zenon, <1>7 DEF LockCas
  <2>2. ltag.owner \in Threads \ {t}
    BY Zenon, <1>2, <1>5, <1>7 DEF Tags, Free
  <2>3. ltag' \in Tags /\ ltag'.owner = ltag.owner /\ ltag'.wait
    BY Zenon, <1>2, <2>1 DEF Tags
  <2>4. Goes(pc, seen, t, pc', seen') /\ pc'[t] = "lockslow" /\ seen'[t] = ltag.owner
    BY Zenon, <1>2, <2>1, <2>2 DEF Goes, PCs
  <2>5. ltag'.owner # t /\ ltag'.owner # Nobody /\ \A u \in Threads \ {t} : ltag'.owner = u <=> ltag.owner = u
    BY Zenon, <2>2, <2>3, Constants
  <2>6. Spot(k, pc', ltag', tag, in, seen', t)
    <3>1. pc'[t] \in InPCs /\ seen'[t] \in Threads \ {t}
      BY Zenon, <2>2, <2>4 DEF InPCs
    <3> QED
      BY ONLY Zenon, t \in Threads, <1>1, <1>4, <1>5, <2>4, <2>5, <3>1, SpotRunning
  <2>7. Kern(k, pc', ltag', tag, in, seen')
    <3>1. Moves(t, k, pc, ltag, tag, in, seen, k, pc', ltag', tag, in, seen')
      BY ONLY Zenon, t \in Threads, <1>2, <1>3, <2>3, <2>4, <2>5, <2>6 DEF Moves, Alike
    <3> QED
      BY ONLY Zenon, t \in Threads, <1>2, <1>3, <2>3, <2>4, <2>5, <2>6, <3>1, KernMove
  <2> QED
    BY Zenon, <1>1, <2>7, KeptSame DEF KernInv
<1> QED
  BY Zenon, <1>6, <1>7

\* LockSlowPath goes back to the exchange, or waits for the owner it has seen and
\* keeps that owner running.
LEMMA LockSlowPathKeeps ==
  ASSUME ThreadFacts, KernInv, NEW t \in Threads, LockSlowPath(t), tag' = tag, in' = in
  PROVE  Kept
<1>1. /\ k.state[t] = "Runnable" /\ pc[t] = "lockslow" /\ ltag' = ltag /\ seen' = [seen EXCEPT ![t] = Nobody]
  BY Zenon DEF LockSlowPath, Runs
<1>2. /\ ltag \in Tags /\ tag \in Tags /\ pc \in [Threads -> PCs] /\ in \subseteq Threads
      /\ seen \in [Threads -> Threads \cup {Nobody}] /\ (tag.wait => tag.owner # Nobody)
      /\ (ltag.wait => ltag.owner # Nobody) /\ Trees(k)
  BY Zenon, KernTypes
<1>3. Kern(k, pc, ltag, tag, in, seen)
  BY Zenon DEF KernInv
<1>4. /\ Spot(k, pc, ltag, tag, in, seen, t) /\ k.queue[t] = "none" /\ k.owner[t] = Nobody
      /\ k.condvar[t] = Nobody /\ t \notin k.timer
  BY Zenon, <1>1, <1>3, Running
<1>5. ltag.owner # t /\ (tag.owner = t <=> t \in in) /\ seen[t] \in Threads \ {t}
  BY Zenon, <1>1, <1>4 DEF Spot, HasLock, Given
<1>6. CASE ltag # [owner |-> seen[t], wait |-> TRUE]
  <2>1. k' = k /\ pc' = [pc EXCEPT ![t] = "lock"]
    BY Zenon, <1>6 DEF LockSlowPath
  <2>2. Goes(pc, seen, t, pc', seen') /\ pc'[t] = "lock" /\ pc'[t] \in InPCs
    BY Zenon, <1>1, <1>2, <2>1 DEF Goes, PCs, InPCs
  <2>3. Kern(k, pc', ltag, tag, in, seen')
    BY ONLY Zenon, t \in Threads, <1>1, <1>2, <1>3, <1>5, <2>2, KernGoes
  <2> QED
    BY Zenon, <1>1, <2>1, <2>3, KeptSame DEF KernInv
<1>7. CASE ltag = [owner |-> seen[t], wait |-> TRUE]
  <2> DEFINE o == seen[t]
             r == JoinAndSleep(k, t, LightLock, o, "lightlock")
  <2>1. k' = ContinueIfHasKernelWaiters(r, o) /\ pc' = [pc EXCEPT ![t] = "lockwait"]
    BY Zenon, <1>7 DEF LockSlowPath, JoinAndSleep
  <2>2. o \in Threads /\ o # t /\ ltag.owner = o /\ ltag.wait
    BY Zenon, <1>5, <1>7
  <2>3. r = JoinAndSleep(k, t, LightLock, o, "lightlock")
    BY Zenon
  <2> HIDE DEF o, r
  <2>4. ASSUME NEW c, \A u \in Threads : c.owner[u] = k.owner[u], c.condvar[t] = Nobody, c.key[t] = LightLock
        PROVE  MayJoin(c, o, t)
    BY ONLY Zenon, t \in Threads, <1>3, <1>4, <2>2, <2>4, LockMayJoin
  <2>5. /\ Trees(r) /\ SameSusp(r, k) /\ \A u \in Threads \ {t} : Alike(r, k, u)
        /\ r.state[t] = "Waiting" /\ r.queue[t] = "lightlock" /\ r.owner[t] = o /\ r.condvar[t] = Nobody
        /\ r.key[t] = LightLock /\ t \notin r.timer
    <3>1. "lightlock" \in Queues
      BY Zenon DEF Queues
    <3> QED
      BY ONLY t \in Threads, <1>2, <1>4, <2>2, <2>3, <2>4, <3>1, Constants, JoinSleeps, ThreadFacts
  <2>6. Goes(pc, seen, t, pc', seen') /\ pc'[t] = "lockwait"
    BY Zenon, <1>1, <1>2, <2>1 DEF Goes, PCs
  <2>7. Spot(r, pc', ltag, tag, in, seen', t)
    <3>1. Place(r, pc', ltag, tag, t) /\ ~HasLock(r, pc', t) /\ ~Given(r, pc', t)
      BY Zenon, <2>2, <2>5, <2>6, Constants DEF Place, HasLock, Given
    <3> QED
      BY Zenon, <1>5, <2>5, <2>6, <3>1 DEF Spot, InPCs
  <2>8. Kern(r, pc', ltag, tag, in, seen')
    <3>1. Moves(t, k, pc, ltag, tag, in, seen, r, pc', ltag, tag, in, seen')
      BY ONLY Zenon, t \in Threads, <1>2, <1>3, <2>5, <2>6, <2>7 DEF Moves
    <3> QED
      BY ONLY Zenon, t \in Threads, <1>2, <1>3, <2>5, <2>6, <2>7, <3>1, KernMove
  <2>9. Trees(k') /\ (\A u \in Threads : Alike(k', r, u)) /\ (SuspBut(r, {o}) => Susp(k'))
    BY ONLY Zenon, <2>1, <2>2, <2>5, ContinueIs, ThreadFacts
  <2>10. Kern(k', pc', ltag, tag, in, seen')
    BY ONLY Zenon, <2>8, <2>9, KernSame
  <2>11. Susp(k) => SuspBut(r, {o})
    <3>1. ASSUME NEW u \in Threads \ {o} PROVE KernelWaiters(r, u) \subseteq KernelWaiters(k, u)
      BY Zenon, <2>5 DEF KernelWaiters, Alike
    <3> QED
      BY Zenon, <2>5, <3>1 DEF Susp, SuspBut, SameSusp
  <2>12. NoNewCv(k', k)
    BY <2>5, <2>9 DEF NoNewCv, Alike
  <2> QED
    BY Zenon, <1>1, <2>9, <2>10, <2>11, <2>12 DEF Kept, KernInv
<1> QED
  BY Zenon, <1>6, <1>7

\* Whoever is past Lock runs.
LEMMA PastLock ==
  ASSUME KernInv, NEW t \in Threads, HasLightLock(t)
  PROVE  Kern(k, pc, ltag, tag, in, seen) /\ HasLock(k, pc, t) /\ k.state[t] = "Runnable"
<1>1. Spot(k, pc, ltag, tag, in, seen, t)
  BY Zenon, KernTypes
<1> QED
  BY Zenon, <1>1 DEF HasLightLock, HasLock, KernInv, Spot

\* The end of a KScopedLightLock's scope, with the threads in state s.
LEMMA LeaveKeeps ==
  ASSUME ThreadFacts, KernInv, NEW t \in Threads, NEW s, Kern(s, pc, ltag, tag, in, seen), HasLock(s, pc, t),
         s.state[t] = "Runnable", Susp(k) => Susp(s), NoNewCv(s, k), Leave(t, s), tag' = tag, in' = in
  PROVE  Kept /\ \A u \in Threads : k'.queue[u] = "lightcv" => s.queue[u] = "lightcv"
<1> DEFINE x == Unlock(s, t)
<1>1. /\ k' = x.s /\ ltag' = x.tag /\ seen' = seen
      /\ pc' = [pc EXCEPT ![t] = IF op[t] = "exit" THEN "exiting" ELSE "user"]
  BY Zenon DEF Leave
<1>2. Goes(pc, seen, t, pc', seen) /\ pc'[t] \in {"user", "lock", "exiting"}
  BY Zenon, <1>1, KernTypes DEF Goes, PCs
<1>3. x = Unlock(s, t)
  BY Zenon
<1> HIDE DEF x
<1>4. /\ Kern(x.s, pc', x.tag, tag, in, seen) /\ (Susp(s) => Susp(x.s)) /\ NoNewCv(x.s, s)
      /\ \A u \in Threads : x.s.queue[u] = "lightcv" => s.queue[u] = "lightcv"
  BY ONLY t \in Threads, Kern(s, pc, ltag, tag, in, seen), HasLock(s, pc, t),
     s.state[t] = "Runnable", <1>2, <1>3, UnlockKeeps, ThreadFacts
<1>5. NoNewCv(x.s, k)
  BY Zenon, <1>4 DEF NoNewCv
<1> QED
  BY Zenon, <1>1, <1>4, <1>5 DEF Kept, KernInv

\* KLightConditionVariable::Wait leaves the lock and sleeps.
LEMMA LightCvWaitKeeps ==
  ASSUME ThreadFacts, KernInv, NEW t \in Threads, HasLightLock(t), LightCvWait(t), seen' = seen, tag' = tag, in' = in
  PROVE  Kept
<1> DEFINE x == Unlock(k, t)
           q == [pc EXCEPT ![t] = "lock"]
<1>1. k' = BeginWait(x.s, t, "lightcv", TRUE) /\ ltag' = x.tag /\ pc' = [pc EXCEPT ![t] = "lightcv"]
  BY Zenon DEF LightCvWait
<1>2. pc \in [Threads -> PCs] /\ seen \in [Threads -> Threads \cup {Nobody}]
  BY Zenon, KernTypes
<1>3. Goes(pc, seen, t, q, seen) /\ q[t] = "lock"
  BY Zenon, <1>2 DEF Goes, PCs
<1>4. x = Unlock(k, t)
  BY Zenon
<1>5. Goes(q, seen, t, pc', seen) /\ pc'[t] = "lightcv"
  BY Zenon, <1>1, <1>2 DEF Goes, PCs
<1> HIDE DEF x, q
<1>6. Kern(k, pc, ltag, tag, in, seen) /\ HasLock(k, pc, t) /\ k.state[t] = "Runnable"
  BY Zenon, PastLock
<1>7. /\ Kern(x.s, q, x.tag, tag, in, seen) /\ (Susp(k) => Susp(x.s)) /\ NoNewCv(x.s, k)
      /\ x.s.state[t] = "Runnable"
  BY ONLY t \in Threads, <1>3, <1>4, <1>6, UnlockKeeps, ThreadFacts
<1>8. /\ Spot(x.s, q, x.tag, tag, in, seen, t) /\ x.s.queue[t] = "none" /\ x.s.owner[t] = Nobody
      /\ x.s.condvar[t] = Nobody /\ t \notin x.s.timer
  BY ONLY Zenon, t \in Threads, <1>7, Running
<1>9. /\ x.tag \in Tags /\ tag \in Tags /\ in \subseteq Threads /\ Trees(x.s)
      /\ (x.tag.wait => x.tag.owner # Nobody) /\ (tag.wait => tag.owner # Nobody)
  BY ONLY Zenon, <1>7 DEF Kern
<1>10. Trees(k') /\ Asleep(k', x.s, t, "lightcv", TRUE)
  <2>1. "lightcv" \in Queues
    BY Zenon DEF Queues
  <2> QED
    BY ONLY Zenon, t \in Threads, <1>1, <1>9, <2>1, BeginWaitIs
<1>11. Spot(k', pc', x.tag, tag, in, seen, t)
  <2>1. x.tag.owner # t /\ (tag.owner = t <=> t \in in)
    BY Zenon, <1>3, <1>8 DEF Spot, Given, HasLock
  <2>2. Place(k', pc', x.tag, tag, t) /\ ~HasLock(k', pc', t) /\ ~Given(k', pc', t)
    BY Zenon, <1>5, <1>8, <1>10 DEF Place, HasLock, Given, Asleep
  <2> QED
    BY Zenon, <1>5, <1>10, <2>1, <2>2 DEF Spot, InPCs, Asleep
<1>12. Kern(k', pc', x.tag, tag, in, seen)
  <2>1. \A u \in Threads \ {t} : Alike(k', x.s, u)
    BY Zenon, <1>10 DEF Asleep
  <2>2. Trees(k')
    BY Zenon, <1>10
  <2>3. Moves(t, x.s, q, x.tag, tag, in, seen, k', pc', x.tag, tag, in, seen)
    BY ONLY Zenon, t \in Threads, <1>5, <1>7, <1>9, <1>11, <2>1, <2>2 DEF Moves
  <2> QED
    BY ONLY Zenon, t \in Threads, <1>5, <1>7, <1>9, <1>11, <2>1, <2>2, <2>3, KernMove
<1>13. Susp(x.s) => Susp(k')
  <2>1. SameSusp(k', x.s) /\ k'.owner = x.s.owner /\ k'.key = x.s.key
    BY Zenon, <1>10 DEF Asleep
  <2> QED
    BY Zenon, <2>1, SuspKept DEF Susp
<1>14. NoNewCv(k', k)
  BY Zenon, <1>7, <1>10 DEF NoNewCv, Asleep
<1> QED
  BY Zenon, <1>1, <1>7, <1>12, <1>13, <1>14 DEF Kept, KernInv

\* Broadcast wakes every waiter of the light condition variable, and no other.
LEMMA BroadcastKeeps ==
  ASSUME NEW s, NEW p, NEW g, NEW m, NEW i, NEW e, Kern(s, p, g, m, i, e), NEW r, r = Broadcast(s)
  PROVE  /\ Kern(r, p, g, m, i, e) /\ (Susp(s) => Susp(r)) /\ NoNewCv(r, s)
         /\ \A u \in Threads : /\ r.queue[u] # "lightcv" /\ (HasLock(s, p, u) => HasLock(r, p, u))
                               /\ s.state[u] = "Runnable" => r.state[u] = "Runnable"
<1> DEFINE W == LightCvWaiters(s)
           Pick(f, v) == [u \in Threads |-> IF u \in W THEN v ELSE f[u]]
<1>1. Trees(s) /\ Typed(s) /\ \A u \in Threads : Spot(s, p, g, m, i, e, u)
  BY Zenon DEF Kern, Trees
<1>2. /\ Same(r, s, {"state", "queue", "result", "timer"})
      /\ r.state = Pick(s.state, "Runnable") /\ r.queue = Pick(s.queue, "none")
      /\ r.result = Pick(s.result, "Success") /\ r.timer = s.timer \ W
  BY Zenon, <1>1 DEF Broadcast, Typed, Same, Rec, Fields
<1>3. \A u \in Threads : u \in W <=> s.queue[u] = "lightcv"
  BY Zenon DEF LightCvWaiters
<1> HIDE DEF W
<1>4. /\ r.owner = s.owner /\ r.condvar = s.condvar /\ r.key = s.key /\ r.kwaiters = s.kwaiters
      /\ r.base = s.base /\ r.prio = s.prio /\ r.order = s.order /\ SameSusp(r, s)
  BY Zenon, <1>2 DEF Same, Fields, SameSusp
<1>5. Typed(r)
  BY <1>1, <1>2 DEF Typed, Same, Fields, States, Queues, Results
<1>6. Trees(r)
  BY ONLY Zenon, <1>1, <1>4, <1>5, TreesSame
<1>7. ASSUME NEW u \in Threads, s.queue[u] = "lightcv"
      PROVE  /\ r.state[u] = "Runnable" /\ r.queue[u] = "none" /\ u \notin r.timer
             /\ p[u] = "lightcv" /\ r.owner[u] = Nobody /\ r.condvar[u] = Nobody
  <2>1. Place(s, p, g, m, u)
    BY Zenon, <1>1 DEF Spot
  <2>2. p[u] = "lightcv" /\ s.owner[u] = Nobody /\ s.condvar[u] = Nobody
    BY Zenon, <1>7, <2>1 DEF Place
  <2> QED
    BY Zenon, <1>2, <1>3, <1>4, <1>7, <2>2
<1>8. ASSUME NEW u \in Threads, s.queue[u] # "lightcv" PROVE Alike(r, s, u)
  BY <1>2, <1>3, <1>4, <1>8 DEF Alike
<1>9. ASSUME NEW u \in Threads PROVE Spot(r, p, g, m, i, e, u)
  <2>1. Spot(s, p, g, m, i, e, u)
    BY Zenon, <1>1
  <2>2. CASE s.queue[u] = "lightcv"
    <3>1. p[u] = "lightcv"
      BY Zenon, <1>7, <2>2
    <3>2. ~HasLock(s, p, u) /\ ~Given(s, p, u)
      BY Zenon, <3>1 DEF HasLock, Given
    <3>3. g.owner # u /\ (m.owner = u <=> u \in i)
      BY Zenon, <2>1, <3>2 DEF Spot
    <3>4. p[u] \in InPCs
      BY Zenon, <3>1 DEF InPCs
    <3> QED
      BY ONLY Zenon, u \in Threads, <1>7, <2>2, <3>1, <3>3, <3>4, SpotRunning
  <2>3. CASE s.queue[u] # "lightcv"
    <3>1. s.owner[u] # Nobody => (s.queue[u] = "lightlock" => g.wait) /\ (s.queue[u] # "lightlock" => m.wait)
      BY Zenon, <2>1 DEF Spot, Place
    <3>2. Alike(r, s, u)
      BY Zenon, <1>8, <2>3
    <3>3. Stays(u, s, p, g, m, i, e, r, p, g, m, i, e)
      BY ONLY Zenon, <3>1, <3>2 DEF Stays
    <3> QED
      BY ONLY Zenon, <2>1, <3>3, SpotOther
  <2> QED
    BY Zenon, <2>2, <2>3
<1>10. Kern(r, p, g, m, i, e)
  BY Zenon, <1>6, <1>9 DEF Kern
<1>11. Susp(s) => Susp(r)
  BY Zenon, <1>4, SuspKept DEF Susp
<1>12. ASSUME NEW u \in Threads
       PROVE  /\ r.queue[u] # "lightcv" /\ (HasLock(s, p, u) => HasLock(r, p, u))
              /\ s.state[u] = "Runnable" => r.state[u] = "Runnable"
  BY Zenon, <1>7, <1>8 DEF HasLock, Alike
<1> QED
  BY Zenon, <1>4, <1>10, <1>11, <1>12 DEF NoNewCv

\* Reserve leaves the lock, or waits for a release.
LEMMA ReserveKeeps ==
  ASSUME ThreadFacts, KernInv, NEW t \in Threads, Reserve(t), tag' = tag, in' = in
  PROVE  Kept
<1>1. HasLightLock(t) /\ (Leave(t, k) \/ (LightCvWait(t) /\ seen' = seen)) /\ NoNewCv(k, k)
  BY Zenon DEF Reserve, NoNewCv
<1> QED
  BY Zenon, <1>1, PastLock, LeaveKeeps, LightCvWaitKeeps

\* Release wakes whoever waits to reserve, if the count says that somebody does.
LEMMA ReleaseKeeps ==
  ASSUME ThreadFacts, KernInv, NEW t \in Threads, Release(t), tag' = tag, in' = in
  PROVE  Kept /\ (lim.waiters # 0 => \A u \in Threads : k'.queue[u] # "lightcv")
              /\ (\A u \in Threads : k'.queue[u] = "lightcv" => k.queue[u] = "lightcv")
<1> DEFINE s == IF lim.waiters # 0 THEN Broadcast(k) ELSE k
<1>1. HasLightLock(t) /\ Leave(t, s)
  BY Zenon DEF Release
<1>2. Kern(k, pc, ltag, tag, in, seen) /\ HasLock(k, pc, t) /\ k.state[t] = "Runnable" /\ NoNewCv(k, k)
  BY Zenon, <1>1, PastLock DEF NoNewCv
<1>3. /\ Kern(s, pc, ltag, tag, in, seen) /\ (Susp(k) => Susp(s)) /\ NoNewCv(s, k)
      /\ HasLock(s, pc, t) /\ s.state[t] = "Runnable"
      /\ (lim.waiters # 0 => \A u \in Threads : s.queue[u] # "lightcv")
      /\ \A u \in Threads : s.queue[u] = "lightcv" => k.queue[u] = "lightcv"
  <2>1. CASE lim.waiters # 0
    <3>1. s = Broadcast(k)
      BY Zenon, <2>1
    <3> HIDE DEF s
    <3>2. /\ Kern(s, pc, ltag, tag, in, seen) /\ (Susp(k) => Susp(s)) /\ NoNewCv(s, k)
          /\ \A u \in Threads : /\ s.queue[u] # "lightcv" /\ (HasLock(k, pc, u) => HasLock(s, pc, u))
                                /\ k.state[u] = "Runnable" => s.state[u] = "Runnable"
      BY ONLY <1>2, <3>1, BroadcastKeeps
    <3> QED
      BY Zenon, <1>2, <3>2
  <2>2. CASE lim.waiters = 0
    BY Zenon, <1>2, <2>2
  <2> QED
    BY Zenon, <2>1, <2>2
<1> HIDE DEF s
<1>4. Kept /\ \A u \in Threads : k'.queue[u] = "lightcv" => s.queue[u] = "lightcv"
  BY ONLY Zenon, KernInv, t \in Threads, tag' = tag, in' = in, <1>1, <1>3, LeaveKeeps, ThreadFacts
<1> QED
  BY Zenon, <1>3, <1>4

\* SetLimitValue only takes and leaves the lock.
LEMMA SetLimitValueKeeps ==
  ASSUME ThreadFacts, KernInv, NEW t \in Threads, SetLimitValue(t), tag' = tag, in' = in
  PROVE  Kept
<1>1. HasLightLock(t) /\ Leave(t, k) /\ NoNewCv(k, k)
  BY Zenon DEF SetLimitValue, NoNewCv
<1> QED
  BY Zenon, <1>1, PastLock, LeaveKeeps

\* A thread that exits terminates, suspended no more.
LEMMA TerminatedIs ==
  ASSUME NEW s, Trees(s), NEW t \in Threads, NEW r, r = Terminated(s, t)
  PROVE  /\ Trees(r) /\ (\A u \in Threads \ {t} : Alike(r, s, u)) /\ r.state[t] = "Terminated"
         /\ r.queue = s.queue /\ r.owner = s.owner /\ r.key = s.key /\ r.condvar = s.condvar /\ r.timer = s.timer
         /\ (Susp(s) => Susp(r))
<1> DEFINE a == [s EXCEPT !.allow[t] = FALSE]
           b == UpdateState(a, t)
<1>0. Typed(s) /\ Rec(s)
  BY Zenon DEF Trees, Typed
<1>1. Same(a, s, {"allow"}) /\ a.allow = [s.allow EXCEPT ![t] = FALSE]
  BY Zenon, <1>0 DEF Same, Rec, Fields
<1>2. r = [b EXCEPT !.state[t] = "Terminated"]
  BY Zenon DEF Terminated
<1> HIDE DEF a
<1>3. Same(b, a, {"flags"}) /\ b.flags = [a.flags EXCEPT ![t] = IF a.allow[t] THEN a.request[t] ELSE {}]
  <2>1. Rec(a)
    BY Zenon, <1>1 DEF Same
  <2> QED
    BY Zenon, <2>1 DEF UpdateState, Same, Rec, Fields
<1> HIDE DEF b
<1>4. Same(r, b, {"state"}) /\ r.state = [b.state EXCEPT ![t] = "Terminated"]
  <2>1. Rec(b)
    BY Zenon, <1>3 DEF Same
  <2> QED
    BY Zenon, <1>2, <2>1 DEF Same, Rec, Fields
<1>5. Same(r, s, {"allow", "flags", "state"}) /\ r.allow = [s.allow EXCEPT ![t] = FALSE]
      /\ r.state = [s.state EXCEPT ![t] = "Terminated"]
  BY ONLY Zenon, <1>1, <1>3, <1>4 DEF Same, Fields
<1>6. r.flags = [s.flags EXCEPT ![t] = {}]
  <2>1. r.flags = b.flags /\ a.flags = s.flags
    BY ONLY Zenon, <1>1, <1>4 DEF Same, Fields
  <2>2. ~a.allow[t]
    BY Zenon, <1>0, <1>1 DEF Typed
  <2> QED
    BY ONLY Zenon, <1>3, <2>1, <2>2
<1>7. Typed(r)
  BY ONLY <1>0, <1>5, <1>6, t \in Threads DEF Typed, Same, Fields, States
<1>8. /\ r.owner = s.owner /\ r.condvar = s.condvar /\ r.key = s.key /\ r.kwaiters = s.kwaiters
      /\ r.base = s.base /\ r.prio = s.prio /\ r.order = s.order /\ r.queue = s.queue /\ r.timer = s.timer
      /\ r.result = s.result /\ r.request = s.request
  BY ONLY Zenon, <1>5 DEF Same, Fields
<1>9. Trees(r)
  BY ONLY Zenon, Trees(s), <1>7, <1>8, TreesSame
<1>10. (\A u \in Threads \ {t} : Alike(r, s, u)) /\ r.state[t] = "Terminated"
  BY ONLY Zenon, <1>0, <1>5, <1>8, t \in Threads DEF Alike, Typed
<1>11. Susp(s) => Susp(r)
  <2>1. \A u \in Threads : KernelWaiters(r, u) = KernelWaiters(s, u)
    BY ONLY Zenon, <1>8 DEF KernelWaiters
  <2> QED
    BY ONLY <1>0, <1>5, <1>6, <1>8, <2>1, t \in Threads DEF Susp, SuspBut, Typed
<1> QED
  BY ONLY Zenon, <1>8, <1>9, <1>10, <1>11

\* A thread that exits: its call, and its termination.
LEMMA ExitKeeps ==
  ASSUME KernInv, NEW t \in Threads, Exit(t), tag' = tag, in' = in
  PROVE  Kept
<1>1. CASE /\ pc[t] \in {"user", "arbitrate", "relock", "arbunlock", "doomed"} /\ Runs(t) /\ Call(t, "exit")
  BY Zenon, <1>1, CallKeeps
<1>2. CASE /\ Runs(t) /\ pc[t] = "exiting" /\ k' = Terminated(k, t)
           /\ pc' = [pc EXCEPT ![t] = "dead"] /\ UNCHANGED <<seen, lvars>>
  <2>1. k.state[t] = "Runnable" /\ seen' = seen /\ ltag' = ltag
    BY Zenon, <1>2 DEF Runs, lvars
  <2>2. /\ ltag \in Tags /\ tag \in Tags /\ pc \in [Threads -> PCs] /\ in \subseteq Threads
        /\ seen \in [Threads -> Threads \cup {Nobody}] /\ (tag.wait => tag.owner # Nobody)
        /\ (ltag.wait => ltag.owner # Nobody) /\ Trees(k)
    BY Zenon, KernTypes
  <2>3. Kern(k, pc, ltag, tag, in, seen)
    BY Zenon DEF KernInv
  <2>4. /\ Spot(k, pc, ltag, tag, in, seen, t) /\ k.queue[t] = "none" /\ k.owner[t] = Nobody
        /\ k.condvar[t] = Nobody /\ t \notin k.timer
    BY Zenon, <2>1, <2>3, Running
  <2>5. /\ Trees(k') /\ (\A u \in Threads \ {t} : Alike(k', k, u)) /\ k'.state[t] = "Terminated"
        /\ k'.queue = k.queue /\ k'.owner = k.owner /\ k'.key = k.key /\ k'.condvar = k.condvar
        /\ k'.timer = k.timer /\ (Susp(k) => Susp(k'))
    BY ONLY t \in Threads, <1>2, <2>2, TerminatedIs
  <2>6. Goes(pc, seen, t, pc', seen) /\ pc'[t] = "dead"
    BY Zenon, <1>2, <2>2 DEF Goes, PCs
  <2>7. Spot(k', pc', ltag, tag, in, seen, t)
    <3>1. Place(k', pc', ltag, tag, t) /\ ~HasLock(k', pc', t) /\ ~Given(k', pc', t)
      BY Zenon, <2>4, <2>5, <2>6 DEF Place, HasLock, Given
    <3>2. ~HasLock(k, pc, t) /\ ~Given(k, pc, t)
      BY Zenon, <1>2 DEF HasLock, Given
    <3> QED
      BY Zenon, <2>4, <2>5, <2>6, <3>1, <3>2 DEF Spot, InPCs
  <2>8. Kern(k', pc', ltag, tag, in, seen)
    <3>1. Moves(t, k, pc, ltag, tag, in, seen, k', pc', ltag, tag, in, seen)
      BY ONLY Zenon, t \in Threads, <2>2, <2>3, <2>5, <2>6, <2>7 DEF Moves
    <3> QED
      BY ONLY Zenon, t \in Threads, <2>2, <2>3, <2>5, <2>6, <2>7, <3>1, KernMove
  <2> QED
    BY Zenon, <2>1, <2>5, <2>8 DEF Kept, KernInv, NoNewCv
<1> QED
  BY Zenon, <1>1, <1>2 DEF Exit
-----------------------------------------------------------------------------
(* The timer, and what other processes and debuggers do.                   *)

\* The timer interrupt takes its task from the tree and cancels the wait.
LEMMA TimerKeeps ==
  ASSUME ThreadFacts, KernInv, NEW t \in Threads, LimitTimer(t), tag' = tag, in' = in
  PROVE  Kept
<1> DEFINE s == [k EXCEPT !.timer = @ \ {t}]
<1>1. pc' = pc /\ seen' = seen /\ ltag' = ltag /\ t \in k.timer
  BY Zenon DEF LimitTimer, OnTimer
<1>2. k' = IF s.state[t] = "Waiting" THEN CancelWait(s, t, "TimedOut") ELSE s
  BY Zenon DEF LimitTimer, OnTimer
<1>3. Trees(k) /\ Typed(k) /\ Kern(k, pc, ltag, tag, in, seen) /\ Spot(k, pc, ltag, tag, in, seen, t)
  BY Zenon, KernTypes DEF KernInv
<1>4. Same(s, k, {"timer"}) /\ s.timer = k.timer \ {t}
  BY Zenon, <1>3 DEF Typed, Same, Rec, Fields
<1> HIDE DEF s
<1>5. Typed(s)
  BY ONLY Zenon, <1>3, <1>4 DEF Typed, Same, Fields
<1>6. /\ s.owner = k.owner /\ s.condvar = k.condvar /\ s.key = k.key /\ s.kwaiters = k.kwaiters
      /\ s.base = k.base /\ s.prio = k.prio /\ s.order = k.order /\ s.queue = k.queue
      /\ s.result = k.result /\ s.state = k.state /\ SameSusp(s, k)
  BY ONLY Zenon, <1>4 DEF Same, Fields, SameSusp
<1>7. Trees(s)
  BY ONLY Zenon, <1>3, <1>5, <1>6, TreesSame
<1>8. \A u \in Threads \ {t} : Alike(s, k, u)
  BY ONLY Zenon, <1>4, <1>6 DEF Alike
<1>9. Spot(s, pc, ltag, tag, in, seen, t)
  <2>1. Place(s, pc, ltag, tag, t)
    BY ONLY <1>3, <1>6 DEF Spot, Place
  <2>2. (HasLock(s, pc, t) <=> HasLock(k, pc, t)) /\ (Given(s, pc, t) <=> Given(k, pc, t))
    BY ONLY Zenon, <1>6 DEF HasLock, Given
  <2> QED
    BY ONLY Zenon, <1>3, <1>4, <1>6, <2>1, <2>2 DEF Spot
<1>10. Kern(s, pc, ltag, tag, in, seen)
  <2>1. /\ ltag \in Tags /\ tag \in Tags /\ in \subseteq Threads /\ (tag.wait => tag.owner # Nobody)
        /\ (ltag.wait => ltag.owner # Nobody) /\ Goes(pc, seen, t, pc, seen)
    BY Zenon, KernTypes DEF Goes
  <2>2. Moves(t, k, pc, ltag, tag, in, seen, s, pc, ltag, tag, in, seen)
    BY ONLY Zenon, t \in Threads, <1>3, <1>7, <1>8, <1>9, <2>1 DEF Moves
  <2> QED
    BY ONLY Zenon, t \in Threads, <1>3, <1>7, <1>8, <1>9, <2>1, <2>2, KernMove
<1>11. (Susp(k) => Susp(s)) /\ NoNewCv(s, k)
  BY ONLY Zenon, <1>6, SuspKept DEF Susp, NoNewCv
<1>12. s.state[t] = "Waiting"
  BY Zenon, <1>1, <1>3, <1>6 DEF Spot
<1>13. Kern(k', pc, ltag, tag, in, seen) /\ (Susp(s) => Susp(k')) /\ NoNewCv(k', s)
  <2>1. k' = CancelWait(s, t, "TimedOut")
    BY Zenon, <1>2, <1>12
  <2> QED
    BY ONLY Zenon, t \in Threads, <1>10, <1>12, <2>1, CancelKeeps, ThreadFacts
<1> QED
  BY Zenon, <1>1, <1>11, <1>13 DEF Kept, KernInv, NoNewCv

\* A step that changes nobody's wait.
LEMMA KeptAlike ==
  ASSUME KernInv, Trees(k'), \A u \in Threads : Alike(k', k, u), Susp(k) => Susp(k'),
         pc' = pc, seen' = seen, ltag' = ltag, tag' = tag, in' = in
  PROVE  Kept
<1>1. Kern(k', pc, ltag, tag, in, seen)
  BY Zenon, KernSame DEF KernInv
<1> QED
  BY Zenon, <1>1 DEF Kept, KernInv, NoNewCv, Alike

\* The suspensions asked for thread t are R.
Asking(s, t, R) == [s EXCEPT !.request[t] = R]

\* Nothing but the requests differs.
LEMMA RequestIs ==
  ASSUME NEW s, Trees(s), NEW t \in Threads, NEW R \in SUBSET SuspendTypes,
         NEW r, r = Asking(s, t, R)
  PROVE  /\ Trees(r) /\ (\A u \in Threads : Alike(r, s, u)) /\ r.flags = s.flags /\ r.allow = s.allow
         /\ r.request = [s.request EXCEPT ![t] = R]
<1>1. Typed(s) /\ Rec(s)
  BY Zenon DEF Trees, Typed
<1>2. Same(r, s, {"request"}) /\ r.request = [s.request EXCEPT ![t] = R]
  BY Zenon, <1>1 DEF Asking, Same, Rec, Fields
<1>3. Same(r, s, {"flags", "request", "allow", "term"}) /\ r.flags = s.flags /\ r.allow = s.allow /\ r.term = s.term
  BY ONLY Zenon, <1>2 DEF Same, Fields
<1>4. /\ r.flags \in [Threads -> SUBSET SuspendTypes] /\ r.request \in [Threads -> SUBSET SuspendTypes]
      /\ r.allow \in [Threads -> BOOLEAN] /\ r.term \in [Threads -> BOOLEAN]
  BY ONLY Zenon, <1>1, <1>2, <1>3, t \in Threads, R \in SUBSET SuspendTypes DEF Typed
<1>5. Trees(r) /\ \A u \in Threads : Alike(r, s, u)
  BY ONLY Zenon, Trees(s), <1>3, <1>4, FlagsOnly
<1> QED
  BY Zenon, <1>2, <1>3, <1>5

\* RequestSuspend: nothing but flags change, and not those of a thread with kernel
\* waiters.
LEMMA SuspendKeeps ==
  ASSUME ThreadFacts, NEW t \in Threads, NEW y \in SuspendTypes, RequestSuspend(t, y), Trees(k)
  PROVE  Trees(k') /\ (\A u \in Threads : Alike(k', k, u)) /\ (Susp(k) => Susp(k'))
<1> DEFINE R == k.request[t] \cup {y}
           s == Asking(k, t, R)
<1>1. k' = TrySuspend(s, t) /\ R \in SUBSET SuspendTypes /\ R # {}
  BY Zenon DEF RequestSuspend, Asking, Trees, Typed
<1>2. s = Asking(k, t, R)
  BY Zenon
<1>3. k.request \in [Threads -> SUBSET SuspendTypes]
  BY Zenon DEF Trees, Typed
<1> HIDE DEF R, s
<1>4. /\ Trees(s) /\ (\A u \in Threads : Alike(s, k, u)) /\ s.flags = k.flags /\ s.allow = k.allow
      /\ s.request = [k.request EXCEPT ![t] = R]
  BY ONLY t \in Threads, Trees(k), <1>1, <1>2, RequestIs
<1>5. \A u \in Threads : KernelWaiters(s, u) = KernelWaiters(k, u)
  BY Zenon, <1>4 DEF KernelWaiters, Alike
<1>6. Susp(k) => SuspBut(s, {t}) /\ (KernelWaiters(s, t) # {} => s.flags[t] = {})
  BY Zenon, <1>1, <1>3, <1>4, <1>5 DEF Susp, SuspBut
<1>7. Trees(k') /\ (\A u \in Threads : Alike(k', s, u)) /\ (Susp(k) => Susp(k'))
  BY ONLY Zenon, t \in Threads, <1>1, <1>4, <1>6, TrySuspendIs, ThreadFacts
<1> QED
  BY <1>4, <1>7 DEF Alike

\* With one kind of suspension a resumed thread has no request left.
OneKind == \A x, y \in SuspendTypes : x = y

\* Resume clears the request and makes the state follow it, without a check.
LEMMA ResumeKeeps ==
  ASSUME NEW t \in Threads, NEW y \in SuspendTypes, Resume(t, y), Trees(k)
  PROVE  Trees(k') /\ (\A u \in Threads : Alike(k', k, u)) /\ (OneKind /\ Susp(k) => Susp(k'))
<1> DEFINE R == k.request[t] \ {y}
           s == Asking(k, t, R)
<1>1. k' = UpdateState(s, t) /\ R \in SUBSET SuspendTypes /\ (OneKind => R = {})
  BY Zenon DEF Resume, Asking, Trees, Typed, OneKind
<1>2. s = Asking(k, t, R)
  BY Zenon
<1>3. k.request \in [Threads -> SUBSET SuspendTypes] /\ k.flags \in [Threads -> SUBSET SuspendTypes]
  BY Zenon DEF Trees, Typed
<1> HIDE DEF R, s
<1>4. /\ Trees(s) /\ (\A u \in Threads : Alike(s, k, u)) /\ s.flags = k.flags /\ s.allow = k.allow
      /\ s.request = [k.request EXCEPT ![t] = R]
  BY ONLY t \in Threads, Trees(k), <1>1, <1>2, RequestIs
<1>5. /\ Trees(k') /\ (\A u \in Threads : Alike(k', s, u))
      /\ k'.request = s.request /\ k'.allow = s.allow /\ k'.owner = s.owner /\ k'.key = s.key
      /\ k'.flags = [s.flags EXCEPT ![t] = IF s.allow[t] THEN s.request[t] ELSE {}]
  <2>1. k' = UpdateState(s, t) /\ Trees(s)
    BY Zenon, <1>1, <1>4
  <2> QED
    BY ONLY t \in Threads, <2>1, UpdateIs
<1>6. ASSUME OneKind, Susp(k) PROVE Susp(k')
  <2>1. k'.flags[t] = {}
    BY <1>1, <1>3, <1>4, <1>5, <1>6
  <2>2. \A u \in Threads \ {t} : k'.flags[u] = k.flags[u] /\ k'.request[u] = k.request[u] /\ k'.allow[u] = k.allow[u]
    BY <1>3, <1>4, <1>5
  <2>3. \A u \in Threads : KernelWaiters(k', u) = KernelWaiters(k, u)
    BY <1>4, <1>5 DEF KernelWaiters, Alike
  <2> QED
    BY Zenon, <1>6, <2>1, <2>2, <2>3 DEF Susp, SuspBut
<1> QED
  BY <1>4, <1>5, <1>6 DEF Alike

\* SetBasePriority, with the priorities that follow from it.
LEMMA PriorityKeeps ==
  ASSUME ThreadFacts, NEW t \in Threads, NEW n \in Nat, SetPriority(t, n), Trees(k)
  PROVE  Trees(k') /\ (\A u \in Threads : Alike(k', k, u)) /\ (Susp(k) => Susp(k'))
<1> DEFINE v == IF k.term[t] /\ n >= Terminating THEN Terminating ELSE n
<1>1. k' = RestorePriority([k EXCEPT !.base[t] = v], t)
  BY Zenon DEF SetPriority, SetBasePriority
<1>2. v \in Nat
  BY Zenon, ThreadAssumption
<1> HIDE DEF v
<1>3. Trees(k') /\ SameSusp(k', k) /\ \A u \in Threads : Alike(k', k, u)
  BY ONLY Zenon, t \in Threads, Trees(k), <1>1, <1>2, ThreadFacts DEF ThreadFacts, NewBaseIs
<1>4. Susp(k) => Susp(k')
  BY <1>3, SuspKept DEF Susp, Alike
<1> QED
  BY Zenon, <1>3, <1>4

\* Termination disallows the suspensions of the thread.
Disallowed(s, t) ==
    LET s1 == [s EXCEPT !.term[t] = TRUE]
    IN  IF IsSuspended(s1, t) THEN UpdateState([s1 EXCEPT !.allow[t] = FALSE], t) ELSE s1

\* Nobody's wait changes, and nobody is suspended who was not.
LEMMA DisallowedIs ==
  ASSUME NEW s, Trees(s), NEW t \in Threads, NEW r, r = Disallowed(s, t)
  PROVE  Trees(r) /\ (\A u \in Threads : Alike(r, s, u)) /\ (Susp(s) => Susp(r))
<1> DEFINE c == [s EXCEPT !.term[t] = TRUE]
           a == [c EXCEPT !.allow[t] = FALSE]
           b == UpdateState(a, t)
<1>0. Typed(s) /\ Rec(s)
  BY Zenon DEF Trees, Typed
<1>1. Same(c, s, {"term"}) /\ c.term = [s.term EXCEPT ![t] = TRUE]
  BY Zenon, <1>0 DEF Same, Rec, Fields
<1>2. r = IF IsSuspended(c, t) THEN b ELSE c
  BY Zenon DEF Disallowed
<1> HIDE DEF c
<1>3. /\ Same(c, s, {"flags", "request", "allow", "term"}) /\ c.flags = s.flags /\ c.allow = s.allow
      /\ c.request = s.request /\ Rec(c)
  BY ONLY Zenon, <1>1 DEF Same, Fields
<1>4. /\ c.flags \in [Threads -> SUBSET SuspendTypes] /\ c.request \in [Threads -> SUBSET SuspendTypes]
      /\ c.allow \in [Threads -> BOOLEAN] /\ c.term \in [Threads -> BOOLEAN]
  BY ONLY Zenon, <1>0, <1>1, <1>3, t \in Threads DEF Typed
<1>5. Trees(c) /\ \A u \in Threads : Alike(c, s, u)
  BY ONLY Zenon, Trees(s), <1>3, <1>4, FlagsOnly
<1>6. Susp(s) => Susp(c)
  BY ONLY <1>3, <1>5, SuspKept DEF Susp, Alike, SameSusp
<1>7. Same(a, c, {"allow"}) /\ a.allow = [c.allow EXCEPT ![t] = FALSE]
  BY ONLY Zenon, <1>3 DEF Same, Rec, Fields
<1> HIDE DEF a
<1>8. /\ Same(a, c, {"flags", "request", "allow", "term"}) /\ a.flags = c.flags /\ a.term = c.term
      /\ a.request = c.request
  BY ONLY Zenon, <1>7 DEF Same, Fields
<1>9. /\ a.flags \in [Threads -> SUBSET SuspendTypes] /\ a.request \in [Threads -> SUBSET SuspendTypes]
      /\ a.allow \in [Threads -> BOOLEAN] /\ a.term \in [Threads -> BOOLEAN] /\ ~a.allow[t]
  BY ONLY Zenon, <1>4, <1>7, <1>8, t \in Threads
<1>10. Trees(a) /\ \A u \in Threads : Alike(a, c, u)
  BY ONLY Zenon, <1>5, <1>8, <1>9, FlagsOnly
<1>11. /\ Trees(b) /\ (\A u \in Threads : Alike(b, a, u)) /\ b.request = a.request /\ b.allow = a.allow
       /\ b.owner = a.owner /\ b.key = a.key
       /\ b.flags = [a.flags EXCEPT ![t] = IF a.allow[t] THEN a.request[t] ELSE {}]
  BY ONLY t \in Threads, <1>10, UpdateIs
<1> HIDE DEF b
<1>12. ASSUME Susp(c) PROVE Susp(b)
  <2>1. b.flags[t] = {}
    BY ONLY Zenon, <1>9, <1>11, t \in Threads
  <2>2. \A u \in Threads \ {t} : b.flags[u] = c.flags[u] /\ b.request[u] = c.request[u] /\ b.allow[u] = c.allow[u]
    BY ONLY <1>4, <1>7, <1>8, <1>9, <1>11, t \in Threads
  <2>3. \A u \in Threads : KernelWaiters(b, u) = KernelWaiters(c, u)
    BY ONLY <1>10, <1>11 DEF KernelWaiters, Alike
  <2> QED
    BY ONLY Zenon, <1>12, <2>1, <2>2, <2>3 DEF Susp, SuspBut
<1>13. Trees(b) /\ \A u \in Threads : Alike(b, s, u)
  BY ONLY <1>5, <1>10, <1>11 DEF Alike
<1> QED
  BY ONLY Zenon, <1>2, <1>5, <1>6, <1>12, <1>13

\* RequestTerminate: suspension is disallowed, the priority raised, a wait cancelled.
LEMMA TerminateKeeps ==
  ASSUME ThreadFacts, KernInv, NEW t \in Threads, RequestTerminate(t),
         pc' = pc, seen' = seen, ltag' = ltag, tag' = tag, in' = in
  PROVE  Kept
<1> DEFINE a == Disallowed(k, t)
           b == IF a.base[t] > Terminating THEN RestorePriority([a EXCEPT !.base[t] = Terminating], t) ELSE a
<1>1. k' = WakeToTerminate(b, t)
  BY Zenon DEF RequestTerminate, Disallowed
<1>2. Kern(k, pc, ltag, tag, in, seen) /\ Trees(k)
  BY Zenon, KernTypes DEF KernInv
<1>3. Trees(a) /\ (\A u \in Threads : Alike(a, k, u)) /\ (Susp(k) => Susp(a))
  BY ONLY Zenon, t \in Threads, <1>2, DisallowedIs
<1> HIDE DEF a
<1>4. Trees(b) /\ SameSusp(b, a) /\ \A u \in Threads : Alike(b, a, u)
  <2>1. CASE a.base[t] > Terminating
    <3>1. b = RestorePriority([a EXCEPT !.base[t] = Terminating], t) /\ Terminating \in Nat
      BY Zenon, <2>1, ThreadAssumption
    <3> HIDE DEF b
    <3> QED
      BY ONLY Zenon, t \in Threads, <1>3, <3>1, ThreadFacts DEF ThreadFacts, NewBaseIs
  <2>2. CASE ~(a.base[t] > Terminating)
    <3>1. b = a
      BY Zenon, <2>2
    <3> QED
      BY ONLY Zenon, <1>3, <3>1 DEF SameSusp, Alike
  <2> QED
    BY Zenon, <2>1, <2>2
<1> HIDE DEF b
<1>5. Susp(k) => Susp(b)
  BY ONLY <1>3, <1>4, SuspKept DEF Susp, Alike
<1>6. \A u \in Threads : Alike(b, k, u)
  BY ONLY <1>3, <1>4 DEF Alike
<1>7. Kern(b, pc, ltag, tag, in, seen)
  BY ONLY Zenon, <1>2, <1>4, <1>6, KernSame
<1>8. Kern(k', pc, ltag, tag, in, seen) /\ (Susp(b) => Susp(k')) /\ NoNewCv(k', b)
  <2>1. CASE b.state[t] = "Waiting"
    <3>1. k' = CancelWait(b, t, "TerminationRequested")
      BY Zenon, <1>1, <2>1 DEF WakeToTerminate
    <3> QED
      BY ONLY Zenon, t \in Threads, <1>7, <2>1, <3>1, CancelKeeps, ThreadFacts
  <2>2. CASE b.state[t] # "Waiting"
    <3>1. k' = b
      BY Zenon, <1>1, <2>2 DEF WakeToTerminate
    <3> QED
      BY ONLY Zenon, <1>7, <3>1 DEF NoNewCv
  <2> QED
    BY Zenon, <2>1, <2>2
<1> QED
  BY Zenon, <1>5, <1>6, <1>8 DEF Kept, KernInv, NoNewCv, Alike
-----------------------------------------------------------------------------
(* The steps together.                                                     *)

\* The words of the condition variables stay, and nobody joins a tree.
LEMMA FlagStays ==
  ASSUME CvFlag(k, flag), NoNewCv(k', k), flag' = flag
  PROVE  CvFlag(k', flag')
BY Zenon DEF CvFlag, NoNewCv

\* A step of a thread in the mutex or a condition variable.
LEMMA MutexKeeps ==
  ASSUME ThreadFacts, KernInv, CvFlag(k, flag), NEW t \in Threads, MutexCall(t), ltag' = ltag
  PROVE  KernInv' /\ (Susp(k) => Susp(k')) /\ CvFlag(k', flag')
<1>1. CASE MutexLock(t)
  <2>1. Kept /\ flag' = flag
    BY Zenon, <1>1, MutexLockKeeps DEF MutexLock
  <2> QED
    BY Zenon, <2>1, FlagStays DEF Kept
<1>2. CASE WaitForAddress(t)
  <2>1. Kept /\ flag' = flag
    BY Zenon, <1>2, WaitForAddressKeeps DEF WaitForAddress, cvars
  <2> QED
    BY Zenon, <2>1, FlagStays DEF Kept
<1>3. CASE MutexUnlock(t)
  <2>1. Kept /\ flag' = flag
    BY Zenon, <1>3, MutexUnlockKeeps DEF MutexUnlock
  <2> QED
    BY Zenon, <2>1, FlagStays DEF Kept
<1>4. CASE SignalToAddress(t)
  <2>1. Kept /\ flag' = flag
    BY Zenon, <1>4, SignalToAddressKeeps DEF SignalToAddress
  <2> QED
    BY Zenon, <2>1, FlagStays DEF Kept
<1>5. CASE WaitReturns(t)
  <2>1. Kept /\ flag' = flag
    BY Zenon, <1>5, WaitReturnsKeeps DEF WaitReturns
  <2> QED
    BY Zenon, <2>1, FlagStays DEF Kept
<1>6. ASSUME NEW c \in CondVarKeys, NEW w \in Timeouts, Wait(t, c, w)
      PROVE  KernInv' /\ (Susp(k) => Susp(k')) /\ CvFlag(k', flag')
  BY Zenon, <1>6, WaitKeeps
<1>7. ASSUME NEW c \in CondVarKeys, NEW n \in {1, -1}, Signal(t, c, n)
      PROVE  KernInv' /\ (Susp(k) => Susp(k')) /\ CvFlag(k', flag')
  BY Zenon, <1>7, SignalKeeps DEF Kept
<1> QED
  BY Zenon, <1>1, <1>2, <1>3, <1>4, <1>5, <1>6, <1>7 DEF MutexCall

\* The timer interrupt, and what others do to a thread.
LEMMA OtherKeeps ==
  ASSUME ThreadFacts, KernInv, NEW t \in Threads, Timer(t) \/ Control(t) \/ Resumed(t),
         tag' = tag, in' = in, pc' = pc, seen' = seen, ltag' = ltag
  PROVE  KernInv' /\ NoNewCv(k', k) /\ (OneKind /\ Susp(k) => Susp(k'))
<1>0. Trees(k)
  BY Zenon, KernTypes
<1>1. CASE Timer(t)
  <2>1. LimitTimer(t)
    BY Zenon, <1>1 DEF Timer
  <2> QED
    BY Zenon, <2>1, TimerKeeps DEF Kept
<1>2. ASSUME NEW y \in SuspendTypes, RequestSuspend(t, y) PROVE Kept
  <2>1. Trees(k') /\ (\A u \in Threads : Alike(k', k, u)) /\ (Susp(k) => Susp(k'))
    BY Zenon, <1>0, <1>2, SuspendKeeps
  <2> QED
    BY Zenon, <2>1, KeptAlike
<1>3. CASE RequestTerminate(t)
  BY Zenon, <1>3, TerminateKeeps DEF Kept
<1>4. ASSUME NEW p \in Priorities, SetPriority(t, p) PROVE Kept
  <2>1. p \in Nat
    BY Zenon, PrioritiesAssumption
  <2>2. Trees(k') /\ (\A u \in Threads : Alike(k', k, u)) /\ (Susp(k) => Susp(k'))
    BY Zenon, <1>0, <1>4, <2>1, PriorityKeeps
  <2> QED
    BY Zenon, <2>2, KeptAlike
<1>5. ASSUME NEW y \in SuspendTypes, Resume(t, y)
      PROVE  KernInv' /\ NoNewCv(k', k) /\ (OneKind /\ Susp(k) => Susp(k'))
  <2>1. Trees(k') /\ (\A u \in Threads : Alike(k', k, u)) /\ (OneKind /\ Susp(k) => Susp(k'))
    BY Zenon, <1>0, <1>5, ResumeKeeps
  <2>2. Kern(k', pc, ltag, tag, in, seen)
    BY Zenon, <2>1, KernSame DEF KernInv
  <2> QED
    BY Zenon, <2>1, <2>2 DEF KernInv, NoNewCv, Alike
<1> QED
  BY Zenon, <1>1, <1>2, <1>3, <1>4, <1>5 DEF Kept, Control, Resumed
=============================================================================
