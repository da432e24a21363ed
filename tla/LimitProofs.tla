---------------------------- MODULE LimitProofs ----------------------------
(***************************************************************************)
(* The account of the resource limit: the values of KResourceLimit follow  *)
(* the threads, their reservations and their waits, whatever the threads   *)
(* do elsewhere in the kernel.  KernelProofs joins it to the rest.         *)
(***************************************************************************)
EXTENDS KernelSync, FiniteSetTheorems, TLAPS

\* Of the places p, the calls o, the values l and the reservations x.
LockPCs    == {"lightcv", "lock", "lockslow", "lockwait", "locked"}
LimitFields == {"limit", "current", "hint", "peak", "waiters"}
Retries(o) == {t \in Threads : o[t] = "retry"}
Gone(p)    == {t \in Threads : p[t] \in {"exiting", "dead"}}
Held(x)    == UNION {{t} \X (1 .. x[t]) : t \in Threads}

\* A thread's call: it is in one while it is at the lock; whoever waits for a
\* release is counted; a thread that is to release has a reservation.
InCall(p, o, x, t) ==
    /\ p[t] \in LockPCs <=> o[t] # "none"
    /\ p[t] = "lightcv" => o[t] = "retry"
    /\ o[t] = "release" => x[t] > 0

\* ChargesAccounted, with what makes it inductive.
Account(p, o, l, x) ==
    /\ p \in [Threads -> PCs] /\ o \in [Threads -> Ops] /\ x \in [Threads -> Nat]
    /\ l \in [LimitFields -> Nat]
    /\ \A t \in Threads : InCall(p, o, x, t)
    /\ l.waiters = Cardinality(Retries(o)) /\ IsFiniteSet(Held(x))
    /\ l.current = Cardinality(Threads) + Cardinality(Held(x))
    /\ l.hint = l.current - Cardinality(Gone(p))
    /\ l.current <= l.peak /\ l.peak <= l.limit

\* The sets are finite, and Gone no larger than Threads.
LEMMA GoneFinite ==
  ASSUME NEW p, NEW o
  PROVE  /\ IsFiniteSet(Gone(p)) /\ Cardinality(Gone(p)) \in Nat /\ Cardinality(Gone(p)) <= Cardinality(Threads)
         /\ IsFiniteSet(Retries(o)) /\ Cardinality(Retries(o)) \in Nat /\ Cardinality(Threads) \in Nat
<1>1. Gone(p) \subseteq Threads /\ Retries(o) \subseteq Threads
  BY Zenon DEF Gone, Retries
<1> QED
  BY Zenon, <1>1, ThreadAssumption, FS_Subset, FS_CardinalityType

\* A thread more, or less, in a finite set.
LEMMA OneMore ==
  ASSUME NEW S, IsFiniteSet(S), NEW t, t \notin S
  PROVE  /\ IsFiniteSet(S \cup {t}) /\ Cardinality(S) \in Nat /\ Cardinality(S \cup {t}) = Cardinality(S) + 1
<1>1. IsFiniteSet(S \cup {t}) /\ Cardinality(S \cup {t}) = Cardinality(S) + 1
  BY Zenon, FS_AddElement
<1> QED
  BY Zenon, <1>1, FS_CardinalityType

\* A reservation more.
LEMMA HeldMore ==
  ASSUME NEW x \in [Threads -> Nat], IsFiniteSet(Held(x)), NEW t \in Threads,
         NEW y, y = [x EXCEPT ![t] = @ + 1]
  PROVE  /\ IsFiniteSet(Held(y)) /\ Cardinality(Held(x)) \in Nat
         /\ Cardinality(Held(y)) = Cardinality(Held(x)) + 1
<1>1. <<t, x[t] + 1>> \notin Held(x)
  BY DEF Held
<1>2. Held(y) = Held(x) \cup {<<t, x[t] + 1>>}
  <2>1. ASSUME NEW e \in Held(y) PROVE e \in Held(x) \cup {<<t, x[t] + 1>>}
    <3>1. PICK u \in Threads : e \in {u} \X (1 .. y[u])
      BY Zenon DEF Held
    <3>2. PICK n \in 1 .. y[u] : e = <<u, n>>
      BY <3>1
    <3>3. n \in 1 .. x[u] \/ (u = t /\ n = x[t] + 1)
      BY <3>2
    <3> QED
      BY <3>2, <3>3 DEF Held
  <2>2. ASSUME NEW e \in Held(x) \cup {<<t, x[t] + 1>>} PROVE e \in Held(y)
    <3>1. CASE e \in Held(x)
      <4>1. PICK u \in Threads : e \in {u} \X (1 .. x[u])
        BY Zenon, <3>1 DEF Held
      <4>2. (1 .. x[u]) \subseteq 1 .. y[u]
        OBVIOUS
      <4> QED
        BY <4>1, <4>2 DEF Held
    <3>2. CASE e = <<t, x[t] + 1>>
      <4>1. e \in {t} \X (1 .. y[t])
        BY <3>2
      <4> QED
        BY Zenon, <4>1 DEF Held
    <3> QED
      BY Zenon, <2>2, <3>1, <3>2
  <2> QED
    BY Zenon, <2>1, <2>2
<1> QED
  BY ONLY Zenon, IsFiniteSet(Held(x)), <1>1, <1>2, OneMore

\* A reservation less.
LEMMA HeldLess ==
  ASSUME NEW x \in [Threads -> Nat], IsFiniteSet(Held(x)), NEW t \in Threads, x[t] > 0,
         NEW y, y \in [Threads -> Int], y[t] = x[t] - 1, \A u \in Threads \ {t} : y[u] = x[u]
  PROVE  /\ y \in [Threads -> Nat] /\ IsFiniteSet(Held(y)) /\ Cardinality(Held(y)) \in Nat
         /\ Cardinality(Held(x)) = Cardinality(Held(y)) + 1
<1>1. y \in [Threads -> Nat] /\ x = [y EXCEPT ![t] = @ + 1]
  <2>1. y \in [Threads -> Nat] /\ y[t] + 1 = x[t] /\ \A u \in Threads \ {t} : y[u] = x[u]
    OBVIOUS
  <2>2. \A u \in Threads : x[u] = [y EXCEPT ![t] = @ + 1][u]
    BY ONLY Zenon, <2>1, t \in Threads
  <2> QED
    BY Zenon, <2>1, <2>2
<1>2. Held(y) \subseteq Held(x)
  <2>1. ASSUME NEW e \in Held(y) PROVE e \in Held(x)
    <3>1. PICK u \in Threads : e \in {u} \X (1 .. y[u])
      BY Zenon DEF Held
    <3>2. (1 .. y[u]) \subseteq 1 .. x[u]
      OBVIOUS
    <3> QED
      BY <3>1, <3>2 DEF Held
  <2> QED
    BY Zenon, <2>1
<1>3. IsFiniteSet(Held(y))
  BY Zenon, <1>2, FS_Subset
<1> QED
  BY ONLY Zenon, <1>1, <1>3, t \in Threads, HeldMore

\* The threads that retry, when one begins or ends its call.
LEMMA RetriesChange ==
  ASSUME NEW o, NEW a, NEW t \in Threads, \A u \in Threads \ {t} : a[u] = o[u]
  PROVE  Cardinality(Retries(a)) = Cardinality(Retries(o)) + (IF a[t] = "retry" THEN 1 ELSE 0)
                                                           - (IF o[t] = "retry" THEN 1 ELSE 0)
<1> DEFINE R == Retries(o) \ {t}
<1>1. IsFiniteSet(R) /\ t \notin R /\ IsFiniteSet(Retries(o)) /\ Cardinality(R) \in Nat
  BY Zenon, GoneFinite, FS_Subset, FS_CardinalityType
<1>2. Retries(o) = IF o[t] = "retry" THEN R \cup {t} ELSE R
  BY Zenon DEF Retries
<1>3. Retries(a) = IF a[t] = "retry" THEN R \cup {t} ELSE R
  BY Zenon DEF Retries
<1> HIDE DEF R
<1>4. Cardinality(R \cup {t}) = Cardinality(R) + 1
  BY Zenon, <1>1, OneMore
<1> QED
  BY ONLY <1>1, <1>2, <1>3, <1>4

\* A thread moves, and the account stays.
LEMMA AccountMove ==
  ASSUME NEW p, NEW o, NEW l, NEW x, Account(p, o, l, x), NEW t \in Threads,
         NEW q \in [Threads -> PCs], NEW a \in [Threads -> Ops],
         \A u \in Threads \ {t} : q[u] = p[u] /\ a[u] = o[u], InCall(q, a, x, t),
         a[t] = "retry" <=> o[t] = "retry", q[t] \in {"exiting", "dead"} <=> p[t] \in {"exiting", "dead"}
  PROVE  Account(q, a, l, x)
<1>1. Retries(a) = Retries(o) /\ Gone(q) = Gone(p)
  BY Zenon DEF Retries, Gone
<1>2. \A u \in Threads : InCall(q, a, x, u)
  BY DEF Account, InCall
<1> QED
  BY Zenon, <1>1, <1>2 DEF Account

\* A call that leaves the lock: the thread is in no call, and gone if it exits.
LEMMA LeaveCalls ==
  ASSUME Account(pc, op, lim, extra), NEW t \in Threads, pc[t] \in {"locked", "lockwait"}, NEW s, Leave(t, s),
         extra' \in [Threads -> Nat], \A u \in Threads \ {t} : extra'[u] = extra[u]
  PROVE  /\ pc' \in [Threads -> PCs] /\ op' \in [Threads -> Ops]
         /\ \A u \in Threads : InCall(pc', op', extra', u)
         /\ Cardinality(Retries(op')) = lim.waiters - (IF op[t] = "retry" THEN 1 ELSE 0)
         /\ Cardinality(Gone(pc')) = Cardinality(Gone(pc)) + (IF op[t] = "exit" THEN 1 ELSE 0)
<1>1. /\ pc' = [pc EXCEPT ![t] = IF op[t] = "exit" THEN "exiting" ELSE "user"]
      /\ op' = [op EXCEPT ![t] = "none"]
  BY Zenon DEF Leave
<1>2. pc \in [Threads -> PCs] /\ op \in [Threads -> Ops] /\ lim.waiters = Cardinality(Retries(op))
      /\ \A u \in Threads : InCall(pc, op, extra, u)
  BY Zenon DEF Account
<1>3. pc' \in [Threads -> PCs] /\ op' \in [Threads -> Ops]
  BY Zenon, <1>1, <1>2 DEF PCs, Ops
<1>4. \A u \in Threads : InCall(pc', op', extra', u)
  <2>1. InCall(pc', op', extra', t)
    BY Zenon, <1>1, <1>2 DEF InCall, LockPCs
  <2>2. ASSUME NEW u \in Threads \ {t} PROVE InCall(pc', op', extra', u)
    BY Zenon, <1>1, <1>2 DEF InCall
  <2> QED
    BY Zenon, <2>1, <2>2
<1>5. Cardinality(Retries(op')) = lim.waiters - (IF op[t] = "retry" THEN 1 ELSE 0)
  <2>1. op'[t] # "retry" /\ \A u \in Threads \ {t} : op'[u] = op[u]
    BY Zenon, <1>1, <1>2
  <2>2. Cardinality(Retries(op')) = Cardinality(Retries(op)) + (IF op'[t] = "retry" THEN 1 ELSE 0)
                                                             - (IF op[t] = "retry" THEN 1 ELSE 0)
    BY ONLY Zenon, <2>1, t \in Threads, RetriesChange
  <2> QED
    BY ONLY <1>2, <2>1, <2>2, GoneFinite
<1>6. Cardinality(Gone(pc')) = Cardinality(Gone(pc)) + (IF op[t] = "exit" THEN 1 ELSE 0)
  <2>1. t \notin Gone(pc) /\ Gone(pc') = IF op[t] = "exit" THEN Gone(pc) \cup {t} ELSE Gone(pc)
    BY Zenon, <1>1, <1>2 DEF Gone
  <2>2. IsFiniteSet(Gone(pc)) /\ Cardinality(Gone(pc)) \in Nat
    BY Zenon, GoneFinite
  <2>3. Cardinality(Gone(pc) \cup {t}) = Cardinality(Gone(pc)) + 1
    BY ONLY Zenon, <2>1, <2>2, OneMore
  <2> QED
    BY ONLY <2>1, <2>2, <2>3
<1> QED
  BY Zenon, <1>3, <1>4, <1>5, <1>6

\* The counts of the account, as numbers.
LEMMA AccountNumbers ==
  ASSUME NEW p, NEW o, NEW l, NEW x, Account(p, o, l, x)
  PROVE  /\ l.limit \in Nat /\ l.current \in Nat /\ l.hint \in Nat /\ l.peak \in Nat /\ l.waiters \in Nat
         /\ Cardinality(Threads) \in Nat /\ Cardinality(Held(x)) \in Nat /\ Cardinality(Gone(p)) \in Nat
<1>1. l \in [LimitFields -> Nat] /\ IsFiniteSet(Held(x))
  BY Zenon DEF Account
<1> QED
  BY Zenon, <1>1, GoneFinite, FS_CardinalityType DEF LimitFields

\* A set of values makes an account again.
LEMMA AccountAgain ==
  ASSUME NEW p \in [Threads -> PCs], NEW o \in [Threads -> Ops], NEW x \in [Threads -> Nat],
         NEW l, l = [f \in LimitFields |-> l[f]], l.limit \in Int, l.peak \in Int,
         \A t \in Threads : InCall(p, o, x, t), IsFiniteSet(Held(x)),
         l.waiters = Cardinality(Retries(o)), l.current = Cardinality(Threads) + Cardinality(Held(x)),
         l.hint = l.current - Cardinality(Gone(p)), l.current <= l.peak, l.peak <= l.limit
  PROVE  Account(p, o, l, x)
<1>1. /\ Cardinality(Threads) \in Nat /\ Cardinality(Held(x)) \in Nat /\ Cardinality(Retries(o)) \in Nat
      /\ Cardinality(Gone(p)) \in Nat /\ Cardinality(Gone(p)) <= Cardinality(Threads)
  BY Zenon, GoneFinite, FS_CardinalityType
<1>2. l.waiters \in Nat /\ l.current \in Nat /\ l.hint \in Nat /\ l.peak \in Nat /\ l.limit \in Nat
  BY <1>1
<1>3. \A f \in LimitFields : l[f] \in Nat
  BY Zenon, <1>2 DEF LimitFields
<1>4. l \in [LimitFields -> Nat]
  BY Zenon, <1>3
<1> QED
  BY Zenon, <1>4 DEF Account

\* Reserve: the values grow with the reservations, the waiters with the retries.
LEMMA ReserveAccounts ==
  ASSUME Account(pc, op, lim, extra), NEW t \in Threads, Reserve(t)
  PROVE  Account(pc', op', lim', extra')
<1> DEFINE base == IF op[t] = "retry" THEN lim.waiters - 1 ELSE lim.waiters
<1>1. pc[t] \in {"locked", "lockwait"} /\ op[t] \in {"reserve", "retry"}
  BY Zenon DEF Reserve, HasLightLock
<1>2. /\ pc \in [Threads -> PCs] /\ op \in [Threads -> Ops] /\ extra \in [Threads -> Nat]
      /\ lim \in [LimitFields -> Nat]
      /\ lim.waiters = Cardinality(Retries(op)) /\ IsFiniteSet(Held(extra))
      /\ lim.current = Cardinality(Threads) + Cardinality(Held(extra))
      /\ lim.hint = lim.current - Cardinality(Gone(pc)) /\ lim.current <= lim.peak /\ lim.peak <= lim.limit
      /\ \A u \in Threads : InCall(pc, op, extra, u)
  BY Zenon DEF Account
<1>3. /\ lim.limit \in Nat /\ lim.current \in Nat /\ lim.hint \in Nat /\ lim.peak \in Nat /\ lim.waiters \in Nat
      /\ Cardinality(Threads) \in Nat /\ Cardinality(Held(extra)) \in Nat /\ Cardinality(Gone(pc)) \in Nat
  BY Zenon, AccountNumbers
<1>4. base = lim.waiters - (IF op[t] = "retry" THEN 1 ELSE 0) /\ base \in Int
  BY <1>3
<1> HIDE DEF base
<1>5. CASE /\ Fits /\ Leave(t, k)
           /\ lim' = [lim EXCEPT !.current = @ + 1, !.hint = @ + 1, !.waiters = base,
                                 !.peak = IF lim.current + 1 > @ THEN lim.current + 1 ELSE @]
           /\ extra' = [extra EXCEPT ![t] = @ + 1]
  <2>1. extra' \in [Threads -> Nat] /\ \A u \in Threads \ {t} : extra'[u] = extra[u]
    BY <1>2, <1>5
  <2>2. /\ IsFiniteSet(Held(extra')) /\ Cardinality(Held(extra')) = Cardinality(Held(extra)) + 1
    BY ONLY Zenon, <1>2, <1>5, t \in Threads, HeldMore
  <2>3. /\ pc' \in [Threads -> PCs] /\ op' \in [Threads -> Ops]
        /\ \A u \in Threads : InCall(pc', op', extra', u)
        /\ Cardinality(Retries(op')) = lim.waiters - (IF op[t] = "retry" THEN 1 ELSE 0)
        /\ Cardinality(Gone(pc')) = Cardinality(Gone(pc)) + (IF op[t] = "exit" THEN 1 ELSE 0)
    BY ONLY Zenon, Account(pc, op, lim, extra), t \in Threads, <1>1, <1>5, <2>1, LeaveCalls
  <2>4. Cardinality(Retries(op')) = base /\ Cardinality(Gone(pc')) = Cardinality(Gone(pc))
    BY <1>1, <1>3, <1>4, <2>3
  <2>5. /\ lim' = [f \in LimitFields |-> lim'[f]]
        /\ lim'.waiters = base /\ lim'.current = lim.current + 1 /\ lim'.hint = lim.hint + 1
        /\ lim'.limit = lim.limit
        /\ lim'.peak = IF lim.current + 1 > lim.peak THEN lim.current + 1 ELSE lim.peak
    <3> DEFINE high == IF lim.current + 1 > lim.peak THEN lim.current + 1 ELSE lim.peak
    <3>1. high \in Int
      BY <1>3
    <3>2. lim \in [LimitFields -> Nat]
      BY Zenon, <1>2
    <3>3. lim' = [lim EXCEPT !.current = @ + 1, !.hint = @ + 1, !.waiters = base, !.peak = high]
      BY Zenon, <1>5
    <3> HIDE DEF high
    <3>4. /\ lim'.waiters = base /\ lim'.current = lim.current + 1 /\ lim'.hint = lim.hint + 1
          /\ lim'.limit = lim.limit /\ lim'.peak = high
      BY ONLY Zenon, <3>2, <3>3 DEF LimitFields
    <3>5. lim' = [f \in LimitFields |-> lim'[f]]
      BY ONLY Zenon, <3>2, <3>3
    <3> QED
      BY Zenon, <3>4, <3>5 DEF high
  <2>6. /\ lim'.current = Cardinality(Threads) + Cardinality(Held(extra'))
        /\ lim'.hint = lim'.current - Cardinality(Gone(pc'))
        /\ lim'.current <= lim'.peak /\ lim'.peak <= lim'.limit /\ lim'.waiters = Cardinality(Retries(op'))
        /\ lim'.limit \in Int /\ lim'.peak \in Int
    BY ONLY <1>2, <1>3, <1>5, <2>2, <2>4, <2>5 DEF Fits
  <2> QED
    BY ONLY Zenon, <2>1, <2>2, <2>3, <2>5, <2>6, AccountAgain
<1>6. CASE /\ lim' = [lim EXCEPT !.waiters = base + 1] /\ op' = [op EXCEPT ![t] = "retry"]
           /\ pc' = [pc EXCEPT ![t] = "lightcv"] /\ extra' = extra
  <2>1. pc' \in [Threads -> PCs] /\ op' \in [Threads -> Ops]
    BY ONLY Zenon, <1>2, <1>6 DEF PCs, Ops
  <2>2. \A u \in Threads : InCall(pc', op', extra', u)
    BY ONLY Zenon, <1>2, <1>6, t \in Threads DEF InCall, LockPCs
  <2>3. Cardinality(Retries(op')) = base + 1
    <3>1. op'[t] = "retry" /\ \A u \in Threads \ {t} : op'[u] = op[u]
      BY Zenon, <1>2, <1>6
    <3>2. Cardinality(Retries(op')) = Cardinality(Retries(op)) + (IF op'[t] = "retry" THEN 1 ELSE 0)
                                                               - (IF op[t] = "retry" THEN 1 ELSE 0)
      BY ONLY Zenon, <3>1, t \in Threads, RetriesChange
    <3> QED
      BY ONLY <1>2, <1>3, <1>4, <3>1, <3>2
  <2>4. Gone(pc') = Gone(pc)
    BY ONLY Zenon, <1>1, <1>2, <1>6, t \in Threads DEF Gone
  <2>5. /\ lim' = [f \in LimitFields |-> lim'[f]]
        /\ lim'.waiters = base + 1 /\ lim'.current = lim.current /\ lim'.hint = lim.hint
        /\ lim'.limit = lim.limit /\ lim'.peak = lim.peak
    <3>1. lim \in [LimitFields -> Nat] /\ lim' = [lim EXCEPT !.waiters = base + 1]
      BY Zenon, <1>2, <1>6
    <3>2. lim' = [f \in LimitFields |-> lim'[f]]
      BY ONLY Zenon, <3>1
    <3> QED
      BY ONLY Zenon, <3>1, <3>2 DEF LimitFields
  <2>6. /\ extra' \in [Threads -> Nat] /\ IsFiniteSet(Held(extra'))
        /\ lim'.current = Cardinality(Threads) + Cardinality(Held(extra'))
        /\ lim'.hint = lim'.current - Cardinality(Gone(pc'))
        /\ lim'.current <= lim'.peak /\ lim'.peak <= lim'.limit /\ lim'.waiters = Cardinality(Retries(op'))
        /\ lim'.limit \in Int /\ lim'.peak \in Int
    BY ONLY <1>2, <1>3, <1>6, <2>3, <2>4, <2>5
  <2> QED
    BY ONLY Zenon, <2>1, <2>2, <2>5, <2>6, AccountAgain
<1>7. CASE lim' = [lim EXCEPT !.waiters = base] /\ Leave(t, k) /\ extra' = extra
  <2>1. extra' \in [Threads -> Nat] /\ \A u \in Threads \ {t} : extra'[u] = extra[u]
    BY Zenon, <1>2, <1>7
  <2>2. /\ pc' \in [Threads -> PCs] /\ op' \in [Threads -> Ops]
        /\ \A u \in Threads : InCall(pc', op', extra', u)
        /\ Cardinality(Retries(op')) = lim.waiters - (IF op[t] = "retry" THEN 1 ELSE 0)
        /\ Cardinality(Gone(pc')) = Cardinality(Gone(pc)) + (IF op[t] = "exit" THEN 1 ELSE 0)
    BY ONLY Zenon, Account(pc, op, lim, extra), t \in Threads, <1>1, <1>7, <2>1, LeaveCalls
  <2>3. Cardinality(Retries(op')) = base /\ Cardinality(Gone(pc')) = Cardinality(Gone(pc))
    BY <1>1, <1>3, <1>4, <2>2
  <2>4. /\ lim' = [f \in LimitFields |-> lim'[f]]
        /\ lim'.waiters = base /\ lim'.current = lim.current /\ lim'.hint = lim.hint
        /\ lim'.limit = lim.limit /\ lim'.peak = lim.peak
    <3>1. lim \in [LimitFields -> Nat] /\ lim' = [lim EXCEPT !.waiters = base]
      BY Zenon, <1>2, <1>7
    <3>2. lim' = [f \in LimitFields |-> lim'[f]]
      BY ONLY Zenon, <3>1
    <3> QED
      BY ONLY Zenon, <3>1, <3>2 DEF LimitFields
  <2>5. /\ IsFiniteSet(Held(extra')) /\ lim'.current = Cardinality(Threads) + Cardinality(Held(extra'))
        /\ lim'.hint = lim'.current - Cardinality(Gone(pc'))
        /\ lim'.current <= lim'.peak /\ lim'.peak <= lim'.limit /\ lim'.waiters = Cardinality(Retries(op'))
        /\ lim'.limit \in Int /\ lim'.peak \in Int
    BY ONLY <1>2, <1>3, <1>7, <2>3, <2>4
  <2> QED
    BY ONLY Zenon, <2>1, <2>2, <2>4, <2>5, AccountAgain
<1> QED
  BY Zenon, <1>5, <1>6, <1>7 DEF Reserve, LightCvWait, base

\* Release: the values shrink with the reservations, the hints with the threads
\* that have not exited.
LEMMA ReleaseAccounts ==
  ASSUME Account(pc, op, lim, extra), NEW t \in Threads, Release(t)
  PROVE  /\ Account(pc', op', lim', extra') /\ lim'.waiters = lim.waiters
<1> DEFINE value == IF op[t] = "exit" THEN 0 ELSE 1
<1>1. pc[t] \in {"locked", "lockwait"} /\ op[t] \in {"release", "exit"}
  BY Zenon DEF Release, HasLightLock
<1>2. /\ pc \in [Threads -> PCs] /\ op \in [Threads -> Ops] /\ extra \in [Threads -> Nat]
      /\ lim \in [LimitFields -> Nat]
      /\ lim.waiters = Cardinality(Retries(op)) /\ IsFiniteSet(Held(extra))
      /\ lim.current = Cardinality(Threads) + Cardinality(Held(extra))
      /\ lim.hint = lim.current - Cardinality(Gone(pc)) /\ lim.current <= lim.peak /\ lim.peak <= lim.limit
      /\ \A u \in Threads : InCall(pc, op, extra, u)
  BY Zenon DEF Account
<1>3. /\ lim.limit \in Nat /\ lim.current \in Nat /\ lim.hint \in Nat /\ lim.peak \in Nat /\ lim.waiters \in Nat
      /\ Cardinality(Threads) \in Nat /\ Cardinality(Held(extra)) \in Nat /\ Cardinality(Gone(pc)) \in Nat
  BY Zenon, AccountNumbers
<1>4. PICK s : Leave(t, s)
  BY Zenon DEF Release
<1>5. /\ lim' = [lim EXCEPT !.current = @ - value, !.hint = @ - 1] /\ extra' = [extra EXCEPT ![t] = @ - value]
  BY Zenon DEF Release
<1>6. /\ extra' \in [Threads -> Nat] /\ (\A u \in Threads \ {t} : extra'[u] = extra[u])
      /\ IsFiniteSet(Held(extra')) /\ Cardinality(Held(extra')) = Cardinality(Held(extra)) - value
  <2>1. CASE op[t] = "exit"
    <3>1. extra' = extra
      BY <1>2, <1>5, <2>1
    <3> QED
      BY <1>2, <1>3, <2>1, <3>1
  <2>2. CASE op[t] = "release"
    <3>1. extra' = [extra EXCEPT ![t] = @ - 1] /\ extra[t] > 0
      BY Zenon, <1>2, <1>5, <2>2 DEF InCall
    <3>2. /\ extra' \in [Threads -> Nat] /\ IsFiniteSet(Held(extra')) /\ Cardinality(Held(extra')) \in Nat
          /\ Cardinality(Held(extra)) = Cardinality(Held(extra')) + 1
      <4>1. extra \in [Threads -> Nat]
        BY Zenon, <1>2
      <4>2. /\ extra' \in [Threads -> Int] /\ extra'[t] = extra[t] - 1
            /\ \A u \in Threads \ {t} : extra'[u] = extra[u]
        BY ONLY <3>1, <4>1, t \in Threads
      <4> QED
        <5>1. IsFiniteSet(Held(extra)) /\ extra[t] > 0
          BY Zenon, <1>2, <3>1
        <5> QED
          BY ONLY <4>1, <4>2, <5>1, t \in Threads, HeldLess
    <3> QED
      BY <1>2, <2>2, <3>1, <3>2
  <2> QED
    BY Zenon, <1>1, <2>1, <2>2
<1>7. /\ pc' \in [Threads -> PCs] /\ op' \in [Threads -> Ops]
      /\ \A u \in Threads : InCall(pc', op', extra', u)
      /\ Cardinality(Retries(op')) = lim.waiters - (IF op[t] = "retry" THEN 1 ELSE 0)
      /\ Cardinality(Gone(pc')) = Cardinality(Gone(pc)) + (IF op[t] = "exit" THEN 1 ELSE 0)
  BY ONLY Zenon, Account(pc, op, lim, extra), t \in Threads, <1>1, <1>4, <1>6, LeaveCalls
<1>8. Cardinality(Retries(op')) = lim.waiters /\ Cardinality(Gone(pc')) = Cardinality(Gone(pc)) + 1 - value
  BY <1>1, <1>3, <1>7
<1>9. value \in {0, 1}
  BY Zenon
<1> HIDE DEF value
<1>10. /\ lim' = [f \in LimitFields |-> lim'[f]]
       /\ lim'.waiters = lim.waiters /\ lim'.current = lim.current - value /\ lim'.hint = lim.hint - 1
       /\ lim'.limit = lim.limit /\ lim'.peak = lim.peak
  <2>1. lim \in [LimitFields -> Nat] /\ lim' = [lim EXCEPT !.current = @ - value, !.hint = @ - 1]
    BY Zenon, <1>2, <1>5
  <2>2. lim' = [f \in LimitFields |-> lim'[f]]
    BY ONLY Zenon, <2>1
  <2> QED
    BY ONLY Zenon, <2>1, <2>2 DEF LimitFields
<1>11. /\ lim'.current = Cardinality(Threads) + Cardinality(Held(extra'))
       /\ lim'.hint = lim'.current - Cardinality(Gone(pc'))
       /\ lim'.current <= lim'.peak /\ lim'.peak <= lim'.limit /\ lim'.waiters = Cardinality(Retries(op'))
       /\ lim'.limit \in Int /\ lim'.peak \in Int
  BY ONLY <1>2, <1>3, <1>6, <1>8, <1>9, <1>10
<1>12. Account(pc', op', lim', extra')
  BY ONLY Zenon, <1>6, <1>7, <1>10, <1>11, AccountAgain
<1> QED
  BY Zenon, <1>10, <1>12

\* SetLimitValue keeps the current value within the limit.
LEMMA SetLimitAccounts ==
  ASSUME Account(pc, op, lim, extra), NEW t \in Threads, SetLimitValue(t)
  PROVE  Account(pc', op', lim', extra')
<1>1. pc[t] \in {"locked", "lockwait"} /\ op[t] = "limit" /\ Leave(t, k) /\ extra' = extra
  BY Zenon DEF SetLimitValue, HasLightLock
<1>2. /\ extra \in [Threads -> Nat] /\ IsFiniteSet(Held(extra)) /\ lim.waiters = Cardinality(Retries(op))
      /\ lim \in [LimitFields -> Nat]
      /\ lim.current = Cardinality(Threads) + Cardinality(Held(extra))
      /\ lim.hint = lim.current - Cardinality(Gone(pc)) /\ lim.current <= lim.peak /\ lim.peak <= lim.limit
  BY Zenon DEF Account
<1>3. /\ lim.limit \in Nat /\ lim.current \in Nat /\ lim.hint \in Nat /\ lim.peak \in Nat /\ lim.waiters \in Nat
      /\ Cardinality(Threads) \in Nat /\ Cardinality(Held(extra)) \in Nat /\ Cardinality(Gone(pc)) \in Nat
  BY Zenon, AccountNumbers
<1>4. PICK n \in Limits : lim' = IF lim.current <= n THEN [lim EXCEPT !.limit = n, !.peak = lim.current] ELSE lim
  BY Zenon DEF SetLimitValue
<1>5. n \in Nat
  BY Zenon, LimitsAssumption
<1>6. /\ pc' \in [Threads -> PCs] /\ op' \in [Threads -> Ops]
      /\ \A u \in Threads : InCall(pc', op', extra', u)
      /\ Cardinality(Retries(op')) = lim.waiters - (IF op[t] = "retry" THEN 1 ELSE 0)
      /\ Cardinality(Gone(pc')) = Cardinality(Gone(pc)) + (IF op[t] = "exit" THEN 1 ELSE 0)
  <2>1. extra' \in [Threads -> Nat] /\ \A u \in Threads \ {t} : extra'[u] = extra[u]
    BY Zenon, <1>1, <1>2
  <2> QED
    BY ONLY Zenon, Account(pc, op, lim, extra), t \in Threads, <1>1, <2>1, LeaveCalls
<1>7. Cardinality(Retries(op')) = lim.waiters /\ Cardinality(Gone(pc')) = Cardinality(Gone(pc))
  BY <1>1, <1>3, <1>6
<1>8. /\ lim' = [f \in LimitFields |-> lim'[f]]
      /\ lim'.waiters = lim.waiters /\ lim'.current = lim.current /\ lim'.hint = lim.hint
      /\ lim'.current <= lim'.peak /\ lim'.peak <= lim'.limit /\ lim'.limit \in Int /\ lim'.peak \in Int
  <2>1. CASE lim.current <= n
    <3>1. lim' = [lim EXCEPT !.limit = n, !.peak = lim.current]
      BY Zenon, <1>4, <2>1
    <3>2. lim \in [LimitFields -> Nat]
      BY Zenon, <1>2
    <3>3. /\ lim'.waiters = lim.waiters /\ lim'.current = lim.current /\ lim'.hint = lim.hint
          /\ lim'.limit = n /\ lim'.peak = lim.current
      BY ONLY Zenon, <3>1, <3>2 DEF LimitFields
    <3>4. lim' = [f \in LimitFields |-> lim'[f]]
      BY ONLY Zenon, <3>1, <3>2
    <3> QED
      BY ONLY <1>3, <1>5, <2>1, <3>3, <3>4
  <2>2. CASE ~(lim.current <= n)
    <3>1. lim' = lim
      BY Zenon, <1>4, <2>2
    <3>2. lim' = [f \in LimitFields |-> lim'[f]]
      BY ONLY Zenon, <1>2, <3>1
    <3> QED
      BY ONLY <1>2, <1>3, <3>1, <3>2
  <2> QED
    BY Zenon, <2>1, <2>2
<1>9. /\ extra' \in [Threads -> Nat] /\ IsFiniteSet(Held(extra'))
      /\ lim'.current = Cardinality(Threads) + Cardinality(Held(extra'))
      /\ lim'.hint = lim'.current - Cardinality(Gone(pc')) /\ lim'.waiters = Cardinality(Retries(op'))
  BY ONLY Zenon, <1>1, <1>2, <1>7, <1>8
<1> QED
  BY ONLY Zenon, <1>6, <1>8, <1>9, AccountAgain

\* A step that is none of KResourceLimit's: its thread stays at the lock, or away.
LEMMA AccountStays ==
  ASSUME Account(pc, op, lim, extra), NEW t \in Threads, pc' \in [Threads -> PCs],
         \A u \in Threads \ {t} : pc'[u] = pc[u], pc'[t] # "lightcv",
         pc'[t] \in LockPCs <=> pc[t] \in LockPCs,
         pc'[t] \in {"exiting", "dead"} <=> pc[t] \in {"exiting", "dead"},
         op' = op, lim' = lim, extra' = extra
  PROVE  Account(pc', op', lim', extra')
<1>1. op \in [Threads -> Ops] /\ InCall(pc, op, extra, t)
  BY Zenon DEF Account
<1>2. InCall(pc', op, extra, t)
  BY Zenon, <1>1 DEF InCall
<1>3. Account(pc', op, lim, extra)
  BY Zenon, <1>1, <1>2, AccountMove
<1> QED
  BY Zenon, <1>3

\* Where a thread is that is in no call of the resource limit and has not exited.
FreePCs == {"user", "arbitrate", "relock", "address", "arbunlock", "condvar", "doomed"}

\* The mutex's calls leave the account alone.
LEMMA MutexAccounts ==
  ASSUME Account(pc, op, lim, extra), NEW t \in Threads, MutexCall(t), UNCHANGED lvars
  PROVE  Account(pc', op', lim', extra')
<1>1. pc[t] \in FreePCs /\ (pc' = pc \/ \E w \in FreePCs : pc' = [pc EXCEPT ![t] = w])
  <2>1. CASE MutexLock(t)
    BY Zenon, <2>1 DEF MutexLock, FreePCs
  <2>2. CASE WaitForAddress(t)
    BY Zenon, <2>2 DEF WaitForAddress, FreePCs
  <2>3. CASE MutexUnlock(t)
    BY Zenon, <2>3 DEF MutexUnlock, FreePCs
  <2>4. CASE SignalToAddress(t)
    BY Zenon, <2>4 DEF SignalToAddress, FreePCs
  <2>5. CASE WaitReturns(t)
    <3>1. pc[t] \in FreePCs
      BY Zenon, <2>5 DEF WaitReturns, FreePCs
    <3> DEFINE w == CASE k.result[t] = "Success" -> "user" [] k.result[t] = "TimedOut" -> "relock" [] OTHER -> "doomed"
    <3>2. pc' = [pc EXCEPT ![t] = w]
      BY Zenon, <2>5 DEF WaitReturns
    <3>3. w \in FreePCs
      BY Zenon DEF FreePCs
    <3> QED
      BY Zenon, <3>1, <3>2, <3>3
  <2>6. ASSUME NEW c, NEW w, Wait(t, c, w)
        PROVE  pc[t] \in FreePCs /\ (pc' = pc \/ \E v \in FreePCs : pc' = [pc EXCEPT ![t] = v])
    BY Zenon, <2>6 DEF Wait, FreePCs
  <2>7. ASSUME NEW c, NEW n, Signal(t, c, n)
        PROVE  pc[t] \in FreePCs /\ pc' = pc
    <3>1. pc[t] = "user" /\ pc' = pc
      BY Zenon, <2>7 DEF Signal
    <3> QED
      BY Zenon, <3>1 DEF FreePCs
  <2> QED
    BY Zenon, <2>1, <2>2, <2>3, <2>4, <2>5, <2>6, <2>7 DEF MutexCall
<1>2. op' = op /\ lim' = lim /\ extra' = extra
  BY Zenon DEF lvars
<1>3. pc \in [Threads -> PCs]
  BY Zenon DEF Account
<1>4. CASE pc' = pc
  BY Zenon, <1>2, <1>4
<1>5. ASSUME NEW w \in FreePCs, pc' = [pc EXCEPT ![t] = w] PROVE Account(pc', op', lim', extra')
  <2>1. /\ pc' \in [Threads -> PCs] /\ pc'[t] = w /\ \A u \in Threads \ {t} : pc'[u] = pc[u]
    BY Zenon, <1>3, <1>5 DEF FreePCs, PCs
  <2>2. /\ pc[t] \notin LockPCs /\ w \notin LockPCs /\ w # "lightcv"
        /\ pc[t] \notin {"exiting", "dead"} /\ w \notin {"exiting", "dead"}
    BY Zenon, <1>1 DEF FreePCs, LockPCs
  <2> QED
    BY Zenon, <1>2, <2>1, <2>2, AccountStays
<1> QED
  BY Zenon, <1>1, <1>4, <1>5

\* A thread enters a call.
LEMMA CallAccounts ==
  ASSUME Account(pc, op, lim, extra), NEW t \in Threads, NEW o \in {"reserve", "release", "limit", "exit"},
         Call(t, o), o = "release" => extra[t] > 0, pc[t] \in FreePCs
  PROVE  Account(pc', op', lim', extra')
<1>1. /\ op' = [op EXCEPT ![t] = o] /\ pc' = [pc EXCEPT ![t] = "lock"] /\ lim' = lim /\ extra' = extra
  BY Zenon DEF Call
<1>2. pc \in [Threads -> PCs] /\ op \in [Threads -> Ops] /\ InCall(pc, op, extra, t)
  BY Zenon DEF Account
<1>3. /\ pc' \in [Threads -> PCs] /\ op' \in [Threads -> Ops] /\ pc'[t] = "lock" /\ op'[t] = o
      /\ \A u \in Threads \ {t} : pc'[u] = pc[u] /\ op'[u] = op[u]
  BY Zenon, <1>1, <1>2 DEF PCs, Ops
<1>4. op[t] = "none" /\ pc[t] \notin {"exiting", "dead"}
  BY Zenon, <1>2 DEF InCall, FreePCs, LockPCs
<1>5. InCall(pc', op', extra, t) /\ (op'[t] = "retry" <=> op[t] = "retry")
  BY Zenon, <1>3, <1>4 DEF InCall, LockPCs
<1>6. pc'[t] \in {"exiting", "dead"} <=> pc[t] \in {"exiting", "dead"}
  BY Zenon, <1>3, <1>4
<1>7. Account(pc', op', lim, extra)
  BY ONLY Account(pc, op, lim, extra), t \in Threads, <1>3, <1>5, <1>6, AccountMove
<1> QED
  BY Zenon, <1>1, <1>7

\* The way into the lock, and the end of a thread that has released its hint.
LEMMA LockAccounts ==
  ASSUME Account(pc, op, lim, extra), NEW t \in Threads, op' = op, lim' = lim, extra' = extra,
         \/ LockCas(t) \/ LockSlowPath(t)
         \/ pc[t] = "exiting" /\ pc' = [pc EXCEPT ![t] = "dead"]
  PROVE  Account(pc', op', lim', extra')
<1>1. \/ /\ pc[t] \in {"lock", "lightcv", "lockslow"}
         /\ \E w \in {"lock", "locked", "lockslow", "lockwait"} : pc' = [pc EXCEPT ![t] = w]
      \/ pc[t] = "exiting" /\ pc' = [pc EXCEPT ![t] = "dead"]
  BY Zenon DEF LockCas, LockSlowPath
<1>2. pc \in [Threads -> PCs]
  BY Zenon DEF Account
<1>3. /\ pc' \in [Threads -> PCs] /\ (\A u \in Threads \ {t} : pc'[u] = pc[u]) /\ pc'[t] # "lightcv"
      /\ pc'[t] \in LockPCs <=> pc[t] \in LockPCs
      /\ pc'[t] \in {"exiting", "dead"} <=> pc[t] \in {"exiting", "dead"}
  BY <1>1, <1>2 DEF PCs, LockPCs
<1> QED
  BY Zenon, <1>3, AccountStays

\* Only Release lowers the current value.
LEMMA NotLower ==
  ASSUME Account(pc, op, lim, extra), NEW t \in Threads, Reserve(t) \/ SetLimitValue(t)
  PROVE  ~(lim'.current < lim.current)
<1>1. lim \in [LimitFields -> Nat]
  BY Zenon DEF Account
<1>2. lim.current \in Nat
  BY Zenon, <1>1 DEF LimitFields
<1>3. \/ \E b, h : lim' = [lim EXCEPT !.current = @ + 1, !.hint = @ + 1, !.waiters = b, !.peak = h]
      \/ \E b : lim' = [lim EXCEPT !.waiters = b]
      \/ \E l : lim' = [lim EXCEPT !.limit = l, !.peak = lim.current]
      \/ lim' = lim
  <2>1. CASE Reserve(t)
    BY Zenon, <2>1 DEF Reserve
  <2>2. CASE SetLimitValue(t)
    <3>1. PICK n : lim' = IF lim.current <= n THEN [lim EXCEPT !.limit = n, !.peak = lim.current] ELSE lim
      BY Zenon, <2>2 DEF SetLimitValue
    <3>2. CASE lim.current <= n
      BY Zenon, <3>1, <3>2
    <3>3. CASE ~(lim.current <= n)
      BY Zenon, <3>1, <3>3
    <3> QED
      BY Zenon, <3>2, <3>3
  <2> QED
    BY Zenon, <2>1, <2>2
<1>4. lim'.current \in {lim.current, lim.current + 1}
  <2>1. ASSUME NEW b, NEW h, lim' = [lim EXCEPT !.current = @ + 1, !.hint = @ + 1, !.waiters = b, !.peak = h]
        PROVE  lim'.current = lim.current + 1
    BY ONLY Zenon, <1>1, <2>1 DEF LimitFields
  <2>2. ASSUME NEW b, lim' = [lim EXCEPT !.waiters = b]
        PROVE  lim'.current = lim.current
    BY ONLY Zenon, <1>1, <2>2 DEF LimitFields
  <2>3. ASSUME NEW l, lim' = [lim EXCEPT !.limit = l, !.peak = lim.current]
        PROVE  lim'.current = lim.current
    BY ONLY Zenon, <1>1, <2>3 DEF LimitFields
  <2> QED
    BY ONLY Zenon, <1>3, <2>1, <2>2, <2>3
<1> QED
  BY ONLY <1>2, <1>4

\* When the process starts, its threads are charged and nothing else is.
LEMMA AccountStarts ==
  ASSUME LimitInit, pc = [t \in Threads |-> "user"]
  PROVE  Account(pc, op, lim, extra)
<1>1. Held(extra) = {}
  BY DEF LimitInit, Held
<1>2. Gone(pc) = {} /\ Retries(op) = {}
  BY Zenon DEF LimitInit, Gone, Retries
<1>3. IsFiniteSet({}) /\ Cardinality({}) = 0 /\ Cardinality(Threads) \in Nat
  BY Zenon, FS_EmptySet, GoneFinite
<1>4. Max(Limits) \in Limits
  BY Zenon, LimitsAssumption DEF Max
<1>5. Max(Limits) \in Nat /\ Cardinality(Threads) <= Max(Limits)
  BY Zenon, <1>4, LimitsAssumption
<1> DEFINE l == Max(Limits)
           c == Cardinality(Threads)
<1>6. lim = [limit |-> l, current |-> c, hint |-> c, peak |-> c, waiters |-> 0]
  BY Zenon DEF LimitInit
<1>7. l \in Nat /\ c \in Nat /\ c <= l
  BY Zenon, <1>3, <1>5
<1> HIDE DEF l, c
<1>8. lim.limit = l /\ lim.current = c /\ lim.hint = c /\ lim.peak = c /\ lim.waiters = 0
  BY Zenon, <1>6
<1>9. lim = [f \in LimitFields |-> lim[f]]
  BY Zenon, <1>6 DEF LimitFields
<1>10. /\ pc \in [Threads -> PCs] /\ op \in [Threads -> Ops] /\ extra \in [Threads -> Nat]
       /\ \A t \in Threads : InCall(pc, op, extra, t)
  BY Zenon DEF LimitInit, PCs, Ops, InCall, LockPCs
<1>11. /\ IsFiniteSet(Held(extra)) /\ lim.waiters = Cardinality(Retries(op))
       /\ lim.current = Cardinality(Threads) + Cardinality(Held(extra))
       /\ lim.hint = lim.current - Cardinality(Gone(pc))
       /\ lim.current <= lim.peak /\ lim.peak <= lim.limit /\ lim.limit \in Int /\ lim.peak \in Int
  <2>1. IsFiniteSet(Held(extra)) /\ lim.waiters = Cardinality(Retries(op))
    BY Zenon, <1>1, <1>2, <1>3, <1>8
  <2>2. c + 0 = c /\ c - 0 = c /\ c <= c /\ c \in Int /\ l \in Int
    BY ONLY <1>7
  <2>3. Cardinality(Held(extra)) = 0 /\ Cardinality(Gone(pc)) = 0
    BY Zenon, <1>1, <1>2, <1>3
  <2> QED
    BY Zenon, <1>7, <1>8, <2>1, <2>2, <2>3 DEF c
<1> QED
  BY ONLY Zenon, <1>9, <1>10, <1>11, AccountAgain
=============================================================================
