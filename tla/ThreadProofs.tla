---------------------------- MODULE ThreadProofs ----------------------------
(***************************************************************************)
(* The proofs of ThreadFacts.  The loops of KThread are recursive          *)
(* functions; what they compute is proved by induction over the turns,     *)
(* from the least turn that would be wrong.                                *)
(***************************************************************************)
EXTENDS ThreadFacts, FiniteSetTheorems, WellFoundedInduction, TLAPS
-----------------------------------------------------------------------------
(* Induction.                                                              *)

\* A set of numbers has a least one.
LEMMA Least ==
  ASSUME NEW S \in SUBSET Nat, S # {}
  PROVE  \E n \in S : \A m \in S : n <= m
<1> DEFINE R == {p \in Nat \X Nat : p[1] < p[2]}
<1>1. IsWellFoundedOn(R, Nat)
  BY Zenon, NatLessThanWellFounded DEF OpToRel
<1>2. \A x, y \in Nat : x < y => <<x, y>> \in R
  BY Zenon
<1> HIDE DEF R
<1>3. PICK n \in S : \A m \in S : ~(<<m, n>> \in R)
  BY Zenon, <1>1, WFMin
<1>4. ASSUME NEW m \in S PROVE n <= m
  <2>1. n \in Nat /\ m \in Nat
    BY Zenon
  <2>2. ~(m < n)
    BY Zenon, <1>2, <1>3, <2>1
  <2> QED
    BY <2>1, <2>2
<1> QED
  BY Zenon, <1>4

\* What holds of the first turn of a loop, and of a turn if of the one before,
\* holds of every turn.
LEMMA ClimbHolds ==
  ASSUME NEW n \in Nat, NEW S, 0 \in S, \A i \in 0 .. n - 1 : i \in S => i + 1 \in S
  PROVE  \A i \in 0 .. n : i \in S
<1> DEFINE B == {i \in 0 .. n : i \notin S}
<1> SUFFICES ASSUME B # {} PROVE FALSE
  BY Zenon
<1>1. PICK m \in B : \A j \in B : m <= j
  <2>1. B \in SUBSET Nat
    OBVIOUS
  <2> HIDE DEF B
  <2> QED
    BY Zenon, <2>1, Least
<1>2. m # 0 /\ m - 1 \in 0 .. n - 1 /\ m - 1 \notin B
  BY <1>1
<1> QED
  BY <1>1, <1>2
-----------------------------------------------------------------------------
(* The order of insertion.                                                 *)

\* Taking a thread out leaves the order of the others.
LEMMA RemoveLinearHolds ==
  ASSUME NEW o, Linear(o), NEW t \in Threads
  PROVE  /\ Linear(Remove(o, t)) /\ Linked(Remove(o, t)) = Linked(o) \ {t}
         /\ \A u, v \in Threads \ {t} : <<u, v>> \in Remove(o, t) <=> <<u, v>> \in o
<1> DEFINE r == Remove(o, t)
<1>1. \A u, v \in Threads : <<u, v>> \in r <=> <<u, v>> \in o /\ u # t /\ v # t
  BY Zenon DEF Remove
<1>2. r \in SUBSET (Threads \X Threads)
  BY Zenon DEF Remove, Linear
<1> HIDE DEF r
<1>3. Linked(r) = Linked(o) \ {t}
  BY Zenon, <1>1 DEF Linked
<1>4. Linear(r)
  BY <1>1, <1>2, <1>3 DEF Linear
<1> QED
  BY Zenon, <1>1, <1>3, <1>4 DEF r

\* A thread that is put in comes after all others.
LEMMA InsertedLinearHolds ==
  ASSUME NEW o, Linear(o), NEW t \in Threads
  PROVE  /\ Linear(Inserted(o, t)) /\ Linked(Inserted(o, t)) = Linked(o) \cup {t}
         /\ \A u, v \in Threads \ {t} : <<u, v>> \in Inserted(o, t) <=> <<u, v>> \in o
<1> DEFINE r == Inserted(o, t)
<1>1. Linked(o) \subseteq Threads
  BY Zenon DEF Linked
<1>2. \A u, v \in Threads : <<u, v>> \in r <=> \/ <<u, v>> \in o /\ u # t /\ v # t
                                               \/ v = t /\ u \in Linked(o) \cup {t}
  BY Zenon DEF Inserted, Remove
<1>3. r \in SUBSET (Threads \X Threads)
  BY <1>1 DEF Inserted, Remove, Linear
<1> HIDE DEF r
<1>4. Linked(r) = Linked(o) \cup {t}
  BY Zenon, <1>1, <1>2 DEF Linked
<1>5. Linear(r)
  BY <1>1, <1>2, <1>3, <1>4 DEF Linear
<1> QED
  BY Zenon, <1>2, <1>4, <1>5 DEF r

\* The front of a tree, which GetHighestPriorityWaiter and nfind_key return.
LEMMA FrontHolds ==
  ASSUME NEW s, s.prio \in [Threads -> Nat], Linear(s.order), NEW S, S \subseteq Linked(s.order), S # {}
  PROVE  /\ FrontOf(s, S) \in S
         /\ \A u \in S \ {FrontOf(s, S)} : InFront(s, FrontOf(s, S), u)
         /\ \A u \in S : s.prio[FrontOf(s, S)] <= s.prio[u]
<1> DEFINE front == {t \in S : \A u \in S \ {t} : InFront(s, t, u)}
<1>0. S \subseteq Threads
  BY Zenon DEF Linked
<1>1. front # {}
  <2> DEFINE P == {s.prio[t] : t \in S}
  <2>1. P \in SUBSET Nat /\ P # {}
    BY Zenon, <1>0
  <2> HIDE DEF P
  <2>2. PICK p \in P : \A q \in P : p <= q
    BY Zenon, <2>1, Least
  <2> DEFINE T == {t \in S : s.prio[t] = p}
             Before(t) == {u \in Threads : <<u, t>> \in s.order}
             N == {Cardinality(Before(t)) : t \in T}
  <2>3. T # {} /\ T \subseteq Threads
    BY Zenon, <1>0, <2>2 DEF P
  <2>4. \A t : IsFiniteSet(Before(t)) /\ Cardinality(Before(t)) \in Nat
    BY Zenon, ThreadAssumption, FS_Subset, FS_CardinalityType
  <2>5. N \in SUBSET Nat /\ N # {}
    BY Zenon, <2>3, <2>4
  <2> HIDE DEF N
  <2>6. PICK n \in N : \A m \in N : n <= m
    BY Zenon, <2>5, Least
  <2>7. PICK t \in T : n = Cardinality(Before(t))
    BY Zenon DEF N
  <2>8. ASSUME NEW u \in S \ {t} PROVE InFront(s, t, u)
    <3>1. s.prio[t] = p /\ s.prio[t] \in Nat /\ s.prio[u] \in Nat /\ p <= s.prio[u]
      BY Zenon, <1>0, <2>2, <2>3 DEF P
    <3>2. CASE s.prio[u] # p
      BY <3>1, <3>2 DEF InFront
    <3>3. CASE s.prio[u] = p /\ <<t, u>> \notin s.order
      <4>1. t \in Threads /\ u \in Threads /\ u \in T /\ t # u
        BY Zenon, <1>0, <2>3, <2>8, <3>3
      <4>2. <<u, t>> \in s.order /\ <<t, t>> \in s.order
        BY Zenon, <3>3, <4>1 DEF Linear, Linked
      <4>3. Before(u) \subseteq Before(t) /\ t \in Before(t) /\ t \notin Before(u)
        BY Zenon, <3>3, <4>1, <4>2 DEF Linear
      <4>4. Cardinality(Before(u)) < Cardinality(Before(t))
        <5> HIDE DEF Before
        <5>1. /\ Cardinality(Before(u)) <= Cardinality(Before(t))
              /\ Cardinality(Before(t)) = Cardinality(Before(u)) => Before(t) = Before(u)
          BY Zenon, <2>4, <4>3, FS_Subset
        <5> QED
          BY <2>4, <4>3, <5>1
      <4>5. Cardinality(Before(u)) \in N
        BY Zenon, <4>1 DEF N
      <4>6. n <= Cardinality(Before(u))
        BY Zenon, <2>6, <4>5
      <4> HIDE DEF Before
      <4> QED
        BY <2>4, <2>7, <4>4, <4>6
    <3> QED
      BY Zenon, <3>1, <3>2, <3>3 DEF InFront
  <2> QED
    BY Zenon, <2>8
<1>2. FrontOf(s, S) = CHOOSE t \in S : front # {} => t \in front
  BY Zenon DEF FrontOf
<1>3. FrontOf(s, S) \in front
  BY Zenon, <1>1, <1>2
<1>4. ASSUME NEW u \in S PROVE s.prio[FrontOf(s, S)] <= s.prio[u]
  <2>1. FrontOf(s, S) \in S /\ (u # FrontOf(s, S) => InFront(s, FrontOf(s, S), u))
    BY Zenon, <1>3
  <2> HIDE DEF front
  <2>2. s.prio[FrontOf(s, S)] \in Nat /\ s.prio[u] \in Nat
    BY Zenon, <1>0, <2>1
  <2> QED
    BY <2>1, <2>2 DEF InFront
<1> QED
  BY Zenon, <1>3, <1>4
-----------------------------------------------------------------------------
(* Priority inheritance.                                                   *)

\* Inherited is the best priority, and the only one.
LEMMA InheritedIs ==
  ASSUME NEW s, s.base \in [Threads -> Nat], s.prio \in [Threads -> Nat], NEW t \in Threads
  PROVE  \A n : Best(s, t, n) <=> n = Inherited(s, t)
<1> DEFINE P == {s.base[t]} \cup {s.prio[u] : u \in WaitersOf(s, t)}
<1>1. P \in SUBSET Nat /\ P # {}
  BY Zenon DEF WaitersOf
<1>2. \A n : Best(s, t, n) <=> n \in P /\ \A m \in P : n <= m
  BY Zenon, <1>1 DEF Best, WaitersOf
<1>3. Inherited(s, t) = CHOOSE n \in P : \A m \in P : n <= m
  BY Zenon DEF Inherited, Min
<1> HIDE DEF P
<1>4. PICK n \in P : \A m \in P : n <= m
  BY Zenon, <1>1, Least
<1>5. \A m \in P : (\A q \in P : m <= q) => m = n
  BY <1>1, <1>4
<1>6. Inherited(s, t) \in P /\ \A m \in P : Inherited(s, t) <= m
  BY Zenon, <1>3, <1>4
<1> QED
  BY Zenon, <1>2, <1>4, <1>5, <1>6

\* The threads whose priority RestorePriority(s, t) may change.
Above(s, t) == {t, s.owner[t], Up(s, s.owner[t])}

\* r is s with other priorities for those threads, and their places in the order.
Restored(r, s, t) ==
    /\ Same(r, s, {"prio", "order"})
    /\ r.prio \in [Threads -> Nat] /\ Linear(r.order) /\ Linked(s.order) \subseteq Linked(r.order)
    /\ \A u \in Threads \ Above(s, t) : r.prio[u] = s.prio[u]
    /\ \A u, v \in Threads \ Above(s, t) : <<u, v>> \in r.order <=> <<u, v>> \in s.order

\* What a turn of RestorePriority's loop has reached: everybody's priority is right
\* but that of the thread it goes on with.
Climbing(q, s, t) ==
    /\ q = [s |-> q.s, at |-> q.at] /\ Restored(q.s, s, t)
    /\ q.at \in (Above(s, t) \cap Threads) \cup {Nobody}
    /\ \A u \in Threads \ {q.at} : Best(q.s, u, q.s.prio[u])

\* A turn of the loop.
LEMMA RestoreStepClimbs ==
  ASSUME NEW s, Typed(s), Chains(s), NEW t \in Threads, NEW q, Climbing(q, s, t),
         q.at # Nobody => Up(s, q.at) \in Above(s, t) \cup {Nobody}
  PROVE  Climbing(RestoreStep(q), s, t) /\ RestoreStep(q).at \in {Nobody, Up(s, q.at)}
<1> DEFINE c == q.s
           a == q.at
           n == Inherited(c, a)
<1>0. Nobody \notin Threads
  BY Zenon, ThreadAssumption
<1>1. /\ Restored(c, s, t) /\ c.prio \in [Threads -> Nat] /\ c.base = s.base /\ c.owner = s.owner
      /\ c.base \in [Threads -> Nat] /\ Rec(c) /\ Linear(c.order)
      /\ s.owner \in [Threads -> Threads \cup {Nobody}] /\ c.condvar = s.condvar
  BY Zenon DEF Climbing, Restored, Same, Fields, Typed
<1>2. CASE a = Nobody \/ n = c.prio[a]
  <2>1. RestoreStep(q) = [s |-> c, at |-> Nobody]
    BY Zenon, <1>2 DEF RestoreStep, Climbing
  <2>2. a \in Threads => Best(c, a, c.prio[a])
    BY Zenon, <1>0, <1>1, <1>2, InheritedIs
  <2> QED
    BY <2>1, <2>2 DEF Climbing
<1>3. CASE ~(a = Nobody \/ n = c.prio[a])
  <2> DEFINE ord == IF c.owner[a] # Nobody \/ c.condvar[a] # Nobody THEN Inserted(c.order, a) ELSE c.order
             d == [c EXCEPT !.prio[a] = n, !.order = ord]
  <2>1. a \in Threads /\ a \in Above(s, t)
    BY Zenon, <1>3 DEF Climbing
  <2>2. RestoreStep(q) = [s |-> d, at |-> c.owner[a]]
    BY Zenon, <1>3 DEF RestoreStep
  <2>3. Best(c, a, n) /\ n \in Nat
    <3>1. Best(c, a, n)
      BY Zenon, <1>1, <2>1, InheritedIs
    <3> QED
      BY Zenon, <3>1 DEF Best
  <2> HIDE DEF n
  <2>4. /\ Linear(ord) /\ Linked(c.order) \subseteq Linked(ord)
        /\ \A u, v \in Threads \ {a} : <<u, v>> \in ord <=> <<u, v>> \in c.order
    BY <1>1, <2>1, InsertedLinearHolds
  <2> HIDE DEF ord
  <2>5. /\ Same(d, s, {"prio", "order"}) /\ d.order = ord
        /\ d.prio = [c.prio EXCEPT ![a] = n] /\ d.owner = c.owner /\ d.base = c.base
    BY Zenon, <1>1 DEF Same, Rec, Fields, Restored
  <2> HIDE DEF d
  <2>6. d.prio \in [Threads -> Nat] /\ d.prio[a] = n /\ \A u \in Threads \ {a} : d.prio[u] = c.prio[u]
    BY Zenon, <1>1, <2>1, <2>3, <2>5
  <2>7. Restored(d, s, t)
    BY Zenon, <1>1, <2>1, <2>4, <2>5, <2>6 DEF Restored
  <2>8. ASSUME NEW u \in Threads \ {c.owner[a]} PROVE Best(d, u, d.prio[u])
    <3>0. s.owner[a] # a
      BY Zenon, <2>1 DEF Chains
    <3>1. \A v \in Threads : d.owner[v] = u => v # a /\ d.prio[v] = c.prio[v]
      BY Zenon, <2>5, <2>6, <2>8
    <3>2. \A v \in Threads : c.owner[v] = u => v # a
      BY Zenon, <2>8
    <3>3. Best(c, u, d.prio[u])
      BY Zenon, <2>3, <2>6 DEF Climbing
    <3> QED
      BY <2>5, <3>1, <3>2, <3>3 DEF Best
  <2>9. c.owner[a] = Up(s, a) /\ c.owner[a] \in (Above(s, t) \cap Threads) \cup {Nobody}
    BY Zenon, <1>0, <1>1, <2>1 DEF Up
  <2> QED
    BY <2>2, <2>7, <2>8, <2>9 DEF Climbing
<1> QED
  BY Zenon, <1>2, <1>3

\* The turns of RestorePriority's loop.
RestoreTurns(g, s, t, n) ==
    /\ Turns(g, n) /\ g[0] = [s |-> s, at |-> t]
    /\ \A i \in 1 .. n : g[i] = RestoreStep(g[i - 1])

\* The recursive function is well defined, for any number of turns.
LEMMA RestoreTurnsExist ==
  ASSUME NEW s, NEW t, NEW n \in Nat
  PROVE  \E g : RestoreTurns(g, s, t, n)
<1> DEFINE S == {i \in Nat : \E g : RestoreTurns(g, s, t, i)}
<1>1. 0 \in S
  <2>1. RestoreTurns([i \in 0 .. 0 |-> [s |-> s, at |-> t]], s, t, 0)
    BY DEF RestoreTurns, Turns
  <2> QED
    BY Zenon, <2>1
<1>2. ASSUME NEW i \in 0 .. n - 1, i \in S PROVE i + 1 \in S
  <2>1. PICK g : RestoreTurns(g, s, t, i)
    BY Zenon, <1>2
  <2> DEFINE h == [j \in 0 .. i + 1 |-> IF j = i + 1 THEN RestoreStep(g[i]) ELSE g[j]]
  <2>2. Turns(h, i + 1)
    BY Zenon DEF Turns
  <2>3. h[0] = g[0] /\ \A j \in 1 .. i + 1 : h[j] = IF j = i + 1 THEN RestoreStep(h[j - 1]) ELSE g[j]
    OBVIOUS
  <2>4. \A j \in 1 .. i : h[j - 1] = g[j - 1]
    OBVIOUS
  <2> HIDE DEF h
  <2>5. RestoreTurns(h, s, t, i + 1)
    BY <2>1, <2>2, <2>3, <2>4 DEF RestoreTurns
  <2> QED
    BY <2>5
<1> HIDE DEF S
<1>3. n \in S
  BY <1>1, <1>2, ClimbHolds
<1> QED
  BY Zenon, <1>3 DEF S

\* RestorePriority takes the priorities and the order of the last turn.
LEMMA RestoreTakesLast ==
  ASSUME NEW s, NEW t
  PROVE  \E g : LET n == 2 * Cardinality(Threads)
                IN  /\ n \in Nat /\ RestoreTurns(g, s, t, n)
                    /\ RestorePriority(s, t) = [s EXCEPT !.prio = g[n].s.prio, !.order = g[n].s.order]
<1> DEFINE n == 2 * Cardinality(Threads)
           F(h) == [i \in 0 .. n |-> IF i = 0 THEN [s |-> s, at |-> t] ELSE RestoreStep(h[i - 1])]
           turn == CHOOSE h : h = F(h)
<1>1. n \in Nat
  BY ThreadAssumption, FS_CardinalityType
<1>2. RestorePriority(s, t) = [s EXCEPT !.prio = turn[n].s.prio, !.order = turn[n].s.order]
  BY Zenon DEF RestorePriority
<1> HIDE DEF n
<1>3. PICK g : RestoreTurns(g, s, t, n)
  BY Zenon, <1>1, RestoreTurnsExist
<1>4. g = F(g)
  <2>1. \A i \in 0 .. n : g[i] = F(g)[i]
    BY <1>1, <1>3 DEF RestoreTurns
  <2> QED
    BY Zenon, <1>3, <2>1 DEF RestoreTurns, Turns
<1>5. turn = F(turn)
  BY Zenon, <1>4
<1> HIDE DEF turn
<1>6. RestoreTurns(turn, s, t, n)
  <2>1. Turns(turn, n)
    BY Zenon, <1>5 DEF Turns
  <2>2. \A i \in 0 .. n : turn[i] = F(turn)[i]
    BY Zenon, <1>5
  <2> QED
    BY <1>1, <2>1, <2>2 DEF RestoreTurns
<1> QED
  BY Zenon, <1>1, <1>2, <1>6 DEF n

\* RestorePriority makes everybody's priority right when only t's may be wrong:
\* the chain of owners ends before the turns do.
LEMMA RestoreIs ==
  ASSUME NEW s, Typed(s), Chains(s), Linear(s.order), NEW t \in Threads,
         \A u \in Threads \ {t} : Best(s, u, s.prio[u]), NEW r, r = RestorePriority(s, t)
  PROVE  Restored(r, s, t) /\ \A u \in Threads : Best(r, u, r.prio[u])
<1> DEFINE n == 2 * Cardinality(Threads)
           Reach(i) == IF i = 0 THEN {t}
                       ELSE IF i = 1 THEN {s.owner[t], Nobody}
                       ELSE IF i = 2 THEN {Up(s, s.owner[t]), Nobody} ELSE {Nobody}
<1>1. PICK g : /\ n \in Nat /\ RestoreTurns(g, s, t, n)
               /\ r = [s EXCEPT !.prio = g[n].s.prio, !.order = g[n].s.order]
  BY Zenon, RestoreTakesLast
<1>2. /\ Nobody \notin Threads /\ s.owner \in [Threads -> Threads \cup {Nobody}] /\ s.owner[t] # t
      /\ Up(s, Up(s, s.owner[t])) = Nobody /\ Rec(s) /\ s.prio \in [Threads -> Nat]
  BY Zenon, ThreadAssumption DEF Typed, Chains
<1>3. n >= 2 /\ (s.owner[t] # Nobody => n >= 3)
  <2>1. Cardinality({t}) = 1 /\ Cardinality({t}) <= Cardinality(Threads) /\ Cardinality(Threads) \in Nat
    <3>1. IsFiniteSet(Threads) /\ {t} \subseteq Threads
      BY Zenon, ThreadAssumption
    <3>2. Cardinality({t}) = 1
      BY ONLY Zenon, FS_Singleton
    <3> QED
      BY ONLY Zenon, <3>1, <3>2, FS_Subset, FS_CardinalityType
  <2>2. ASSUME s.owner[t] # Nobody PROVE Cardinality(Threads) # 1
    <3>1. Threads # {t}
      BY Zenon, <1>2, <2>2
    <3> QED
      BY Zenon, <2>1, <3>1, ThreadAssumption, FS_Subset
  <2> QED
    BY <2>1, <2>2
<1> HIDE DEF n
<1> DEFINE S == {i \in 0 .. n : Climbing(g[i], s, t) /\ g[i].at \in Reach(i)}
<1>4. 0 \in S
  <2>1. g[0] = [s |-> s, at |-> t]
    BY Zenon, <1>1 DEF RestoreTurns
  <2>2. Restored(s, s, t)
    BY Zenon, <1>2 DEF Restored, Same
  <2> QED
    BY <1>1, <2>1, <2>2 DEF Climbing, Above
<1>5. ASSUME NEW i \in 0 .. n - 1, i \in S PROVE i + 1 \in S
  <2>1. g[i + 1] = RestoreStep(g[i])
    <3>1. n \in Nat /\ \A j \in 1 .. n : g[j] = RestoreStep(g[j - 1])
      BY Zenon, <1>1 DEF RestoreTurns
    <3> HIDE DEF S
    <3> QED
      BY <3>1
  <2>2. Climbing(g[i], s, t) /\ g[i].at \in Reach(i)
    BY Zenon, <1>5
  <2>3. g[i].at # Nobody => Up(s, g[i].at) \in Above(s, t) \cup {Nobody}
    BY Zenon, <1>2, <2>2 DEF Above, Up
  <2>4. Climbing(g[i + 1], s, t) /\ g[i + 1].at \in {Nobody, Up(s, g[i].at)}
    BY Zenon, <2>1, <2>2, <2>3, RestoreStepClimbs
  <2>5. g[i + 1].at \in Reach(i + 1)
    BY <1>2, <2>2, <2>4 DEF Up
  <2> QED
    BY <1>1, <2>4, <2>5
<1>6. n \in S
  <2> HIDE DEF S
  <2> QED
    BY <1>1, <1>4, <1>5, ClimbHolds
<1>7. Climbing(g[n], s, t) /\ g[n].at = Nobody
  <2>1. s.owner[t] = Nobody => Up(s, s.owner[t]) = Nobody
    BY Zenon DEF Up
  <2> QED
    BY <1>1, <1>3, <1>6, <2>1
<1> DEFINE c == g[n].s
<1>8. Restored(c, s, t) /\ \A u \in Threads : Best(c, u, c.prio[u])
  BY Zenon, <1>2, <1>7 DEF Climbing
<1> HIDE DEF c
<1>9. /\ Same(r, s, {"prio", "order"}) /\ r.prio = c.prio /\ r.order = c.order
      /\ r.owner = s.owner /\ r.base = s.base /\ c.owner = s.owner /\ c.base = s.base
  BY Zenon, <1>1, <1>2, <1>8 DEF Restored, Same, Rec, Fields, c
<1> QED
  BY <1>8, <1>9 DEF Restored, Best
-----------------------------------------------------------------------------
(* The operations on the trees.                                            *)

\* Kernel waiters can be counted.
LEMMA KernelWaitersFinite ==
  ASSUME NEW s, NEW t
  PROVE  IsFiniteSet(KernelWaiters(s, t)) /\ Cardinality(KernelWaiters(s, t)) \in Nat
BY Zenon, ThreadAssumption, FS_Subset, FS_CardinalityType DEF KernelWaiters

\* Restoring the priority of the only thread whose priority may be wrong.
LEMMA TreesRestored ==
  ASSUME NEW s, Typed(s), Counts(s), Chains(s), Linear(s.order), \A t \in Threads : InTree(s, t),
         NEW o \in Threads, \A u \in Threads \ {o} : Best(s, u, s.prio[u]),
         NEW r, r = RestorePriority(s, o)
  PROVE  Trees(r) /\ Restored(r, s, o)
<1>1. Restored(r, s, o) /\ \A u \in Threads : Best(r, u, r.prio[u])
  BY Zenon, RestoreIs
<1>2. /\ Same(r, s, {"prio", "order"}) /\ r.owner = s.owner /\ r.key = s.key /\ r.condvar = s.condvar
      /\ r.kwaiters = s.kwaiters /\ Linear(r.order) /\ Linked(s.order) \subseteq Linked(r.order)
  BY Zenon, <1>1 DEF Restored, Same, Fields
<1>3. Typed(r)
  BY Zenon, <1>1 DEF Typed, Restored, Same, Fields, Linear
<1>4. Counts(r) /\ Chains(r)
  BY <1>2 DEF Counts, KernelWaiters, Chains, Up
<1>5. \A t \in Threads : InTree(r, t)
  BY Zenon, <1>2 DEF InTree
<1> QED
  BY Zenon, <1>1, <1>2, <1>3, <1>4, <1>5 DEF Trees

\* AddWaiterImpl: the order and the counts have the new waiter.
LEMMA AddWaiterImplIs ==
  ASSUME NEW s, Trees(s), NEW o \in Threads, NEW t \in Threads, MayJoin(s, o, t),
         NEW r, r = AddWaiterImpl(s, o, t)
  PROVE  /\ Joined(r, s, o, t) /\ r.prio = s.prio /\ OrderSame(r, s, {t})
         /\ Typed(r) /\ Counts(r) /\ Chains(r) /\ Linear(r.order)
         /\ \A u \in Threads : InTree(r, u)
<1>1. /\ Joined(r, s, o, t) /\ r.prio = s.prio /\ r.order = Inserted(s.order, t) /\ r.key = s.key
      /\ r.owner = [s.owner EXCEPT ![t] = o] /\ r.condvar = s.condvar /\ r.base = s.base
      /\ r.kwaiters = [s.kwaiters EXCEPT ![o] = @ + Count(s.key[t])]
  BY Zenon DEF AddWaiterImpl, Joined, Same, Rec, Fields, Trees, Typed
<1>2. /\ Linear(r.order) /\ Linked(r.order) = Linked(s.order) \cup {t} /\ OrderSame(r, s, {t})
  BY <1>1, InsertedLinearHolds DEF Trees, OrderSame
<1>3. Count(s.key[t]) \in Int
  BY DEF Count
<1>4. Typed(r)
  <2>1. Typed(s)
    BY Zenon DEF Trees
  <2>2. r.kwaiters \in [Threads -> Int] /\ r.owner \in [Threads -> Threads \cup {Nobody}]
    BY <1>1, <1>3, <2>1 DEF Typed
  <2> QED
    BY Zenon, <1>1, <1>2, <2>1, <2>2 DEF Joined, Typed, Same, Fields, Linear
<1>5. /\ s.owner \in [Threads -> Threads \cup {Nobody}] /\ Nobody \notin Threads
      /\ r.owner[t] = o /\ \A u \in Threads \ {t} : r.owner[u] = s.owner[u]
  BY Zenon, <1>1, ThreadAssumption DEF Trees, Typed
<1>6. Chains(r)
  BY <1>5 DEF Trees, Chains, Up, MayJoin
<1>7. \A u \in Threads : InTree(r, u)
  BY Zenon, <1>1, <1>2, <1>5 DEF Trees, InTree, MayJoin
<1>8. Counts(r)
  <2>1. \A u \in Threads \ {o} : KernelWaiters(r, u) = KernelWaiters(s, u)
    BY <1>1, <1>5 DEF KernelWaiters, MayJoin
  <2>2. KernelWaiters(r, o) = IF s.key[t] \in KernelKeys THEN KernelWaiters(s, o) \cup {t}
                                                         ELSE KernelWaiters(s, o)
    BY <1>1, <1>5 DEF KernelWaiters, MayJoin
  <2>3. t \notin KernelWaiters(s, o)
    BY Zenon, <1>5 DEF KernelWaiters, MayJoin
  <2>4. Cardinality(KernelWaiters(r, o)) = Cardinality(KernelWaiters(s, o)) + Count(s.key[t])
    <3>1. Cardinality(KernelWaiters(s, o)) \in Nat /\ IsFiniteSet(KernelWaiters(s, o))
      BY Zenon, KernelWaitersFinite
    <3>2. CASE s.key[t] \in KernelKeys
      BY Zenon, <2>2, <2>3, <3>1, <3>2, FS_AddElement DEF Count
    <3>3. CASE s.key[t] \notin KernelKeys
      BY <2>2, <3>1, <3>3 DEF Count
    <3> QED
      BY Zenon, <3>2, <3>3
  <2>5. /\ r.kwaiters[o] = s.kwaiters[o] + Count(s.key[t])
        /\ \A u \in Threads \ {o} : r.kwaiters[u] = s.kwaiters[u]
    <3>1. s.kwaiters \in [Threads -> Int]
      BY Zenon DEF Trees, Typed
    <3> QED
      BY Zenon, <1>1, <3>1
  <2> QED
    BY Zenon, <2>1, <2>4, <2>5 DEF Counts, Trees
<1> QED
  BY Zenon, <1>1, <1>2, <1>4, <1>6, <1>7, <1>8

\* AddWaiter, with the priorities its caller and the caller's chain inherit.
LEMMA AddWaiterHolds ==
  ASSUME NEW s, Trees(s), NEW o \in Threads, NEW t \in Threads, MayJoin(s, o, t),
         NEW r, r = AddWaiter(s, o, t)
  PROVE  Joined(r, s, o, t) /\ Trees(r) /\ OrderSame(r, s, {t, o, s.owner[o]})
<1> DEFINE c == AddWaiterImpl(s, o, t)
<1>1. /\ Joined(c, s, o, t) /\ c.prio = s.prio /\ OrderSame(c, s, {t})
      /\ Typed(c) /\ Counts(c) /\ Chains(c) /\ Linear(c.order) /\ \A u \in Threads : InTree(c, u)
  BY Zenon, AddWaiterImplIs
<1>2. r = IF c.prio[t] < c.prio[o] THEN RestorePriority(c, o) ELSE c
  BY Zenon DEF AddWaiter
<1> HIDE DEF c
<1>3. /\ c.owner = [s.owner EXCEPT ![t] = o] /\ c.base = s.base
      /\ s.owner \in [Threads -> Threads \cup {Nobody}] /\ s.prio \in [Threads -> Nat]
      /\ s.base \in [Threads -> Nat] /\ \A u \in Threads : Best(s, u, s.prio[u])
  BY Zenon, <1>1 DEF Joined, Same, Fields, Trees, Typed
<1>4. ASSUME NEW u \in Threads \ {o} PROVE Best(c, u, c.prio[u])
  <2>1. \A v \in Threads : c.owner[v] = u <=> s.owner[v] = u
    BY Zenon, <1>3, ThreadAssumption DEF MayJoin
  <2>2. Best(s, u, s.prio[u])
    BY Zenon, <1>3
  <2> QED
    BY Zenon, <1>1, <1>3, <2>1, <2>2 DEF Best
<1>5. CASE c.prio[t] < c.prio[o]
  <2>1. Trees(r) /\ Restored(r, c, o)
    BY Zenon, <1>1, <1>2, <1>4, <1>5, TreesRestored
  <2>2. Joined(r, s, o, t)
    BY Zenon, <1>1, <2>1 DEF Restored, Joined, Same, Fields
  <2>3. c.owner[o] = s.owner[o] /\ Up(c, c.owner[o]) = Nobody
    <3>1. c.owner[o] = s.owner[o] /\ s.owner[o] # t
      BY Zenon, <1>3, ThreadAssumption DEF MayJoin
    <3> QED
      BY Zenon, <1>3, <3>1 DEF MayJoin, Up
  <2>4. Above(c, o) \cap Threads \subseteq {o, s.owner[o]}
    BY Zenon, <2>3, ThreadAssumption DEF Above
  <2>5. OrderSame(r, s, {t, o, s.owner[o]})
    BY Zenon, <1>1, <2>1, <2>4 DEF Restored, OrderSame
  <2> QED
    BY Zenon, <2>1, <2>2, <2>5
<1>6. CASE ~(c.prio[t] < c.prio[o])
  <2>1. Best(c, o, c.prio[o])
    <3>1. s.prio[o] <= s.prio[t] /\ c.owner[t] = o /\ \A u \in Threads \ {t} : c.owner[u] = s.owner[u]
      BY <1>1, <1>3, <1>6
    <3> QED
      BY <1>1, <1>3, <3>1, ThreadAssumption DEF Best, MayJoin
  <2> QED
    BY Zenon, <1>1, <1>2, <1>4, <1>6, <2>1 DEF Trees, OrderSame
<1> QED
  BY Zenon, <1>5, <1>6

\* RemoveWaiterImpl: the order and the counts are without the waiter.
LEMMA RemoveWaiterImplIs ==
  ASSUME NEW s, Trees(s), NEW t \in Threads, s.owner[t] # Nobody, NEW r, r = RemoveWaiterImpl(s, t)
  PROVE  /\ Left(r, s, t) /\ r.prio = s.prio
         /\ Typed(r) /\ Counts(r) /\ Chains(r) /\ Linear(r.order)
         /\ \A u \in Threads : InTree(r, u)
<1> DEFINE o == s.owner[t]
<1>0. Typed(s) /\ Rec(s)
  BY Zenon DEF Trees, Typed
<1>1. /\ Left(r, s, t) /\ r.prio = s.prio /\ r.order = Remove(s.order, t) /\ r.key = s.key
      /\ r.owner = [s.owner EXCEPT ![t] = Nobody] /\ r.condvar = s.condvar
      /\ r.kwaiters = [s.kwaiters EXCEPT ![o] = @ - Count(s.key[t])]
  BY Zenon, <1>0 DEF RemoveWaiterImpl, Left, Same, Rec, Fields
<1>2. Linear(r.order) /\ Linked(r.order) = Linked(s.order) \ {t}
  BY <1>1, RemoveLinearHolds DEF Trees
<1>3. Count(s.key[t]) \in Int
  BY DEF Count
<1>4. Typed(r)
  BY <1>0, <1>1, <1>2, <1>3 DEF Left, Typed, Same, Fields, Linear
<1>5. /\ s.owner \in [Threads -> Threads \cup {Nobody}] /\ Nobody \notin Threads
      /\ r.owner[t] = Nobody /\ \A u \in Threads \ {t} : r.owner[u] = s.owner[u]
  BY <1>0, <1>1, ThreadAssumption DEF Typed
<1>6. Chains(r)
  BY <1>5 DEF Trees, Chains, Up
<1>7. \A u \in Threads : InTree(r, u)
  BY <1>1, <1>2, <1>5 DEF Trees, InTree
<1>8. Counts(r)
  <2>0. o \in Threads
    BY Zenon, <1>5
  <2> HIDE DEF o
  <2>1. \A u \in Threads \ {o} : KernelWaiters(r, u) = KernelWaiters(s, u)
    BY <1>1, <1>5 DEF KernelWaiters, o
  <2>2. KernelWaiters(r, o) = KernelWaiters(s, o) \ {t}
    BY <1>1, <1>5, <2>0 DEF KernelWaiters
  <2>3. t \in KernelWaiters(s, o) <=> s.key[t] \in KernelKeys
    BY Zenon DEF KernelWaiters, o
  <2>4. Cardinality(KernelWaiters(r, o)) = Cardinality(KernelWaiters(s, o)) - Count(s.key[t])
    <3>1. Cardinality(KernelWaiters(s, o)) \in Nat /\ IsFiniteSet(KernelWaiters(s, o))
      BY Zenon, KernelWaitersFinite
    <3>2. Cardinality(KernelWaiters(r, o)) =
             IF t \in KernelWaiters(s, o) THEN Cardinality(KernelWaiters(s, o)) - 1
                                          ELSE Cardinality(KernelWaiters(s, o))
      BY Zenon, <2>2, <3>1, FS_RemoveElement
    <3> QED
      BY <2>3, <3>1, <3>2 DEF Count
  <2>5. /\ r.kwaiters[o] = s.kwaiters[o] - Count(s.key[t])
        /\ \A u \in Threads \ {o} : r.kwaiters[u] = s.kwaiters[u]
    <3>1. s.kwaiters \in [Threads -> Int]
      BY Zenon, <1>0 DEF Typed
    <3> QED
      BY Zenon, <1>1, <2>0, <3>1
  <2> QED
    BY Zenon, <2>1, <2>4, <2>5 DEF Counts, Trees
<1> QED
  BY Zenon, <1>1, <1>2, <1>4, <1>6, <1>7, <1>8

\* RestoreAfter, when o has lost waiters of which the best has t's priority.
LEMMA RestoreAfterIs ==
  ASSUME NEW s, Typed(s), Counts(s), Chains(s), Linear(s.order), \A u \in Threads : InTree(s, u),
         NEW o \in Threads, NEW t \in Threads,
         \A u \in Threads \ {o} : Best(s, u, s.prio[u]),
         s.prio[o] <= s.base[o], \A u \in Threads : s.owner[u] = o => s.prio[o] <= s.prio[u],
         \/ s.prio[o] = s.base[o] \/ s.prio[o] = s.prio[t]
         \/ \E u \in Threads : s.owner[u] = o /\ s.prio[o] = s.prio[u],
         NEW r, r = RestoreAfter(s, o, t)
  PROVE  Trees(r) /\ Same(r, s, {"prio", "order"})
<1>1. CASE s.prio[o] = s.prio[t] /\ s.prio[o] < s.base[o]
  <2>1. r = RestorePriority(s, o)
    BY Zenon, <1>1 DEF RestoreAfter
  <2> QED
    BY Zenon, <2>1, TreesRestored DEF Restored
<1>2. CASE ~(s.prio[o] = s.prio[t] /\ s.prio[o] < s.base[o])
  <2>1. r = s
    BY Zenon, <1>2 DEF RestoreAfter
  <2>2. s.prio[o] \in Nat /\ s.base[o] \in Nat /\ Rec(s)
    BY Zenon DEF Typed
  <2>3. Best(s, o, s.prio[o])
    BY <1>2, <2>2 DEF Best
  <2> QED
    BY Zenon, <2>1, <2>2, <2>3 DEF Trees, Same
<1> QED
  BY Zenon, <1>1, <1>2

\* RemoveWaiter, with the priorities the owner and its chain lose.
LEMMA RemoveWaiterHolds ==
  ASSUME NEW s, Trees(s), NEW t \in Threads, s.owner[t] # Nobody, NEW r, r = RemoveWaiter(s, t)
  PROVE  Left(r, s, t) /\ Trees(r)
<1> DEFINE c == RemoveWaiterImpl(s, t)
           o == s.owner[t]
<1>1. /\ Left(c, s, t) /\ c.prio = s.prio
      /\ Typed(c) /\ Counts(c) /\ Chains(c) /\ Linear(c.order) /\ \A u \in Threads : InTree(c, u)
  BY Zenon, RemoveWaiterImplIs
<1>2. r = RestoreAfter(c, o, t)
  BY Zenon DEF RemoveWaiter
<1> HIDE DEF c
<1>3. /\ c.owner = [s.owner EXCEPT ![t] = Nobody] /\ c.base = s.base /\ o \in Threads
      /\ s.owner \in [Threads -> Threads \cup {Nobody}] /\ s.prio \in [Threads -> Nat]
      /\ s.base \in [Threads -> Nat] /\ \A u \in Threads : Best(s, u, s.prio[u])
  <2>1. Typed(s) /\ \A u \in Threads : Best(s, u, s.prio[u])
    BY Zenon DEF Trees
  <2>2. c.owner = [s.owner EXCEPT ![t] = Nobody] /\ c.base = s.base
    BY Zenon, <1>1 DEF Left, Same, Fields
  <2>3. /\ s.owner \in [Threads -> Threads \cup {Nobody}] /\ s.prio \in [Threads -> Nat]
        /\ s.base \in [Threads -> Nat]
    BY ONLY Zenon, <2>1 DEF Typed
  <2>4. s.owner[t] \in Threads \cup {Nobody}
    BY ONLY Zenon, <2>3, t \in Threads
  <2>5. o \in Threads
    BY ONLY Zenon, <2>4, s.owner[t] # Nobody
  <2> HIDE DEF o
  <2> QED
    BY ONLY Zenon, <2>1, <2>2, <2>3, <2>5
<1> HIDE DEF o
<1>4. ASSUME NEW u \in Threads \ {o} PROVE Best(c, u, c.prio[u])
  <2>1. \A v \in Threads : c.owner[v] = u <=> s.owner[v] = u
    BY Zenon, <1>3, ThreadAssumption DEF o
  <2>2. Best(s, u, s.prio[u])
    BY Zenon, <1>3
  <2> QED
    BY Zenon, <1>1, <1>3, <2>1, <2>2 DEF Best
<1>5. /\ c.prio[o] <= c.base[o] /\ \A u \in Threads : c.owner[u] = o => c.prio[o] <= c.prio[u]
      /\ \/ c.prio[o] = c.base[o] \/ c.prio[o] = c.prio[t]
         \/ \E u \in Threads : c.owner[u] = o /\ c.prio[o] = c.prio[u]
  <2>1. \A v \in Threads : s.owner[v] = o <=> c.owner[v] = o \/ v = t
    BY Zenon, <1>3, ThreadAssumption DEF o
  <2>2. Best(s, o, s.prio[o])
    BY Zenon, <1>3
  <2> QED
    BY <1>1, <1>3, <2>1, <2>2 DEF Best
<1>6. Trees(r) /\ Same(r, c, {"prio", "order"})
  BY <1>1, <1>2, <1>3, <1>4, <1>5, RestoreAfterIs
<1>7. Left(r, s, t)
  BY Zenon, <1>1, <1>6 DEF Left, Same, Fields
<1> QED
  BY Zenon, <1>6, <1>7

\* The counts when the waiters S of o, with address key a, are handed to n, one of
\* them.
PassedCount(s, o, a, S, n) ==
    [t \in Threads |-> s.kwaiters[t] + Count(a) * (IF t = o THEN -Cardinality(S)
                                                  ELSE IF t = n THEN Cardinality(S \ {n}) ELSE 0)]

\* The counts of kernel waiters when the lock info passes to the next owner.
LEMMA PassCounts ==
  ASSUME NEW s, Typed(s), Counts(s), NEW o \in Threads, NEW a, NEW n, NEW S, S = WaitersByKey(s, o, a),
         n \in S, o # n, NEW r, r.key = s.key,
         r.owner = PassedOwner(s, S, n), r.kwaiters = PassedCount(s, o, a, S, n)
  PROVE  Counts(r) /\ r.kwaiters \in [Threads -> Int]
<1> DEFINE rest == S \ {n}
<1> USE DEF PassedOwner, PassedCount
<1>0. /\ S \subseteq Threads /\ \A t \in S : s.owner[t] = o /\ s.key[t] = a
      /\ \A t \in Threads : s.owner[t] = o /\ s.key[t] = a => t \in S
      /\ n \in Threads /\ Nobody \notin Threads
  BY Zenon, ThreadAssumption DEF WaitersByKey
<1>1. /\ IsFiniteSet(S) /\ IsFiniteSet(rest) /\ Cardinality(S) \in Nat /\ Cardinality(rest) \in Nat
      /\ Count(a) \in {0, 1}
  BY Zenon, <1>0, ThreadAssumption, FS_Subset, FS_CardinalityType DEF Count
<1>2. s.kwaiters \in [Threads -> Int] /\ s.owner \in [Threads -> Threads \cup {Nobody}]
  BY Zenon DEF Typed
<1>3. r.kwaiters \in [Threads -> Int]
  BY <1>1, <1>2
<1>4. ASSUME NEW u \in Threads \ {o, n}
      PROVE  r.kwaiters[u] = Cardinality(KernelWaiters(r, u))
  <2>1. KernelWaiters(r, u) = KernelWaiters(s, u)
    BY <1>0, <1>2 DEF KernelWaiters
  <2>2. r.kwaiters[u] = s.kwaiters[u]
    BY <1>1, <1>2
  <2> QED
    BY Zenon, <2>1, <2>2 DEF Counts
<1>5. CASE a \notin KernelKeys
  <2>1. \A u \in Threads : KernelWaiters(r, u) = KernelWaiters(s, u)
    BY <1>0, <1>2, <1>5 DEF KernelWaiters
  <2>2. \A u \in Threads : r.kwaiters[u] = s.kwaiters[u]
    BY <1>1, <1>2, <1>5 DEF Count
  <2> QED
    BY Zenon, <1>3, <2>1, <2>2 DEF Counts
<1>6. CASE a \in KernelKeys
  <2>1. KernelWaiters(r, o) = KernelWaiters(s, o) \ S /\ KernelWaiters(s, o) \cap S = S
    BY <1>0, <1>2, <1>6 DEF KernelWaiters
  <2>2. KernelWaiters(r, n) = KernelWaiters(s, n) \cup rest /\ KernelWaiters(s, n) \cap rest = {}
    BY <1>0, <1>2, <1>6 DEF KernelWaiters
  <2>3. /\ IsFiniteSet(KernelWaiters(s, o)) /\ Cardinality(KernelWaiters(s, o)) \in Nat
        /\ IsFiniteSet(KernelWaiters(s, n)) /\ Cardinality(KernelWaiters(s, n)) \in Nat
    BY Zenon, KernelWaitersFinite
  <2> HIDE DEF rest
  <2>4. Cardinality(KernelWaiters(r, o)) = Cardinality(KernelWaiters(s, o)) - Cardinality(S)
    <3>1. Cardinality(KernelWaiters(s, o) \ S)
            = Cardinality(KernelWaiters(s, o)) - Cardinality(KernelWaiters(s, o) \cap S)
      BY Zenon, <1>1, <2>3, FS_Difference
    <3> QED
      BY Zenon, <2>1, <3>1
  <2>5. Cardinality(KernelWaiters(r, n)) = Cardinality(KernelWaiters(s, n)) + Cardinality(rest)
    <3>1. Cardinality(KernelWaiters(s, n) \cup rest)
            = Cardinality(KernelWaiters(s, n)) + Cardinality(rest) - Cardinality(KernelWaiters(s, n) \cap rest)
      BY Zenon, <1>1, <2>3, FS_Union
    <3>2. Cardinality(KernelWaiters(s, n) \cap rest) = 0
      BY Zenon, <2>2, FS_EmptySet
    <3>3. Cardinality(KernelWaiters(r, n)) = Cardinality(KernelWaiters(s, n) \cup rest)
      BY Zenon, <2>2
    <3> QED
      BY ONLY <1>1, <2>3, <3>1, <3>2, <3>3
  <2>6. r.kwaiters[o] = s.kwaiters[o] - Cardinality(S) /\ r.kwaiters[n] = s.kwaiters[n] + Cardinality(rest)
    BY <1>0, <1>1, <1>2, <1>6 DEF Count, rest
  <2>7. s.kwaiters[o] = Cardinality(KernelWaiters(s, o)) /\ s.kwaiters[n] = Cardinality(KernelWaiters(s, n))
    BY Zenon, <1>0 DEF Counts
  <2> QED
    BY Zenon, <1>3, <1>4, <2>4, <2>5, <2>6, <2>7 DEF Counts
<1> QED
  BY Zenon, <1>5, <1>6

\* RemoveWaiterByKey: the front of the waiters is the next owner, and the others
\* wait for it; everybody's priority is right again.
LEMMA RemoveByKeyHolds ==
  ASSUME NEW s, Trees(s), NEW o \in Threads, NEW a, NEW S, S = WaitersByKey(s, o, a), S # {},
         NEW q, q = RemoveWaiterByKey(s, o, a)
  PROVE  /\ q.next \in S /\ (q.more = (S # {q.next}))
         /\ HandedOn(q.s, s, S, q.next) /\ Trees(q.s)
<1> DEFINE n == FrontOf(s, S)
           c == [s EXCEPT !.owner = [t \in Threads |-> IF t = n THEN Nobody
                                                       ELSE IF t \in S \ {n} THEN n ELSE @[t]],
                          !.order = Remove(@, n),
                          !.kwaiters = [t \in Threads |->
                              @[t] + Count(a) * (IF t = o THEN -Cardinality(S)
                                                 ELSE IF t = n THEN Cardinality(S \ {n}) ELSE 0)]]
<1>0. Typed(s) /\ Rec(s) /\ Counts(s) /\ Chains(s) /\ Linear(s.order)
  BY Zenon DEF Trees, Typed
<1>1. /\ S \subseteq Threads /\ \A t \in S : s.owner[t] = o /\ s.key[t] = a
      /\ Nobody \notin Threads /\ S \subseteq Linked(s.order)
      /\ s.owner \in [Threads -> Threads \cup {Nobody}]
  BY Zenon, <1>0, ThreadAssumption DEF WaitersByKey, Trees, InTree, Typed
<1>2. /\ n \in S /\ \A u \in S : s.prio[n] <= s.prio[u]
  BY Zenon, <1>0, <1>1, FrontHolds DEF Typed
<1>3. q = [s |-> RestoreAfter(c, o, n), next |-> n, more |-> S \ {n} # {}]
  BY Zenon DEF RemoveWaiterByKey
<1> HIDE DEF n
<1>4. /\ Same(c, s, {"owner", "kwaiters", "prio", "order"}) /\ c.prio = s.prio
      /\ c.order = Remove(s.order, n) /\ c.key = s.key /\ c.condvar = s.condvar /\ c.base = s.base
      /\ c.owner = [t \in Threads |-> IF t = n THEN Nobody ELSE IF t \in S \ {n} THEN n ELSE s.owner[t]]
      /\ c.kwaiters = [t \in Threads |->
             s.kwaiters[t] + Count(a) * (IF t = o THEN -Cardinality(S)
                                         ELSE IF t = n THEN Cardinality(S \ {n}) ELSE 0)]
  BY Zenon, <1>0 DEF Same, Rec, Fields
<1> HIDE DEF c
<1>5. /\ c.owner = [t \in Threads |-> IF t = n THEN Nobody ELSE IF t \in S THEN n ELSE s.owner[t]]
      /\ c.owner = PassedOwner(s, S, n)
      /\ n \in Threads /\ s.owner[n] = o /\ o # n
  BY Zenon, <1>0, <1>1, <1>2, <1>4 DEF Chains, PassedOwner
<1>6. Counts(c) /\ c.kwaiters \in [Threads -> Int]
  <2>1. c.key = s.key /\ c.kwaiters = PassedCount(s, o, a, S, n)
    BY Zenon, <1>4 DEF PassedCount
  <2> QED
    BY ONLY <1>0, <1>2, <1>5, <2>1, PassCounts, o \in Threads, S = WaitersByKey(s, o, a)
<1>7. Linear(c.order) /\ Linked(c.order) = Linked(s.order) \ {n}
  BY <1>0, <1>4, <1>5, RemoveLinearHolds
<1>8. Typed(c)
  <2>1. c.owner \in [Threads -> Threads \cup {Nobody}]
    <3>1. \A t \in Threads : s.owner[t] \in Threads \cup {Nobody}
      BY Zenon, <1>1
    <3> QED
      BY ONLY Zenon, <1>5, <3>1
  <2> QED
    BY Zenon, <1>0, <1>4, <1>6, <1>7, <2>1 DEF Typed, Same, Fields, Linear
<1>9. Chains(c)
  <2>1. \A v \in Threads : c.owner[v] = IF v = n THEN Nobody ELSE IF v \in S THEN n ELSE s.owner[v]
    BY ONLY Zenon, <1>5
  <2>2. Up(c, n) = Nobody /\ Up(c, Nobody) = Nobody /\ \A w \in S : Up(c, w) \in {n, Nobody}
    BY ONLY Zenon, <1>1, <1>5, <2>1 DEF Up
  <2>3. \A w \in Threads \ S : Up(c, w) = s.owner[w]
    BY ONLY Zenon, <1>1, <1>2, <2>1 DEF Up
  <2>4. ASSUME NEW v \in Threads
        PROVE  c.owner[v] # v /\ Up(c, Up(c, c.owner[v])) = Nobody
    <3>1. CASE v \in S
      BY ONLY Zenon, <1>1, <1>5, <2>1, <2>2, <3>1
    <3>2. CASE v \notin S
      <4>1. c.owner[v] = s.owner[v] /\ s.owner[v] # v /\ Up(s, Up(s, s.owner[v])) = Nobody
        BY ONLY Zenon, v \in Threads, <1>0, <1>2, <2>1, <3>2 DEF Chains
      <4>2. CASE s.owner[v] \in S \cup {Nobody}
        BY ONLY Zenon, <2>2, <4>1, <4>2
      <4>3. CASE s.owner[v] \in Threads \ S
        <5> DEFINE w == s.owner[v]
        <5>1. Up(c, w) = s.owner[w] /\ s.owner[w] = Up(s, w) /\ s.owner[w] \in Threads \cup {Nobody}
          BY Zenon, <1>1, <2>3, <4>3 DEF Up
        <5> HIDE DEF w
        <5>2. s.owner[w] \notin S
          BY Zenon, <1>1, <4>1, <5>1 DEF Up, w
        <5>3. s.owner[w] = Nobody \/ (s.owner[w] \in Threads \ S /\ s.owner[s.owner[w]] = Nobody)
          BY Zenon, <4>1, <5>1, <5>2 DEF Up, w
        <5>4. Up(c, s.owner[w]) = Nobody
          BY ONLY Zenon, <2>2, <2>3, <5>3
        <5> QED
          BY ONLY Zenon, <4>1, <5>1, <5>4 DEF w
      <4> QED
        BY Zenon, <1>1, <4>2, <4>3
    <3> QED
      BY Zenon, <3>1, <3>2
  <2> QED
    BY Zenon, <2>4 DEF Chains
<1>10. \A u \in Threads : InTree(c, u)
  BY <1>1, <1>2, <1>4, <1>5, <1>7 DEF InTree, Trees
<1>11. /\ s.prio \in [Threads -> Nat] /\ s.base \in [Threads -> Nat]
       /\ \A u \in Threads : Best(s, u, s.prio[u])
  BY Zenon, <1>0 DEF Trees, Typed
<1>12. ASSUME NEW u \in Threads \ {o} PROVE Best(c, u, c.prio[u])
  <2>1. CASE u # n
    <3>1. \A v \in Threads : c.owner[v] = u <=> s.owner[v] = u
      BY Zenon, <1>1, <1>5, <2>1
    <3> QED
      BY <1>4, <1>11, <3>1 DEF Best
  <2>2. CASE u = n
    <3>1. \A v \in Threads : c.owner[v] = u <=> s.owner[v] = u \/ v \in S \ {n}
      BY Zenon, <1>1, <1>5, <2>2
    <3>2. Best(s, u, s.prio[u])
      BY Zenon, <1>11
    <3> QED
      BY <1>1, <1>2, <1>4, <1>11, <2>2, <3>1, <3>2 DEF Best
  <2> QED
    BY Zenon, <2>1, <2>2
<1>13. /\ c.prio[o] <= c.base[o] /\ \A u \in Threads : c.owner[u] = o => c.prio[o] <= c.prio[u]
       /\ \/ c.prio[o] = c.base[o] \/ c.prio[o] = c.prio[n]
          \/ \E u \in Threads : c.owner[u] = o /\ c.prio[o] = c.prio[u]
  <2>1. \A v \in Threads : (c.owner[v] = o => s.owner[v] = o) /\ (s.owner[v] = o => c.owner[v] = o \/ v \in S)
    <3>1. ASSUME NEW v \in Threads
          PROVE  c.owner[v] = IF v = n THEN Nobody ELSE IF v \in S THEN n ELSE s.owner[v]
      BY Zenon, <1>5
    <3> QED
      BY ONLY Zenon, <1>1, <1>2, <1>5, <3>1, o \in Threads
  <2>2. Best(s, o, s.prio[o])
    BY Zenon, <1>11
  <2>3. ASSUME NEW v \in S, s.prio[o] = s.prio[v]
        PROVE  s.prio[o] = s.prio[n]
    <3>1. s.prio[o] <= s.prio[n] /\ s.prio[n] <= s.prio[v]
      BY Zenon, <1>2, <1>5, <2>2 DEF Best
    <3>2. s.prio[o] \in Nat /\ s.prio[n] \in Nat
      BY Zenon, <1>5, <1>11
    <3> QED
      BY ONLY <2>3, <3>1, <3>2
  <2> QED
    BY <1>1, <1>4, <1>11, <2>1, <2>2, <2>3 DEF Best
<1>14. Trees(q.s) /\ Same(q.s, c, {"prio", "order"}) /\ q.next = n /\ q.more = (S \ {n} # {})
  <2>1. q.s = RestoreAfter(c, o, n) /\ q.next = n /\ q.more = (S \ {n} # {})
    BY ONLY Zenon, <1>3
  <2> QED
    BY <1>5, <1>6, <1>7, <1>8, <1>9, <1>10, <1>12, <1>13, <2>1, RestoreAfterIs
<1>15. HandedOn(q.s, s, S, n)
  BY <1>4, <1>5, <1>14 DEF HandedOn, Same, Fields
<1> QED
  BY Zenon, <1>2, <1>14, <1>15

\* A new base priority, with the priorities that follow from it.
LEMMA NewBaseHolds ==
  ASSUME NEW s, Trees(s), NEW t \in Threads, NEW n \in Nat,
         NEW r, r = RestorePriority([s EXCEPT !.base[t] = n], t)
  PROVE  Trees(r) /\ SameSusp(r, s) /\ \A u \in Threads : Alike(r, s, u)
<1> DEFINE c == [s EXCEPT !.base[t] = n]
<1>0. Typed(s) /\ Rec(s)
  BY Zenon DEF Trees, Typed
<1>1. Same(c, s, {"base"}) /\ c.base = [s.base EXCEPT ![t] = n]
  BY Zenon, <1>0 DEF Same, Rec, Fields
<1> HIDE DEF c
<1>2. /\ c.owner = s.owner /\ c.condvar = s.condvar /\ c.kwaiters = s.kwaiters /\ c.key = s.key
      /\ c.prio = s.prio /\ c.order = s.order /\ s.base \in [Threads -> Nat]
  BY Zenon, <1>0, <1>1 DEF Same, Fields, Typed
<1>3. Typed(c)
  BY <1>0, <1>1, <1>2 DEF Typed, Same, Fields
<1>4. Counts(c) /\ Chains(c) /\ Linear(c.order) /\ \A u \in Threads : InTree(c, u)
  BY <1>2 DEF Trees, Counts, KernelWaiters, Chains, Up, InTree
<1>5. ASSUME NEW u \in Threads \ {t} PROVE Best(c, u, c.prio[u])
  <2>1. Best(s, u, s.prio[u]) /\ c.base[u] = s.base[u]
    BY Zenon, <1>1, <1>2 DEF Trees
  <2> QED
    BY Zenon, <1>2, <2>1 DEF Best
<1>6. Trees(r) /\ Restored(r, c, t)
  BY Zenon, <1>3, <1>4, <1>5, TreesRestored DEF c
<1>7. Same(r, s, {"base", "prio", "order"})
  BY Zenon, <1>1, <1>6 DEF Restored, Same
<1> QED
  BY Zenon, <1>6, <1>7 DEF Same, Fields, SameSusp, Alike

\* The counts tell whether there are kernel waiters.
LEMMA CountsTellHolds ==
  ASSUME NEW s, Trees(s), NEW t \in Threads
  PROVE  s.kwaiters[t] > 0 <=> KernelWaiters(s, t) # {}
<1>1. s.kwaiters[t] = Cardinality(KernelWaiters(s, t))
  BY Zenon DEF Trees, Counts
<1>2. IsFiniteSet(KernelWaiters(s, t)) /\ Cardinality(KernelWaiters(s, t)) \in Nat
  BY Zenon, KernelWaitersFinite
<1>3. Cardinality(KernelWaiters(s, t)) = 0 <=> KernelWaiters(s, t) = {}
  BY Zenon, <1>2, FS_EmptySet
<1> QED
  BY <1>1, <1>2, <1>3

\* The facts hold.
LEMMA ThreadFactsHold == ThreadFacts
<1>1. CountsTell
  BY Zenon, CountsTellHolds, ThreadAssumption, FS_CardinalityType DEF CountsTell
<1>2. Climb
  BY Zenon, ClimbHolds DEF Climb
<1>3. RemoveLinear /\ InsertedLinear
  BY Zenon, RemoveLinearHolds, InsertedLinearHolds DEF RemoveLinear, InsertedLinear
<1>4. FrontIs
  BY Zenon, FrontHolds DEF FrontIs
<1>5. AddWaiterIs
  BY Zenon, AddWaiterHolds DEF AddWaiterIs
<1>6. RemoveWaiterIs
  BY Zenon, RemoveWaiterHolds DEF RemoveWaiterIs
<1>7. RemoveByKeyIs
  BY RemoveByKeyHolds DEF RemoveByKeyIs
<1>8. NewBaseIs
  BY Zenon, NewBaseHolds DEF NewBaseIs
<1> QED
  BY Zenon, <1>1, <1>2, <1>3, <1>4, <1>5, <1>6, <1>7, <1>8 DEF ThreadFacts

\* The threads start with empty trees, at their own priorities.
LEMMA TreesStart == Trees(KThreadsInit)
<1> DEFINE s == KThreadsInit
<1>1. /\ s.state = [t \in Threads |-> "Runnable"] /\ s.flags = [t \in Threads |-> {}]
      /\ s.request = [t \in Threads |-> {}] /\ s.allow = [t \in Threads |-> TRUE]
      /\ s.term = [t \in Threads |-> FALSE] /\ s.queue = [t \in Threads |-> "none"]
      /\ s.result = [t \in Threads |-> "Success"] /\ s.timer = {} /\ s.base = BasePriority
      /\ s.prio = BasePriority /\ s.owner = [t \in Threads |-> Nobody]
      /\ s.key = [t \in Threads |-> Nobody] /\ s.condvar = [t \in Threads |-> Nobody]
      /\ s.kwaiters = [t \in Threads |-> 0] /\ s.order = {}
  BY Zenon DEF KThreadsInit
<1>2. Rec(s)
  BY Zenon DEF KThreadsInit, Rec, Fields
<1> HIDE DEF s
<1>3. Typed(s)
  BY <1>1, <1>2, ThreadAssumption DEF Typed, States, Queues, Results
<1>4. Counts(s)
  <2>1. ASSUME NEW t \in Threads PROVE s.kwaiters[t] = Cardinality(KernelWaiters(s, t))
    <3>1. KernelWaiters(s, t) = {}
      BY <1>1, ThreadAssumption DEF KernelWaiters
    <3> QED
      BY Zenon, <1>1, <3>1, FS_EmptySet
  <2> QED
    BY Zenon, <2>1 DEF Counts
<1>5. Chains(s)
  BY <1>1, ThreadAssumption DEF Chains, Up
<1>6. Linear(s.order)
  BY Zenon, <1>1 DEF Linear, Linked
<1>7. \A t \in Threads : InTree(s, t)
  BY Zenon, <1>1 DEF InTree
<1>8. \A t \in Threads : Best(s, t, s.prio[t])
  BY <1>1, ThreadAssumption DEF Best
<1> QED
  BY Zenon, <1>3, <1>4, <1>5, <1>6, <1>7, <1>8 DEF Trees, s
=============================================================================
