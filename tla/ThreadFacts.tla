---------------------------- MODULE ThreadFacts ----------------------------
(***************************************************************************)
(* What the trees of waiting threads are, and what the operators of KThread*)
(* do to them.  The predicates are functions of the threads' record, as    *)
(* the operators are.  The facts are stated here and proved in             *)
(* ThreadProofs; the lemmas about the kernel's steps assume ThreadFacts,   *)
(* the theorems of KernelProofs do not.                                    *)
(***************************************************************************)
EXTENDS KThread

Fields == {"state", "flags", "request", "allow", "term", "queue", "result", "timer", "base",
           "prio", "owner", "key", "condvar", "kwaiters", "order"}

\* s is a record with these fields; r differs from s in the fields F at most.
Rec(s)        == s = [f \in Fields |-> s[f]]
Same(r, s, F) == Rec(r) /\ \A f \in Fields \ F : r[f] = s[f]

\* The fields have their types (the counts are shown not to be negative).
Typed(s) ==
    /\ Rec(s)
    /\ s.state \in [Threads -> States] /\ s.queue \in [Threads -> Queues]
    /\ s.flags \in [Threads -> SUBSET SuspendTypes] /\ s.request \in [Threads -> SUBSET SuspendTypes]
    /\ s.allow \in [Threads -> BOOLEAN] /\ s.term \in [Threads -> BOOLEAN]
    /\ s.result \in [Threads -> Results] /\ s.timer \in SUBSET Threads
    /\ s.base \in [Threads -> Nat] /\ s.prio \in [Threads -> Nat]
    /\ s.owner \in [Threads -> Threads \cup {Nobody}]
    /\ s.key \in [Threads -> AddressKeys \cup {Nobody}]
    /\ s.condvar \in [Threads -> CondVarKeys \cup {Nobody}]
    /\ s.kwaiters \in [Threads -> Int] /\ s.order \in SUBSET (Threads \X Threads)

\* The order of insertion is a total order of the threads in trees.
Linear(o) ==
    /\ o \in SUBSET (Threads \X Threads)
    /\ \A t, u \in Threads : <<t, u>> \in o => t \in Linked(o) /\ u \in Linked(o)
    /\ \A t, u \in Linked(o) : <<t, u>> \in o \/ <<u, t>> \in o
    /\ \A t, u \in Threads : <<t, u>> \in o /\ <<u, t>> \in o => t = u
    /\ \A t, u, v \in Threads : <<t, u>> \in o /\ <<u, v>> \in o => <<t, v>> \in o

\* A thread is in one tree at most, and the order has it when it is.
InTree(s, t) ==
    /\ s.owner[t] = Nobody \/ s.condvar[t] = Nobody
    /\ s.owner[t] # Nobody \/ s.condvar[t] # Nobody => t \in Linked(s.order)

\* m_num_kernel_waiters is the number of waiters with a kernel address key.
KernelWaiters(s, t) == {u \in Threads : s.owner[u] = t /\ s.key[u] \in KernelKeys}
Counts(s)           == \A t \in Threads : s.kwaiters[t] = Cardinality(KernelWaiters(s, t))

\* Chains of owners end: nobody waits for themselves, and the owner that an owner
\* waits for waits for nobody.
Up(s, t)  == IF t = Nobody THEN Nobody ELSE s.owner[t]
Chains(s) == \A t \in Threads : s.owner[t] # t /\ Up(s, Up(s, s.owner[t])) = Nobody

\* n is the best of t's own priority and of those of its waiters.
Best(s, t, n) ==
    /\ n \in Nat /\ n <= s.base[t]
    /\ \A u \in Threads : s.owner[u] = t => n <= s.prio[u]
    /\ n = s.base[t] \/ \E u \in Threads : s.owner[u] = t /\ n = s.prio[u]

\* The invariant of the trees.
Trees(s) ==
    /\ Typed(s) /\ Counts(s) /\ Chains(s)
    /\ Linear(s.order) /\ \A t \in Threads : InTree(s, t)
    /\ \A t \in Threads : Best(s, t, s.prio[t])
\* g is a function of the turns up to n.
Turns(g, n) == g = [i \in 0 .. n |-> g[i]]

\* Nothing differs for threads outside X, as far as the trees' order goes.
OrderSame(r, s, X) ==
    /\ \A u \in Threads \ X : r.prio[u] = s.prio[u]
    /\ \A u, v \in Threads \ X : <<u, v>> \in r.order <=> <<u, v>> \in s.order

\* r is s with t among the waiters of o.
Joined(r, s, o, t) ==
    /\ Same(r, s, {"owner", "kwaiters", "prio", "order"})
    /\ r.owner = [s.owner EXCEPT ![t] = o]
    /\ r.kwaiters = [s.kwaiters EXCEPT ![o] = @ + Count(s.key[t])]

\* t may wait for o: the chain stays short.
MayJoin(s, o, t) ==
    /\ o # t /\ s.owner[t] = Nobody /\ s.condvar[t] = Nobody /\ s.key[t] \in AddressKeys
    /\ Up(s, s.owner[o]) = Nobody
    /\ \A u \in Threads : s.owner[u] = t => s.owner[o] = Nobody /\ \A v \in Threads : s.owner[v] # u

\* r is s with t no longer among the waiters of its owner.
Left(r, s, t) ==
    /\ Same(r, s, {"owner", "kwaiters", "prio", "order"})
    /\ r.owner = [s.owner EXCEPT ![t] = Nobody]
    /\ r.kwaiters = [s.kwaiters EXCEPT ![s.owner[t]] = @ - Count(s.key[t])]

\* The owners when the waiters S of an owner are handed to n, one of them, which
\* waits no more.
PassedOwner(s, S, n) ==
    [t \in Threads |-> IF t = n THEN Nobody ELSE IF t \in S THEN n ELSE s.owner[t]]
HandedOn(r, s, S, n) ==
    Same(r, s, {"owner", "kwaiters", "prio", "order"}) /\ r.owner = PassedOwner(s, S, n)

\* Thread u waits, or not, for the same; the same for the suspensions of all.
Alike(r, s, u) ==
    /\ r.state[u] = s.state[u] /\ r.queue[u] = s.queue[u] /\ r.owner[u] = s.owner[u]
    /\ r.key[u] = s.key[u] /\ r.condvar[u] = s.condvar[u] /\ r.result[u] = s.result[u]
    /\ u \in r.timer <=> u \in s.timer
SameSusp(r, s) == r.flags = s.flags /\ r.request = s.request /\ r.allow = s.allow
-----------------------------------------------------------------------------
(* The facts.                                                              *)

\* There are so many threads, and the count of a thread's kernel waiters tells
\* whether there are any.
CountsTell ==
    /\ Cardinality(Threads) \in Nat
    /\ \A s : \A t \in Threads : Trees(s) => (s.kwaiters[t] > 0 <=> KernelWaiters(s, t) # {})

\* What holds of the first turn of a loop, and of a turn if of the one before,
\* holds of every turn.
Climb ==
    \A n \in Nat : \A S :
        0 \in S /\ (\A i \in 0 .. n - 1 : i \in S => i + 1 \in S) => \A i \in 0 .. n : i \in S

\* Taking a thread out of the order leaves the order of the others.
RemoveLinear ==
    \A o : \A t \in Threads : Linear(o) =>
        /\ Linear(Remove(o, t)) /\ Linked(Remove(o, t)) = Linked(o) \ {t}
        /\ \A u, v \in Threads \ {t} : <<u, v>> \in Remove(o, t) <=> <<u, v>> \in o

\* A thread that is put into the order comes after all others.
InsertedLinear ==
    \A o : \A t \in Threads : Linear(o) =>
        /\ Linear(Inserted(o, t)) /\ Linked(Inserted(o, t)) = Linked(o) \cup {t}
        /\ \A u, v \in Threads \ {t} : <<u, v>> \in Inserted(o, t) <=> <<u, v>> \in o

\* The front of a tree, which GetHighestPriorityWaiter and nfind_key return.
FrontIs ==
    \A s, S :
        /\ s.prio \in [Threads -> Nat] /\ Linear(s.order) /\ S \subseteq Linked(s.order) /\ S # {}
        => /\ FrontOf(s, S) \in S
           /\ \A u \in S \ {FrontOf(s, S)} : InFront(s, FrontOf(s, S), u)
           /\ \A u \in S : s.prio[FrontOf(s, S)] <= s.prio[u]

\* AddWaiter, with the priorities its caller and the caller's chain inherit.
AddWaiterIs ==
    \A s, r : \A o, t \in Threads :
        Trees(s) /\ MayJoin(s, o, t) /\ r = AddWaiter(s, o, t)
        => Joined(r, s, o, t) /\ Trees(r) /\ OrderSame(r, s, {t, o, s.owner[o]})

\* RemoveWaiter, with the priorities the owner and its chain lose.
RemoveWaiterIs ==
    \A s, r : \A t \in Threads :
        Trees(s) /\ s.owner[t] # Nobody /\ r = RemoveWaiter(s, t) => Left(r, s, t) /\ Trees(r)

\* RemoveWaiterByKey: the front of the waiters is the next owner, and the others
\* wait for it; everybody's priority is right again.
RemoveByKeyIs ==
    \A s, a, S, q : \A o \in Threads :
        Trees(s) /\ S = WaitersByKey(s, o, a) /\ S # {} /\ q = RemoveWaiterByKey(s, o, a)
        => /\ q.next \in S /\ (q.more = (S # {q.next}))
           /\ HandedOn(q.s, s, S, q.next) /\ Trees(q.s)

\* A new base priority, with the priorities that follow from it.
NewBaseIs ==
    \A s, r : \A t \in Threads : \A n \in Nat :
        Trees(s) /\ r = RestorePriority([s EXCEPT !.base[t] = n], t)
        => Trees(r) /\ SameSusp(r, s) /\ \A u \in Threads : Alike(r, s, u)

ThreadFacts ==
    /\ CountsTell /\ Climb /\ RemoveLinear /\ InsertedLinear /\ FrontIs
    /\ AddWaiterIs /\ RemoveWaiterIs /\ RemoveByKeyIs /\ NewBaseIs
=============================================================================
