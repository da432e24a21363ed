----------------------------- MODULE SlabProofs -----------------------------
(***************************************************************************)
(* The slab heap keeps its free list intact and gives every object one     *)
(* owner, for any number of threads and objects, as long as the threads    *)
(* respect SafeDiscipline.                                                 *)
(***************************************************************************)
EXTENDS SlabAllocator, TLAPS

\* The initial heap, as SlabHeap::Initialize builds it, satisfies the invariant.
LEMMA InitInv == Init => IInv
<1> SUFFICES ASSUME Init PROVE IInv
  OBVIOUS
<1> USE SlabAssumption DEF Init, Node, Word, Junk, Extern
<1>1. Len(stack) = NumObjects /\ stack \in Seq(Word)
  OBVIOUS
<1>2. \A i \in 1 .. NumObjects : stack[i] = NumObjects + 1 - i
  OBVIOUS
<1>3. TypeOK
  BY <1>1 DEF TypeOK, PC
<1>4. Freeing = {}
  BY DEF Freeing
<1>5. FreeListIntact
  BY <1>1, <1>2 DEF FreeListIntact
<1>6. OneOwner
  BY <1>1, <1>2, <1>4 DEF OneOwner
<1>7. NothingLost
  <2> SUFFICES ASSUME NEW n \in Node PROVE \E i \in 1 .. Len(stack) : stack[i] = n
    BY DEF NothingLost
  <2>1. NumObjects + 1 - n \in 1 .. NumObjects
    OBVIOUS
  <2> QED
    BY <1>1, <1>2, <2>1
<1> QED
  BY <1>3, <1>5, <1>6, <1>7 DEF IInv, Roles, AssertContains, PopView, PushView

\* The address space: slab objects and malloc's blocks are disjoint, and none of
\* them is nullptr.
LEMMA Addresses ==
  /\ Node \subseteq Word /\ Extern \subseteq Word /\ 0 \in Word
  /\ 0 \notin Node /\ Node \cap Extern = {}
  /\ \A a \in Word : Contains(a) <=> a \in Node
BY SlabAssumption DEF Node, Extern, Junk, Word, Contains

\* Dropping the newest object of a non-empty stack.
LEMMA PopSeq ==
  ASSUME NEW S, NEW s \in Seq(S), Len(s) >= 1
  PROVE  /\ SubSeq(s, 1, Len(s) - 1) \in Seq(S)
         /\ Len(SubSeq(s, 1, Len(s) - 1)) = Len(s) - 1
         /\ \A i \in 1 .. Len(s) - 1 : SubSeq(s, 1, Len(s) - 1)[i] = s[i]
<1> DEFINE n == Len(s) - 1
<1>1. n \in Nat /\ n + 1 = Len(s)
  OBVIOUS
<1> HIDE DEF n
<1>2. SubSeq(s, 1, n) \in Seq(S)
  BY <1>1
<1>3. Len(SubSeq(s, 1, n)) = n
  BY <1>1
<1>4. \A i \in 1 .. n : SubSeq(s, 1, n)[i] = s[i]
  BY <1>1
<1> QED
  BY <1>2, <1>3, <1>4 DEF n

\* A head that is not null is the newest object of the free list.
LEMMA HeadOnStack ==
  ASSUME TypeOK, FreeListIntact, head # 0
  PROVE  Len(stack) \in 1 .. Len(stack) /\ head = stack[Len(stack)] /\ InStack(head)
BY DEF TypeOK, FreeListIntact, InStack

\* A step that moves one thread between points of the same operation, and
\* writes nothing shared, leaves the free list and the owners alone.
LEMMA LocalStep ==
  ASSUME TypeOK, AssertContains, FreeListIntact, OneOwner, NothingLost,
         UNCHANGED <<head, next, live, made, obj, stack>>,
         NEW t \in Thread, NEW to, pc' = [pc EXCEPT ![t] = to],
         pc[t] \in {"fload", "link", "push"} <=> to \in {"fload", "link", "push"}
  PROVE  AssertContains' /\ FreeListIntact' /\ OneOwner' /\ NothingLost'
<1>1. \A u \in Thread :
        pc'[u] \in {"fload", "link", "push"} <=> pc[u] \in {"fload", "link", "push"}
  BY DEF TypeOK
<1>2. Freeing' = Freeing
  BY <1>1 DEF Freeing
<1>3. AssertContains'
  BY <1>1 DEF AssertContains, Contains
<1>4. FreeListIntact'
  BY DEF FreeListIntact
<1>5. OneOwner'
  BY <1>1, <1>2 DEF OneOwner
<1>6. NothingLost'
  BY <1>2 DEF NothingLost
<1> QED
  BY <1>3, <1>4, <1>5, <1>6

\* Every step of a thread or of the program preserves the invariant.
LEMMA NextInv == SafeDiscipline /\ IInv /\ [Next]_vars => IInv'
<1> SUFFICES ASSUME SafeDiscipline, IInv, [Next]_vars PROVE IInv'
  OBVIOUS
<1> USE SlabAssumption, Addresses DEF IInv
<1>0. head # 0 => InStack(head)
  BY HeadOnStack
<1>1. ASSUME NEW t \in Thread, BeginAllocate(t) PROVE IInv'
  <2> USE <1>1 DEF BeginAllocate, Goto
  <2>1. AssertContains' /\ FreeListIntact' /\ OneOwner' /\ NothingLost'
    BY LocalStep, Zenon DEF TypeOK
  <2>2. TypeOK' /\ Roles'
    BY DEF TypeOK, PC, Roles
  <2>3. PopView' /\ PushView'
    BY DEF PopView, PushView, TypeOK, InStack
  <2> QED
    BY <2>1, <2>2, <2>3
<1>2. ASSUME NEW t \in Thread, LoadHead(t) PROVE IInv'
  <2> USE <1>2 DEF LoadHead, Goto
  <2>1. AssertContains' /\ FreeListIntact' /\ OneOwner' /\ NothingLost'
    BY LocalStep, Zenon DEF TypeOK
  <2>2. TypeOK' /\ Roles'
    BY DEF TypeOK, PC, Roles
  <2>3. PopView' /\ PushView'
    BY <1>0 DEF PopView, PushView, TypeOK, InStack
  <2> QED
    BY <2>1, <2>2, <2>3
<1>3. ASSUME NEW t \in Thread, ReadNext(t) PROVE IInv'
  <2> USE <1>3 DEF ReadNext, Goto
  <2>1. AssertContains' /\ FreeListIntact' /\ OneOwner' /\ NothingLost'
    BY LocalStep, Zenon DEF TypeOK
  <2>2. TypeOK' /\ Roles'
    BY DEF TypeOK, PC, Roles
  <2>3. PopView' /\ PushView'
    BY DEF PopView, PushView, TypeOK, InStack, FreeListIntact
  <2> QED
    BY <2>1, <2>2, <2>3
<1>4. ASSUME NEW t \in Thread, CasPopFail(t) PROVE IInv'
  <2> USE <1>4 DEF CasPopFail, Goto
  <2>1. AssertContains' /\ FreeListIntact' /\ OneOwner' /\ NothingLost'
    BY LocalStep, Zenon DEF TypeOK
  <2>2. TypeOK' /\ Roles'
    BY DEF TypeOK, PC, Roles
  <2>3. PopView' /\ PushView'
    BY <1>0 DEF PopView, PushView, TypeOK, InStack
  <2> QED
    BY <2>1, <2>2, <2>3
<1>5. ASSUME NEW t \in Thread, ReturnNull(t) PROVE IInv'
  <2> USE <1>5 DEF ReturnNull, Goto
  <2>1. AssertContains' /\ FreeListIntact' /\ OneOwner' /\ NothingLost'
    BY LocalStep, Zenon DEF TypeOK
  <2>2. TypeOK' /\ Roles'
    BY DEF TypeOK, PC, Roles
  <2>3. PopView' /\ PushView'
    BY DEF PopView, PushView, TypeOK, InStack
  <2> QED
    BY <2>1, <2>2, <2>3
<1>6. ASSUME NEW t \in Thread, FreeLoad(t) PROVE IInv'
  <2> USE <1>6 DEF FreeLoad, Goto
  <2>1. AssertContains' /\ FreeListIntact' /\ OneOwner' /\ NothingLost'
    BY LocalStep, Zenon DEF TypeOK
  <2>2. TypeOK' /\ Roles'
    BY DEF TypeOK, PC, Roles
  <2>3. PopView' /\ PushView'
    BY DEF PopView, PushView, TypeOK, InStack
  <2> QED
    BY <2>1, <2>2, <2>3
<1>7. ASSUME NEW t \in Thread, CasPushFail(t) PROVE IInv'
  <2> USE <1>7 DEF CasPushFail, Goto
  <2>1. AssertContains' /\ FreeListIntact' /\ OneOwner' /\ NothingLost'
    BY LocalStep, Zenon DEF TypeOK
  <2>2. TypeOK' /\ Roles'
    BY DEF TypeOK, PC, Roles
  <2>3. PopView' /\ PushView'
    BY DEF PopView, PushView, TypeOK, InStack
  <2> QED
    BY <2>1, <2>2, <2>3
<1>8. ASSUME NEW t \in Thread, CasPop(t) PROVE IInv'
  <2> USE <1>8 DEF CasPop, Goto
  <2> DEFINE n == Len(stack)
  <2>1. ret[t] # 0 /\ head = ret[t]
    BY DEF PopView
  <2>2. n \in Nat /\ n >= 1 /\ ret[t] = stack[n] /\ InStack(ret[t])
    BY <2>1, HeadOnStack DEF TypeOK
  <2>3. ret[t] \in Node /\ nx[t] = next[stack[n]]
    BY <2>2 DEF PopView, FreeListIntact
  <2>4. stack' \in Seq(Word) /\ Len(stack') = n - 1 /\ \A i \in 1 .. n - 1 : stack'[i] = stack[i]
    <3>1. stack' = SubSeq(stack, 1, n - 1)
      BY <2>2
    <3> QED
      BY <2>2, <3>1, PopSeq DEF TypeOK
  <2>4a. TypeOK'
    BY <2>3, <2>4 DEF TypeOK, PC
  <2>4b. Roles'
    BY <2>3 DEF Roles, TypeOK
  <2>5. Freeing' = Freeing
    BY DEF Freeing, TypeOK
  <2>6. AssertContains'
    BY DEF AssertContains, TypeOK, Contains
  <2>7. FreeListIntact'
    BY <2>2, <2>3, <2>4 DEF FreeListIntact
  <2>8. OneOwner'
    BY <2>2, <2>3, <2>4, <2>5 DEF OneOwner, TypeOK
  <2>9. PopView'
    <3> SUFFICES ASSUME NEW u \in Thread, pc'[u] \in {"next", "cas"}
                 PROVE  /\ ret[u] # 0
                        /\ InStack(ret[u])' \/ Freers = {}
                        /\ pc[u] = "cas" /\ InStack(ret[u])' => nx[u] = next[ret[u]]
      BY DEF PopView, TypeOK
    <3>1. u # t /\ pc[u] \in {"next", "cas"}
      BY DEF TypeOK
    <3>2. InStack(ret[u])' => InStack(ret[u])
      BY <2>2, <2>4 DEF InStack
    <3>3. Freers = {}
      BY <3>1 DEF SafeDiscipline, Roles
    <3> QED
      BY <3>1, <3>2, <3>3 DEF PopView
  <2>10. PushView'
    BY DEF PushView, TypeOK
  <2>11. NothingLost'
    <3> SUFFICES ASSUME NEW m \in Node, m # ret[t]
                 PROVE  m \in live' \cup made' \cup Freeing' \/ InStack(m)'
      BY DEF NothingLost, InStack
    <3>1. CASE InStack(m)
      <4>1. PICK i \in 1 .. n : stack[i] = m
        BY <3>1 DEF InStack
      <4>2. i \in 1 .. n - 1
        BY <2>2, <4>1
      <4> QED
        BY <2>4, <4>1, <4>2 DEF InStack
    <3> QED
      BY <3>1, <2>5 DEF NothingLost, InStack
  <2> QED
    BY <2>4a, <2>4b, <2>6, <2>7, <2>8, <2>9, <2>10, <2>11
<1>9. ASSUME NEW t \in Thread, Malloc(t) PROVE IInv'
  <2> USE <1>9 DEF Malloc, Goto
  <2>1. PICK a \in Extern \ live : live' = live \cup {a}
    OBVIOUS
  <2>2. TypeOK' /\ Roles'
    BY <2>1 DEF TypeOK, PC, Roles
  <2>3. Freeing' = Freeing
    BY DEF Freeing, TypeOK
  <2>4. AssertContains' /\ FreeListIntact'
    BY DEF AssertContains, FreeListIntact, TypeOK, Contains
  <2>5. OneOwner'
    BY <2>1, <2>3 DEF OneOwner, TypeOK, FreeListIntact, Roles, Freeing, AssertContains, Contains
  <2>6. PopView' /\ PushView'
    BY DEF PopView, PushView, TypeOK, InStack
  <2>7. NothingLost'
    BY <2>1, <2>3 DEF NothingLost
  <2> QED
    BY <2>2, <2>4, <2>5, <2>6, <2>7
<1>10. ASSUME NEW t \in Thread, NEW o \in Word, TryFree(t, o) \/ Delete(t, o) PROVE IInv'
  <2> USE <1>10 DEF TryFree, Delete, Goto
  <2>1. o \in live \cup made /\ live' \cup made' \subseteq live \cup made
    BY DEF TypeOK
  <2>2. CASE o \in Node
    <3>1. pc' = [pc EXCEPT ![t] = "fload"] /\ obj' = [obj EXCEPT ![t] = o] /\ t \in Freers
      BY <2>2
    <3>2. Freeing' = Freeing \cup {o}
      BY <3>1 DEF Freeing, TypeOK
    <3>3. o \notin live' \cup made' /\ live \cup made = live' \cup made' \cup {o}
      BY <2>1 DEF OneOwner
    <3>4. TypeOK'
      BY <3>1 DEF TypeOK, PC
    <3>5. Roles' /\ AssertContains'
      BY <2>2, <3>1 DEF Roles, AssertContains, Contains, TypeOK
    <3>6. FreeListIntact'
      BY DEF FreeListIntact
    <3>7. OneOwner'
      BY <2>2, <3>1, <3>2, <3>3 DEF OneOwner, TypeOK, Freeing
    <3>8. PopView' /\ PushView'
      <4>1. UNCHANGED <<head, next, ret, nx, stack>>
        OBVIOUS
      <4>2. PopView'
        BY <3>1, <4>1 DEF PopView, TypeOK, InStack
      <4>3. PushView'
        BY <3>1, <4>1 DEF PushView, TypeOK
      <4> QED
        BY <4>2, <4>3
    <3>9. NothingLost'
      BY <3>2, <3>3 DEF NothingLost
    <3> QED
      BY <3>4, <3>5, <3>6, <3>7, <3>8, <3>9
  <2>3. CASE o \notin Node
    <3>1. TryFree(t, o) /\ UNCHANGED <<pc, obj>> /\ live' = live \ {o} /\ made' = made
      BY <2>3, SMTT(30) DEF Roles, TypeOK
    <3>2. Freeing' = Freeing
      BY <3>1 DEF Freeing
    <3> QED
      BY <2>3, <3>1, <3>2
      DEF TypeOK, Roles, AssertContains, FreeListIntact, OneOwner, PopView, PushView,
          NothingLost, InStack, Contains
  <2> QED
    BY <2>2, <2>3
<1>11. ASSUME NEW t \in Thread, Link(t) PROVE IInv'
  <2> USE <1>11 DEF Link, Goto
  <2>1. obj[t] \in Node /\ obj[t] \in Freeing /\ ~InStack(obj[t])
    BY DEF AssertContains, TypeOK, Freeing, OneOwner, InStack
  <2>2. next' = [next EXCEPT ![obj[t]] = ret[t]]
    BY <2>1
  <2>3. TypeOK' /\ Roles'
    BY <2>2 DEF TypeOK, PC, Roles
  <2>4. Freeing' = Freeing
    BY DEF Freeing, TypeOK
  <2>5. AssertContains' /\ OneOwner' /\ NothingLost'
    BY <2>4 DEF AssertContains, OneOwner, NothingLost, TypeOK, Contains
  <2>6. FreeListIntact'
    BY <2>1, <2>2 DEF FreeListIntact, InStack, TypeOK
  <2>7. PopView'
    BY <2>1, <2>2 DEF PopView, InStack, TypeOK, FreeListIntact
  <2>8. PushView'
    BY <2>1, <2>2 DEF PushView, OneOwner, TypeOK, AssertContains
  <2> QED
    BY <2>3, <2>5, <2>6, <2>7, <2>8
<1>12. ASSUME NEW t \in Thread, CasPush(t) PROVE IInv'
  <2> USE <1>12 DEF CasPush, Goto
  <2> DEFINE n == Len(stack)
  <2>1. obj[t] \in Node /\ obj[t] \in Freeing /\ ~InStack(obj[t]) /\ next[obj[t]] = head
    BY DEF AssertContains, TypeOK, Freeing, OneOwner, InStack, PushView
  <2>2. /\ n \in Nat /\ stack' \in Seq(Word) /\ Len(stack') = n + 1
        /\ stack'[n + 1] = obj[t] /\ \A i \in 1 .. n : stack'[i] = stack[i]
    BY <2>1 DEF TypeOK
  <2>3. TypeOK' /\ Roles'
    BY <2>1, <2>2 DEF TypeOK, PC, Roles
  <2>4. Freeing' = Freeing \ {obj[t]}
    BY DEF Freeing, TypeOK, OneOwner
  <2>5. AssertContains'
    BY DEF AssertContains, Contains, TypeOK
  <2>6. FreeListIntact'
    BY <2>1, <2>2, SMTT(30) DEF FreeListIntact
  <2>7. OneOwner'
    BY <2>1, <2>2, <2>4 DEF OneOwner, TypeOK, InStack
  <2>8. PopView' /\ PushView'
    BY <2>1, <2>2 DEF PopView, PushView, InStack, TypeOK, Roles
  <2>9. NothingLost'
    BY <2>1, <2>2, <2>4 DEF NothingLost
  <2> QED
    BY <2>3, <2>5, <2>6, <2>7, <2>8, <2>9
<1>13. ASSUME NEW o \in Node, NEW w \in Word, UseObject(o, w) PROVE IInv'
  <2> USE <1>13 DEF UseObject
  <2>1. ~InStack(o) /\ o \notin Freeing
    BY DEF OneOwner, InStack
  <2>2. TypeOK' /\ Roles' /\ AssertContains'
    BY DEF TypeOK, Roles, AssertContains, Contains
  <2>3. Freeing' = Freeing
    BY DEF Freeing
  <2>4. FreeListIntact' /\ OneOwner' /\ NothingLost'
    BY <2>1, <2>3 DEF FreeListIntact, OneOwner, NothingLost, InStack, TypeOK
  <2>5. PopView' /\ PushView'
    BY <2>1, SMTT(30) DEF PopView, PushView, InStack, TypeOK, Freeing, AssertContains
  <2> QED
    BY <2>2, <2>4, <2>5
<1>14. CASE UNCHANGED vars
  BY <1>14 DEF vars, TypeOK, Roles, AssertContains, FreeListIntact, OneOwner, PopView, PushView,
               NothingLost, InStack, Contains, Freeing
<1> QED
  BY <1>1, <1>2, <1>3, <1>4, <1>5, <1>6, <1>7, <1>8, <1>9, <1>10, <1>11, <1>12, <1>13, <1>14
  DEF Next, Step

\* The whole invariant holds in every state the heap reaches, for any number of
\* threads and objects: one allocating thread with any number of freeing ones, or
\* any number of allocating threads while nothing is freed.
THEOREM SlabInvariant == ASSUME SafeDiscipline PROVE Spec => []IInv
<1>1. IInv /\ [Next]_vars => IInv'
  BY NextInv
<1> QED
  BY <1>1, InitInv, PTL DEF Spec

\* Allocate and Free keep the free list a list of exactly the free objects.
THEOREM SlabFreeListIntact == ASSUME SafeDiscipline PROVE Spec => []FreeListIntact
<1>1. IInv => FreeListIntact
  BY DEF IInv
<1> QED
  BY <1>1, SlabInvariant, PTL

\* Allocate gives every object of the slab to one owner.
THEOREM SlabOneOwner == ASSUME SafeDiscipline PROVE Spec => []OneOwner
<1>1. IInv => OneOwner
  BY DEF IInv
<1> QED
  BY <1>1, SlabInvariant, PTL

\* No object is lost by racing pushes and pops.
THEOREM SlabNothingLost == ASSUME SafeDiscipline PROVE Spec => []NothingLost
<1>1. IInv => NothingLost
  BY DEF IInv
<1> QED
  BY <1>1, SlabInvariant, PTL

\* The assertion in SlabHeap::Free never fires.
THEOREM SlabAssertContains == ASSUME SafeDiscipline PROVE Spec => []AssertContains
<1>1. IInv => AssertContains
  BY DEF IInv
<1> QED
  BY <1>1, SlabInvariant, PTL

\* The initial heap is a full pool.
LEMMA PoolInitial == Init => Pool!PoolInit
<1> SUFFICES ASSUME Init PROVE Pool!PoolInit
  OBVIOUS
<1>1. IInv
  BY InitInv
<1>2. \A n \in Node : InStack(n)
  BY <1>1, Zenon DEF IInv, NothingLost, Init, Freeing, InStack
<1>3. \A i \in 1 .. Len(stack) : stack[i] \in Node
  BY <1>1 DEF IInv, FreeListIntact
<1> QED
  BY <1>2, <1>3, Zenon DEF Pool!PoolInit, Pool!Object, Node, InStack, Init

\* Every step of the heap is a step of the pool or invisible to it: the successful
\* compare-exchanges take and put, and the null test is a miss only on an empty pool.
LEMMA PoolStep == SafeDiscipline /\ IInv /\ [Next]_vars => [Pool!PoolNext]_(Pool!poolVars)
<1> SUFFICES ASSUME SafeDiscipline, IInv, [Next]_vars
             PROVE  [Pool!PoolNext]_(Pool!poolVars)
  OBVIOUS
<1> DEFINE P == {stack[i] : i \in 1 .. Len(stack)}
           T == {t \in Thread : pc[t] = "null"}
<1> USE DEF IInv
<1>0. /\ (P' = P /\ T' = T) => UNCHANGED Pool!poolVars
      /\ \A o \in Node : (o \in P /\ P' = P \ {o} /\ T' = T) => Pool!Take(o)
      /\ \A o \in Node : (o \notin P /\ P' = P \cup {o} /\ T' = T) => Pool!Put(o)
      /\ \A t \in Thread : (P = {} /\ t \notin T /\ T' = T \cup {t} /\ P' = P) => Pool!Miss(t)
      /\ \A t \in Thread : (t \in T /\ T' = T \ {t} /\ P' = P) => Pool!Leave(t)
  BY Zenon DEF Pool!poolVars, Pool!Take, Pool!Put, Pool!Miss, Pool!Leave, Pool!Object, Node
<1>1. /\ \A o \in Node : (Pool!Take(o) \/ Pool!Put(o)) => Pool!PoolNext
      /\ \A t \in Thread : (Pool!Miss(t) \/ Pool!Leave(t)) => Pool!PoolNext
  BY DEF Pool!PoolNext, Pool!Object, Node
<1> HIDE DEF P, T
<1>2. ASSUME stack' = stack, pc' = pc PROVE UNCHANGED Pool!poolVars
  <2>1. P' = P /\ T' = T
    BY ONLY Zenon, <1>2 DEF P, T
  <2> QED
    BY ONLY Zenon, <1>0, <2>1
<1>3. ASSUME stack' = stack, NEW t \in Thread, NEW to, pc' = [pc EXCEPT ![t] = to],
             pc[t] # "null", to # "null"
      PROVE  UNCHANGED Pool!poolVars
  BY <1>0, <1>3 DEF P, T, TypeOK
<1>4. head = 0 => P = {}
  BY Addresses DEF P, FreeListIntact, TypeOK
<1>5. ASSUME NEW t \in Thread, LoadHead(t) \/ CasPopFail(t) PROVE [Pool!PoolNext]_(Pool!poolVars)
  <2>1. CASE head = 0
    <3>1. T' = T \cup {t} /\ t \notin T /\ P' = P
      BY <1>5, <2>1 DEF LoadHead, CasPopFail, Goto, T, P, TypeOK
    <3> QED
      BY <3>1, <2>1, <1>0, <1>1, <1>4
  <2> QED
    BY <1>3, <1>5, <2>1 DEF LoadHead, CasPopFail, Goto
<1>6. ASSUME NEW t \in Thread, ReturnNull(t) \/ Malloc(t) PROVE Pool!PoolNext
  <2>1. T' = T \ {t} /\ t \in T /\ P' = P
    BY <1>6 DEF ReturnNull, Malloc, Goto, T, P, TypeOK
  <2> QED
    BY <2>1, <1>0, <1>1
<1>7. ASSUME NEW t \in Thread, CasPop(t) PROVE Pool!PoolNext
  <2> DEFINE n == Len(stack)
  <2>1. n \in Nat /\ n >= 1 /\ stack[n] = ret[t] /\ ret[t] \in Node
    BY <1>7, HeadOnStack DEF CasPop, Goto, PopView, FreeListIntact, TypeOK
  <2>2. Len(stack') = n - 1 /\ \A i \in 1 .. n - 1 : stack'[i] = stack[i]
    BY <1>7, <2>1, PopSeq DEF CasPop, TypeOK
  <2>3. \A i \in 1 .. n - 1 : stack[i] # stack[n]
    BY <2>1 DEF OneOwner
  <2>4. ret[t] \in P /\ P' = P \ {ret[t]}
    BY ONLY <2>1, <2>2, <2>3, SMTT(30) DEF P
  <2>5. T' = T
    BY <1>7 DEF CasPop, Goto, T, TypeOK
  <2> QED
    BY <2>1, <2>4, <2>5, <1>0, <1>1, SMTT(30)
<1>8. ASSUME NEW t \in Thread, CasPush(t) PROVE Pool!PoolNext
  <2> DEFINE n == Len(stack)
  <2>1. n \in Nat /\ obj[t] \in Node /\ obj[t] \in Freeing /\ obj[t] \notin P
    BY <1>8, Addresses DEF CasPush, Goto, AssertContains, OneOwner, Freeing, TypeOK, P
  <2>2. Len(stack') = n + 1 /\ stack'[n + 1] = obj[t] /\ \A i \in 1 .. n : stack'[i] = stack[i]
    BY <1>8 DEF CasPush, TypeOK
  <2>3. P' = P \cup {obj[t]}
    BY <2>1, <2>2 DEF P
  <2>4. T' = T
    BY <1>8, SMTT(30) DEF CasPush, Goto, T, TypeOK
  <2> QED
    BY <2>1, <2>3, <2>4, <1>0, <1>1
<1>9. ASSUME NEW t \in Thread,
             \/ BeginAllocate(t) \/ ReadNext(t) \/ FreeLoad(t) \/ Link(t) \/ CasPushFail(t)
             \/ \E o \in Word : TryFree(t, o) \/ Delete(t, o)
      PROVE  UNCHANGED Pool!poolVars
  BY <1>3, <1>9 DEF BeginAllocate, ReadNext, FreeLoad, Link, CasPushFail, TryFree, Delete, Goto
<1> QED
  BY <1>2, <1>5, <1>6, <1>7, <1>8, <1>9 DEF Next, Step, UseObject, vars

\* The slab heap is a pool: Allocate takes an object nobody holds, Free puts it
\* back, and nullptr is returned only when every object is taken.
THEOREM SlabImplementsPool == ASSUME SafeDiscipline PROVE Spec => ImplementsPool
<1>1. IInv /\ [Next]_vars => [Pool!PoolNext]_(Pool!poolVars)
  BY PoolStep
<1> QED
  BY <1>1, PoolInitial, SlabInvariant, PTL DEF Spec, ImplementsPool, Pool!PoolSpec
=============================================================================
