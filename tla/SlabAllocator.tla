--------------------------- MODULE SlabAllocator ---------------------------
(***************************************************************************)
(* The lock-free slab heap of runtime/common/slab_alloc.{h,cc}: a Treiber  *)
(* stack of free objects threaded through the objects' own first words,    *)
(* with malloc behind it (SlabObject's operator new and delete).           *)
(*                                                                         *)
(* Addresses are numbers: 0 is nullptr, 1..NumObjects the slab in address  *)
(* order, the next NumExtern the blocks malloc can hand out, and Junk any  *)
(* other word an object may hold (a vtable pointer, guest data).           *)
(* Every load, store and compare-exchange is a step of its own.            *)
(***************************************************************************)
EXTENDS Integers, Sequences

CONSTANTS
    Thread,        \* threads using the heap
    Allocators,    \* the threads that allocate
    Freers,        \* the threads that free
    NumObjects,    \* objects in the slab
    NumExtern      \* blocks malloc can have outstanding

ASSUME SlabAssumption ==
    /\ Allocators \subseteq Thread /\ Freers \subseteq Thread
    /\ NumObjects \in Nat \ {0} /\ NumExtern \in Nat

VARIABLES
    head,   \* SlabAllocator::head
    next,   \* the first word of each slab object: Node::next while it is free
    live,   \* objects handed out by operator new and not yet deleted
    made,   \* objects handed out by SlabHeap::New and not yet deleted
    pc,     \* where each thread is
    ret,    \* Allocate's ret, Free's cur_head: the expected value of the CAS
    nx,     \* ret->next as Allocate read it
    obj,    \* the object a thread is freeing
    stack   \* history: the free objects, oldest first, as the CASes built it

vars == <<head, next, live, made, pc, ret, nx, obj, stack>>

Node   == 1 .. NumObjects
Extern == (NumObjects + 1) .. (NumObjects + NumExtern)
Junk   == NumObjects + NumExtern + 1
Word   == 0 .. Junk
PC     == {"idle", "load", "next", "cas", "null", "fload", "link", "push"}

\* SlabHeap::Contains
Contains(addr) == 1 <= addr /\ addr <= NumObjects

\* The objects some thread is in the middle of freeing.
Freeing == {obj[t] : t \in {u \in Thread : pc[u] \in {"fload", "link", "push"}}}

\* The heap as SlabHeap::Initialize leaves it: it frees the objects from the
\* last to the first, so that the first one is on top.
Init ==
    /\ head = 1
    /\ next = [n \in Node |-> IF n = NumObjects THEN 0 ELSE n + 1]
    /\ stack = [i \in 1 .. NumObjects |-> NumObjects + 1 - i]
    /\ live = {} /\ made = {}
    /\ pc = [t \in Thread |-> "idle"]
    /\ ret = [t \in Thread |-> 0]
    /\ nx = [t \in Thread |-> 0]
    /\ obj = [t \in Thread |-> 0]

Goto(t, from, to) == pc[t] = from /\ pc' = [pc EXCEPT ![t] = to]

----------------------------------------------------------------------------
(* Allocate                                                                *)

\* A thread enters Allocate, through operator new or SlabHeap::New.
BeginAllocate(t) ==
    /\ t \in Allocators
    /\ Goto(t, "idle", "load")
    /\ UNCHANGED <<head, next, live, made, ret, nx, obj, stack>>

\* ret = head.load(), and the null test at the top of the loop.
LoadHead(t) ==
    /\ Goto(t, "load", IF head = 0 THEN "null" ELSE "next")
    /\ ret' = [ret EXCEPT ![t] = head]
    /\ UNCHANGED <<head, next, live, made, nx, obj, stack>>

\* ret->next, evaluated before the compare-exchange.  Outside the slab it is
\* whatever that memory holds.
ReadNext(t) ==
    /\ Goto(t, "next", "cas")
    /\ \E w \in Word :
         /\ ret[t] \in Node => w = next[ret[t]]
         /\ nx' = [nx EXCEPT ![t] = w]
    /\ UNCHANGED <<head, next, live, made, ret, obj, stack>>

\* Mutant: a plain store instead of the compare-exchange.
CasPopBlind(t) ==
    /\ Goto(t, "cas", "idle")
    /\ head' = nx[t]
    /\ \/ live' = live \cup {ret[t]} /\ UNCHANGED made
       \/ made' = made \cup {ret[t]} /\ UNCHANGED live
    /\ stack' = IF Len(stack) = 0 THEN stack ELSE SubSeq(stack, 1, Len(stack) - 1)
    /\ UNCHANGED <<next, ret, nx, obj>>

\* The compare-exchange succeeds and Allocate returns ret.
CasPop(t) ==
    /\ Goto(t, "cas", "idle")
    /\ head = ret[t]
    /\ head' = nx[t]
    /\ \/ live' = live \cup {ret[t]} /\ UNCHANGED made
       \/ made' = made \cup {ret[t]} /\ UNCHANGED live
    /\ stack' = IF Len(stack) = 0 THEN stack ELSE SubSeq(stack, 1, Len(stack) - 1)
    /\ UNCHANGED <<next, ret, nx, obj>>

\* Mutant: no loop, so that a failed exchange returns nullptr.
CasPopFailGivesUp(t) ==
    /\ Goto(t, "cas", "null")
    /\ ret' = [ret EXCEPT ![t] = 0]
    /\ UNCHANGED <<head, next, live, made, nx, obj, stack>>

\* It fails, because head moved or spuriously (it is the weak form), reloads
\* ret and goes round the loop.
CasPopFail(t) ==
    /\ Goto(t, "cas", IF head = 0 THEN "null" ELSE "next")
    /\ ret' = [ret EXCEPT ![t] = head]
    /\ UNCHANGED <<head, next, live, made, nx, obj, stack>>

\* Allocate returned nullptr to SlabHeap::New, which passes it on.
ReturnNull(t) ==
    /\ Goto(t, "null", "idle")
    /\ UNCHANGED <<head, next, live, made, ret, nx, obj, stack>>

\* Allocate returned nullptr to TryAllocate, which calls malloc.
Malloc(t) ==
    /\ Goto(t, "null", "idle")
    /\ \E a \in Extern \ live : live' = live \cup {a}
    /\ UNCHANGED <<head, next, made, ret, nx, obj, stack>>

----------------------------------------------------------------------------
(* Free                                                                    *)

\* Mutant: operator delete gives everything back to the slab heap.
TryFreeToHeap(t, o) ==
    /\ t \in Freers /\ o \in live
    /\ live' = live \ {o}
    /\ Goto(t, "idle", "fload") /\ obj' = [obj EXCEPT ![t] = o]
    /\ UNCHANGED <<head, next, made, ret, nx, stack>>

\* operator delete: TryFree sends an address inside the slab to the heap and
\* any other to free().
TryFree(t, o) ==
    /\ t \in Freers /\ o \in live
    /\ live' = live \ {o}
    /\ IF Contains(o)
       THEN Goto(t, "idle", "fload") /\ obj' = [obj EXCEPT ![t] = o]
       ELSE Goto(t, "idle", "idle") /\ UNCHANGED obj
    /\ UNCHANGED <<head, next, made, ret, nx, stack>>

\* SlabHeap::Delete: destroys the object and frees it, whatever its address.
Delete(t, o) ==
    /\ t \in Freers /\ o \in made
    /\ made' = made \ {o}
    /\ Goto(t, "idle", "fload")
    /\ obj' = [obj EXCEPT ![t] = o]
    /\ UNCHANGED <<head, next, live, ret, nx, stack>>

\* cur_head = head.load()
FreeLoad(t) ==
    /\ Goto(t, "fload", "link")
    /\ ret' = [ret EXCEPT ![t] = head]
    /\ UNCHANGED <<head, next, live, made, nx, obj, stack>>

\* node->next = cur_head
Link(t) ==
    /\ Goto(t, "link", "push")
    /\ next' = IF obj[t] \in Node THEN [next EXCEPT ![obj[t]] = ret[t]] ELSE next
    /\ UNCHANGED <<head, live, made, ret, nx, obj, stack>>

\* The compare-exchange succeeds: the object is on the list.
CasPush(t) ==
    /\ Goto(t, "push", "idle")
    /\ head = ret[t]
    /\ head' = obj[t]
    /\ stack' = Append(stack, obj[t])
    /\ UNCHANGED <<next, live, made, ret, nx, obj>>

\* Mutant: the link is stored once, before the loop.
CasPushFailNoRelink(t) ==
    /\ Goto(t, "push", "push")
    /\ ret' = [ret EXCEPT ![t] = head]
    /\ UNCHANGED <<head, next, live, made, nx, obj, stack>>

\* It fails and reloads cur_head; the loop stores the link again.
CasPushFail(t) ==
    /\ Goto(t, "push", "link")
    /\ ret' = [ret EXCEPT ![t] = head]
    /\ UNCHANGED <<head, next, live, made, nx, obj, stack>>

\* The program writes an object it holds: the object's data lies over the link.
UseObject(o, w) ==
    /\ o \in (live \cup made) \cap Node
    /\ next' = [next EXCEPT ![o] = w]
    /\ UNCHANGED <<head, live, made, pc, ret, nx, obj, stack>>

Step(t) ==
    \/ BeginAllocate(t) \/ LoadHead(t) \/ ReadNext(t) \/ CasPop(t) \/ CasPopFail(t)
    \/ ReturnNull(t) \/ Malloc(t)
    \/ \E o \in Word : TryFree(t, o) \/ Delete(t, o)
    \/ FreeLoad(t) \/ Link(t) \/ CasPush(t) \/ CasPushFail(t)

Next ==
    \/ \E t \in Thread : Step(t)
    \/ \E o \in Node, w \in Word : UseObject(o, w)

Spec == Init /\ [][Next]_vars
----------------------------------------------------------------------------
(* Properties                                                              *)

\* The free list's compare-exchange is safe against a node that is popped and
\* pushed back between ret->next and the exchange only when nobody can do both
\* behind the allocating thread's back: one allocating thread, or no freeing.
SafeDiscipline == (\A a, b \in Allocators : a = b) \/ Freers = {}

\* The state of every variable is of the shape the code gives it.
TypeOK ==
    /\ head \in Word
    /\ next \in [Node -> Word]
    /\ live \subseteq Word /\ made \subseteq Word
    /\ pc \in [Thread -> PC]
    /\ ret \in [Thread -> Word] /\ nx \in [Thread -> Word] /\ obj \in [Thread -> Word]
    /\ stack \in Seq(Word)

\* The list a walk from head finds is exactly the objects that were freed and
\* not allocated since, newest first: no compare-exchange of Allocate or Free
\* ever cuts the list, ties it into a ring or lets head point at an object in
\* use, and no write of the program to an object it holds reaches the links.
FreeListIntact ==
    /\ head = IF Len(stack) = 0 THEN 0 ELSE stack[Len(stack)]
    /\ \A i \in 1 .. Len(stack) :
         /\ stack[i] \in Node
         /\ next[stack[i]] = IF i = 1 THEN 0 ELSE stack[i - 1]

\* Every slab object has one owner: Allocate never returns an object that the
\* free list, another holder or a Free in progress still has.
OneOwner ==
    /\ \A i, j \in 1 .. Len(stack) : stack[i] = stack[j] => i = j
    /\ \A i \in 1 .. Len(stack) : stack[i] \notin live \cup made \cup Freeing
    /\ live \cap made = {} /\ (live \cup made) \cap Freeing = {}
    /\ \A t, u \in Thread :
         /\ pc[t] \in {"fload", "link", "push"} /\ pc[u] \in {"fload", "link", "push"}
         /\ obj[t] = obj[u]
         => t = u

\* No object of the slab is lost by racing pushes and pops: it is free, held,
\* or on its way back.
NothingLost ==
    \A n \in Node : n \in live \cup made \cup Freeing \/ \E i \in 1 .. Len(stack) : stack[i] = n

\* SlabHeap::Free's assertion: what reaches the heap's free list lies in the
\* heap, whoever allocated it and whatever a racing Allocate read as its link.
AssertContains ==
    \A t \in Thread : pc[t] \in {"fload", "link", "push"} => Contains(obj[t])

\* The heap does what FreePool promises; the pool is the free list.
Pool == INSTANCE FreePool WITH
            pool <- {stack[i] : i \in 1 .. Len(stack)},
            told <- {t \in Thread : pc[t] = "null"}
ImplementsPool == Pool!PoolSpec

(* The inductive invariant behind them.                                    *)
InStack(n) == \E i \in 1 .. Len(stack) : stack[i] = n

\* Who may be where, and where what they hold came from.
Roles ==
    /\ \A t \in Thread :
         /\ pc[t] \in {"load", "next", "cas", "null"} => t \in Allocators
         /\ pc[t] \in {"fload", "link", "push"} => t \in Freers
    /\ made \subseteq Node /\ live \subseteq Node \cup Extern

\* What an Allocate in progress knows: the object it wants to pop is still on
\* the list with the link it read, or has left the list for good.
PopView ==
    \A t \in Thread : pc[t] \in {"next", "cas"} =>
        /\ ret[t] # 0
        /\ InStack(ret[t]) \/ Freers = {}
        /\ pc[t] = "cas" /\ InStack(ret[t]) => nx[t] = next[ret[t]]

\* A Free in progress writes no link but its own object's: between the store
\* and the exchange the link holds the expected head.
PushView == \A t \in Thread : pc[t] = "push" => next[obj[t]] = ret[t]

IInv ==
    /\ TypeOK /\ Roles /\ AssertContains /\ FreeListIntact /\ OneOwner
    /\ PopView /\ PushView /\ NothingLost
=============================================================================
