------------------------------ MODULE FreePool ------------------------------
(***************************************************************************)
(* What a slab heap promises its callers: every object is either in the    *)
(* pool or held by the program, taking an object gives one that nobody     *)
(* holds, and a caller is told that the pool is empty only when it is.     *)
(***************************************************************************)
EXTENDS Integers

CONSTANTS NumObjects,  \* objects in the heap
          Thread       \* threads that use it

VARIABLES pool,        \* objects that can be taken
          told         \* threads that were told the pool is empty

poolVars == <<pool, told>>

Object == 1 .. NumObjects

PoolInit == pool = Object /\ told = {}

\* A thread takes some object out of the pool.
Take(o) == o \in pool /\ pool' = pool \ {o} /\ UNCHANGED told

\* An object that was taken comes back.
Put(o) == o \in Object \ pool /\ pool' = pool \cup {o} /\ UNCHANGED told

\* A thread finds the pool empty, and later goes its way (to malloc, or with
\* a null pointer).
Miss(t) == pool = {} /\ t \notin told /\ told' = told \cup {t} /\ UNCHANGED pool

Leave(t) == t \in told /\ told' = told \ {t} /\ UNCHANGED pool

PoolNext ==
    \/ \E o \in Object : Take(o) \/ Put(o)
    \/ \E t \in Thread : Miss(t) \/ Leave(t)

PoolSpec == PoolInit /\ [][PoolNext]_poolVars
=============================================================================
