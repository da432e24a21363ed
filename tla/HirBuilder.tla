----------------------------- MODULE HirBuilder -----------------------------
(***************************************************************************)
(* The control-flow side of HIRBuilder and HIRFunction                     *)
(* (runtime/ir/hir_builder.{h,cpp}): blocks are created on first mention   *)
(* of their location, terminals end the current block and add edges, and   *)
(* Return closes the function.                                             *)
(*                                                                         *)
(* A block is its order id, the number of blocks created before it; a      *)
(* location nobody has mentioned yet is the id the next block would get.   *)
(***************************************************************************)
EXTENDS Integers, Sequences, SequencesExt

CONSTANTS
    MaxBlocks,   \* bound on blocks
    MaxEdges,    \* bound on edges
    OrphanIds    \* bound on the ids of blocks started before a terminal names them

ASSUME BuilderAssumption == MaxBlocks \in Nat \ {0} /\ MaxEdges \in Nat /\ OrphanIds \in Nat

VARIABLES
    out,   \* the destinations of each block's outgoing_edges, by order id
    cur    \* current_block; Nil once the function has ended

builderVars == <<out, cur>>

Nil == -1

n        == Cardinality(DOMAIN out)   \* block_order_id
Block    == DOMAIN out
NumEdges == SumFunction([b \in Block |-> Len(out[b])])

\* HIRFunction's constructor appends the entry block.
BuilderInit == out = [b \in {0} |-> <<>>] /\ cur = 0

\* CreateOrGetBlock of the given locations, in order: how many blocks there are
\* then, and that each location is a known block or the next new one.
Created(locs) == Max({n} \cup {locs[i] + 1 : i \in DOMAIN locs})
InOrder(locs) == \A i \in DOMAIN locs : locs[i] <= n \/ \E j \in 1 .. i - 1 : locs[i] <= locs[j] + 1

\* AppendBlock of locs in order, the last of which becomes current, and AddEdge
\* from the block that was current to the targets in order.
Extend(locs, targets) ==
    /\ cur # Nil /\ InOrder(locs)
    /\ out' = [b \in 0 .. Created(locs) - 1 |->
                 (IF b \in Block THEN out[b] ELSE <<>>) \o (IF b = cur THEN targets ELSE <<>>)]
    /\ cur' = Last(locs)

\* AppendBlock called by the front end: carry on in another block.
AppendBlock(b) == (b \in Block \/ b < OrphanIds) /\ Extend(<<b>>, <<>>)

\* If creates the else block first and adds the then edge first.
If(then, else) == Extend(<<else, then>>, <<then, else>>)

Switch(cases) == Extend(cases, cases)

LinkBlock(to) == Extend(<<to>>, <<to>>)

\* EndFunction: the last block is ended, the edge lists become the vectors of
\* successors and predecessors.
Return == cur # Nil /\ cur' = Nil /\ UNCHANGED out

Location     == 0 .. MaxBlocks - 1
HasRoom(num) == NumEdges + num <= MaxEdges   \* for that many more edges

Build ==
    \/ \E b \in Location : AppendBlock(b)
    \/ HasRoom(1) /\ \E b \in Location : LinkBlock(b)
    \/ HasRoom(2) /\ \E t, e \in Location : If(t, e)
    \/ HasRoom(3) /\ \E a, b, c \in Location : Switch(<<a, b, c>>)
    \/ Return
----------------------------------------------------------------------------
(* The graph the function has become.                                      *)

Successors(b) == out[b]

Count(seq, x) == Len(SelectSeq(seq, LAMBDA y : y = x))

\* How many edges lead from a to b, and to b: the size of its incoming_edges.
EdgesBetween(a, b) == Count(out[a], b)
InDegree(b)        == SumFunction([a \in Block |-> EdgesBetween(a, b)])

HasEdge(a, b) == b \in Range(out[a])
=============================================================================
