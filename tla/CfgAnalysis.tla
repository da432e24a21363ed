---------------------------- MODULE CfgAnalysis ----------------------------
(***************************************************************************)
(* CFGAnalysisPass (runtime/ir/opts/cfg_analysis_pass.cpp) over every      *)
(* function HirBuilder can build: back edges by depth-first search, then   *)
(* immediate dominators and a reverse post order in one walk that enters a *)
(* block when its forward edges have been visited.                         *)
(***************************************************************************)
EXTENDS HirBuilder

VARIABLES
    phase,      \* "build", "back", "dom", "done"; "hung" in an endless loop,
                \* "assert" after a failed ASSERT
    visited,    \* FindBackEdges' bit vectors
    visiting,
    back,       \* each block's back_edges: the sources, in the order found
    flagged,    \* destinations of the edges marked Edge::DOMINATES
    worklist,   \* of either walk, the back of the vector last
    nsucc,      \* successors_visited, by block id
    visits,     \* visits, by block id
    idom,       \* HIRBlock::dominator, Nil for nullptr
    rpo,        \* the blocks pushed to GetHIRBlocksRPO(), in order
    next, prev  \* IntrusiveListNode's pointers, of the blocks and the two list roots

passVars == <<phase, visited, visiting, back, flagged, worklist, nsucc, visits, idom, rpo, next, prev>>
vars     == <<builderVars, passVars>>

BlockRoot == -2   \* m_root_node of block_list
RpoRoot   == -3   \* m_root_node of blocks_rpo

Init ==
    /\ BuilderInit
    /\ phase = "build" /\ visited = {} /\ visiting = {} /\ back = <<>> /\ flagged = {}
    /\ worklist = <<>> /\ nsucc = <<>> /\ visits = <<>> /\ idom = <<>> /\ rpo = <<>>
    /\ next = <<>> /\ prev = <<>>

Zeros == [b \in Block |-> 0]

\* block_list as the builder linked it, read forwards (1) or backwards (-1), with
\* blocks_rpo empty.
Ring(dir) ==
    [x \in Block \cup {BlockRoot, RpoRoot} |->
        CASE x = RpoRoot   -> RpoRoot
          [] x = BlockRoot -> IF dir = 1 THEN 0 ELSE n - 1
          [] OTHER         -> IF x + dir \in Block THEN x + dir ELSE BlockRoot]

\* FindDominateEdges: the blocks whose one incoming edge is marked.  The mutant
\* marks the first edge of every block that has one.
AnyIncoming == {b \in Block : InDegree(b) >= 1}

OnlyIncoming == {b \in Block : InDegree(b) = 1}

\* Run: FindDominateEdges, and the start of FindBackEdges at the entry block.
Start ==
    /\ phase = "build" /\ cur = Nil
    /\ phase' = "back"
    /\ flagged' = OnlyIncoming
    /\ visited' = {0} /\ visiting' = {0} /\ worklist' = <<0>>
    /\ nsucc' = Zeros /\ visits' = Zeros /\ idom' = [b \in Block |-> Nil]
    /\ next' = Ring(1) /\ prev' = Ring(-1)
    /\ back' = [b \in Block |-> <<>>]
    /\ UNCHANGED <<builderVars, rpo>>

Exhausted(b) == nsucc[b] = Len(Successors(b))
NextSucc(b)  == Successors(b)[nsucc[b] + 1]

----------------------------------------------------------------------------
(* FindBackEdges                                                           *)

\* Mutant: the block is not popped.
BackLeaveNoPop ==
    /\ phase = "back" /\ worklist # <<>> /\ Exhausted(Last(worklist))
    /\ visiting' = visiting \ {Last(worklist)}
    /\ UNCHANGED <<builderVars, phase, visited, back, flagged, worklist, nsucc, visits, idom, rpo, next, prev>>

BackLeave ==
    /\ phase = "back" /\ worklist # <<>> /\ Exhausted(Last(worklist))
    /\ visiting' = visiting \ {Last(worklist)}
    /\ worklist' = Front(worklist)
    /\ UNCHANGED <<builderVars, phase, visited, back, flagged, nsucc, visits, idom, rpo, next, prev>>

\* successor->AddBackEdge(current), one node for every edge.  The mutant keeps
\* one node for every source.
AddBackEdgeOnce(s, current) ==
    back' = IF current \in Range(back[s]) THEN back ELSE [back EXCEPT ![s] = Append(@, current)]

AddBackEdge(s, current) == back' = [back EXCEPT ![s] = Append(@, current)]

BackStep ==
    LET current == Last(worklist)
        s == NextSucc(current)
    IN
    /\ phase = "back" /\ worklist # <<>> /\ ~Exhausted(current)
    /\ nsucc' = [nsucc EXCEPT ![current] = @ + 1]
    /\ \/ /\ s \in visiting
          /\ phase' = IF Contains(worklist, s) THEN phase ELSE "assert"
          /\ AddBackEdge(s, current)
          /\ UNCHANGED <<visited, visiting, worklist>>
       \/ /\ s \notin visiting /\ s \notin visited
          /\ visited' = visited \cup {s} /\ visiting' = visiting \cup {s}
          /\ worklist' = Append(worklist, s)
          /\ UNCHANGED <<phase, back>>
       \/ /\ s \notin visiting /\ s \in visited
          /\ UNCHANGED <<phase, visited, visiting, back, worklist>>
    /\ UNCHANGED <<builderVars, flagged, visits, idom, rpo, next, prev>>

\* The end of FindBackEdges and the start of ComputeDominanceInformation.
BackDone ==
    /\ phase = "back" /\ worklist = <<>>
    /\ phase' = "dom" /\ worklist' = <<0>> /\ nsucc' = Zeros
    /\ UNCHANGED <<builderVars, visited, visiting, back, flagged, visits, idom, rpo, next, prev>>

----------------------------------------------------------------------------
(* CommonDominator                                                         *)

\* b, its dominator, that one's dominator and so on, i steps up; Nil past the end.
Up(b, i) == LET up[j \in 0 .. i] ==
                  IF j = 0 THEN b ELSE LET x == up[j - 1] IN IF x = Nil THEN Nil ELSE idom[x]
            IN  up[i]

\* A chain that is longer than the number of blocks goes round in a circle, and
\* ChainLength does not return.
Endless(b)     == Up(b, n) # Nil
ChainLength(b) == CHOOSE i \in 0 .. n : Up(b, i) = Nil /\ \A j \in 0 .. i - 1 : Up(b, j) # Nil

\* Mutant: the first dominator is kept.
CommonDominatorKeepsFirst(b1, b2) == b1

\* Update: equalize the chain lengths, then climb together.  Nil if the chains
\* never meet (ASSERT(block != nullptr)).
CommonDominator(b1, b2) ==
    LET l1 == ChainLength(b1)
        l2 == ChainLength(b2)
        x  == IF l1 > l2 THEN Up(b1, l1 - l2) ELSE b1
        y  == IF l2 > l1 THEN Up(b2, l2 - l1) ELSE b2
        i  == CHOOSE j \in 0 .. n : Up(x, j) = Up(y, j) /\ \A m \in 0 .. j - 1 : Up(x, m) # Up(y, m)
    IN  Up(x, i)

----------------------------------------------------------------------------
(* ComputeDominanceInformation                                             *)

\* blocks_rpo.push_back(x): SplicePrev of the one node x in front of the root.
\* Nothing unlinks x from the list it is in.
PushBackRpo(x) ==
    /\ prev' = [prev EXCEPT ![x] = prev[RpoRoot], ![RpoRoot] = prev[x]]
    /\ next' = [next EXCEPT ![prev[x]] = RpoRoot, ![prev[RpoRoot]] = x]

DomLeave ==
    /\ phase = "dom" /\ worklist # <<>> /\ Exhausted(Last(worklist))
    /\ worklist' = Front(worklist)
    /\ UNCHANGED <<builderVars, phase, visited, visiting, back, flagged, nsucc, visits, idom, rpo,
                   next, prev>>

\* This visit to s is the last of its forward edges.  Mutants: it is the first;
\* back edges are waited for too.
EntersAtFirst(s) == visits[s] = 0
EntersWaiting(s) == visits[s] + 1 = InDegree(s)

Enters(s) == visits[s] + 1 = InDegree(s) - Len(back[s])

\* What UpdateDominatorOfSuccessor makes the dominator of s.
NewDominator(block, s) == IF idom[s] = Nil THEN block ELSE CommonDominator(idom[s], block)

\* One successor: UpdateDominatorOfSuccessor, then the count of visits.
DomStep ==
    LET current == Last(worklist)
        s == NextSucc(current)
        hangs == idom[s] # Nil /\ (Endless(idom[s]) \/ Endless(current))
        d == NewDominator(current, s)
    IN
    /\ phase = "dom" /\ worklist # <<>> /\ ~Exhausted(current)
    /\ IF hangs \/ d = Nil
       THEN /\ phase' = IF hangs THEN "hung" ELSE "assert"
            /\ UNCHANGED <<nsucc, visits, idom, rpo, worklist, next, prev>>
       ELSE /\ nsucc' = [nsucc EXCEPT ![current] = @ + 1]
            /\ idom' = [idom EXCEPT ![s] = d]
            /\ visits' = [visits EXCEPT ![s] = @ + 1]
            /\ IF Enters(s)
               THEN /\ rpo' = Append(rpo, s) /\ PushBackRpo(s)
                    /\ worklist' = Append(worklist, s)
               ELSE UNCHANGED <<rpo, next, prev, worklist>>
            /\ UNCHANGED phase
    /\ UNCHANGED <<builderVars, visited, visiting, back, flagged>>

DomDone ==
    /\ phase = "dom" /\ worklist = <<>>
    /\ phase' = "done"
    /\ UNCHANGED <<builderVars, visited, visiting, back, flagged, worklist, nsucc, visits, idom, rpo,
                   next, prev>>

Analyse == Start \/ BackLeave \/ BackStep \/ BackDone \/ DomLeave \/ DomStep \/ DomDone

Next == (phase = "build" /\ Build /\ UNCHANGED passVars) \/ Analyse

Spec == Init /\ [][Next]_vars
LiveSpec == Spec /\ WF_vars(Analyse)
----------------------------------------------------------------------------
(* The reference: dominators from reachability.                            *)

\* The blocks that can be reached from the entry without passing through d.
ReachAvoiding(d) ==
    LET reach[i \in 0 .. n] ==
          IF i = 0 THEN {0} \ {d}
          ELSE LET r == reach[i - 1] IN r \cup (UNION {Range(out[a]) : a \in r} \ {d})
    IN  reach[n]

Reachable == ReachAvoiding(Nil)

\* d dominates b: every way from the entry to b passes through d.
Dominates(d, b) == d = b \/ b \notin ReachAvoiding(d)

IsIdom(d, b) ==
    /\ d \in Reachable /\ d # b /\ Dominates(d, b)
    /\ \A x \in Reachable \ {b} : Dominates(x, b) => Dominates(x, d)

\* An edge that leads back to a dominator of its source.
Retreating(a, b) == HasEdge(a, b) /\ Dominates(b, a)

\* Every loop is entered through its header: without those edges there is no cycle.
Reducible ==
    LET forward == {e \in Block \X Block : HasEdge(e[1], e[2]) /\ ~Retreating(e[1], e[2])} IN
    \A S \in SUBSET Block : S # {} => \E a \in S : \A b \in S : <<a, b>> \notin forward

EntryHasNoEdges == \A b \in Block : ~HasEdge(b, 0)

\* The functions the pass is made for.
WellFormed == EntryHasNoEdges /\ Reachable = Block /\ Reducible
----------------------------------------------------------------------------
(* Properties                                                              *)

\* On a well-formed function, FindBackEdges finds the edges that lead back to a
\* dominator, each as often as it is there, whatever the order of successors.
BackEdgesRight ==
    phase = "dom" /\ rpo = <<>> /\ WellFormed =>
        \A a, b \in Block :
            Count(back[b], a) = IF Retreating(a, b) THEN EdgesBetween(a, b) ELSE 0

\* The dominators the pass leaves behind are the immediate dominators.
IdomRight ==
    phase = "done" /\ WellFormed =>
        idom[0] = Nil /\ \A b \in Block \ {0} : IsIdom(idom[b], b)

\* A block whose incoming edge is marked Edge::DOMINATES is dominated by that
\* edge's source: there is an edge to it from its immediate dominator.
MarkedEdgesDominate ==
    phase = "done" /\ WellFormed => \A b \in flagged : HasEdge(idom[b], b)

\* Once all the forward edges of a block have been visited and it is entered, its
\* immediate dominator is known, on a well-formed function.  (In a loop with two
\* entries it need not be: the search takes for a back edge what is none.)
DominatorKnown ==
    phase = "dom" /\ WellFormed => \A i \in DOMAIN rpo : IsIdom(idom[rpo[i]], rpo[i])

\* The order the blocks are entered in holds every block but the entry once, and
\* only back edges go against it.
RpoRight ==
    phase = "done" /\ WellFormed =>
        LET order == <<0>> \o rpo IN
        /\ Len(order) = n /\ Range(order) = Block
        /\ \A i, j \in DOMAIN order :
             i >= j /\ HasEdge(order[i], order[j]) => order[i] \in Range(back[order[j]])

\* Walking blocks_rpo visits those blocks and comes back to its root.
RpoListed ==
    phase = "done" =>
        LET walk[i \in 0 .. Len(rpo) + 1] == IF i = 0 THEN RpoRoot ELSE next[walk[i - 1]]
        IN  \A i \in 1 .. Len(rpo) + 1 : walk[i] = IF i <= Len(rpo) THEN rpo[i] ELSE RpoRoot

\* The climb up two dominator chains comes to an end.
ClimbEnds == phase # "hung"

\* Even on a function that is not well-formed, with unreachable blocks or loops
\* with two entries, the pass ends with no failed assertion and no endless climb
\* up the dominator chains, unless the entry block is itself in a loop.
PassEnds == phase = "back" ~> phase = "done" \/ ~EntryHasNoEdges
=============================================================================
