-------------------------- MODULE LocalElimination --------------------------
(***************************************************************************)
(* LocalEliminationPass::Run(HIRFunction) on every function a front end    *)
(* can build: a load of a local whose value is known is bypassed, the      *)
(* instructions that read it read the value.  Terminals are not visited.   *)
(***************************************************************************)
EXTENDS HirValues, FiniteSetsExt

CONSTANT MaxPasses   \* bound: how often the pass is run

VARIABLE passes   \* runs of the pass so far

vars == <<valueVars, passes>>

Init == ValuesInit /\ passes = 0

\* The instructions block by block, blocks by order id.
InBlock(b) == SelectSeq([i \in Insts |-> i], LAMBDA i : code[i].block = b)
Order      == FlattenSeq([b \in 1 .. MaxOrder + 1 |-> InBlock(b - 1)])

\* Mutant: the value's block is not compared with the load's.
KnownAnywhere(p, i) == p.locals[code[i].local] # Nil

\* "local_value && local_value->block == block": the local is known to hold a
\* value of this block.
Known(p, i) ==
    LET v == p.locals[code[i].local] IN v # Nil /\ code[v].block = code[i].block

\* Mutant: the bypassed value stays in the map.
KeepHIRValue(p, i) == p.values

DestroyHIRValue(p, i) == p.values \ {i}

\* Mutant: only one of the uses is redirected.
RedirectOne(s, i, v) ==
    IF uses[i] = {} THEN s
    ELSE LET u == CHOOSE u \in uses[i] : TRUE IN SetArg(s, u[1], u[2], v)

\* "for (auto& use : hir_value->uses)": each use of i reads v instead.
Redirect(s, i, v) == FoldSet(LAMBDA u, r : SetArg(r, u[1], u[2], v), s, uses[i])

LoadLocal(p, i) ==
    IF ~(Known(p, i) /\ i \in p.values) THEN p
    ELSE [p EXCEPT !.h = Redirect(@, i, p.locals[code[i].local]), !.values = DestroyHIRValue(p, i)]

StoreLocal(p, i) ==
    LET v == p.h.arg[i][1]
    IN  [p EXCEPT !.locals[code[i].local] = IF v \in p.values THEN v ELSE Nil]

Visit(p, i) ==
    CASE code[i].op = "LoadLocal"  -> LoadLocal(p, i)
      [] code[i].op = "StoreLocal" -> StoreLocal(p, i)
      [] OTHER                     -> p

\* Run: current_locals, p.locals, starts empty.  A process that ends in the middle
\* leaves nothing to go on with.
Run ==
    LET start == [h |-> h, values |-> values, locals |-> [l \in Locals |-> Nil]]
        end   == FoldLeft(Visit, start, Order)
    IN
    /\ cur = Ended /\ h.ok /\ passes < MaxPasses
    /\ IF end.h.ok THEN h' = end.h /\ values' = end.values /\ passes' = passes + 1
                   ELSE h' = [h EXCEPT !.ok = FALSE] /\ UNCHANGED <<values, passes>>
    /\ UNCHANGED <<code, terms, uses, cur>>

Next == (Build /\ UNCHANGED passes) \/ Run

Spec == Init /\ [][Next]_vars
-----------------------------------------------------------------------------
\* What a value is, in the function as it was written: a load in the block of
\* the last store to its local before it is what that store stored.
RECURSIVE Meaning(_)
Meaning(v) ==
    LET stores == {i \in 1 .. v - 1 : /\ code[i].op = "StoreLocal" /\ code[i].local = code[v].local
                                      /\ code[i].block = code[v].block}
    IN  IF code[v].op = "LoadLocal" /\ stores # {} THEN Meaning(code[Max(stores)].arg[1]) ELSE v

\* The pass changes which value an argument names, never what it is.
MeaningKept ==
    \A i \in Insts : \A j \in DOMAIN h.arg[i] : Meaning(h.arg[i][j]) = Meaning(code[i].arg[j])

\* After the pass no instruction reads a load of what its own block computed and
\* stored.  A terminal that reads the load still does: the pass goes by HIRUses.
LoadsBypassed ==
    passes > 0 =>
        \A i \in Insts : LET v == Meaning(i)
                         IN  v # i /\ code[v].block = code[i].block => References(i) = {}

\* num_use is the number of arguments that read the value and of terminals that
\* were made with it, through every redirection.
UseCounted == \A v \in Insts : h.num[v] = (Cardinality(References(v)) + terms[v]) % 256

\* No flag is taken of a flag, through a local either.
FlagsOfResults == \A i \in Insts : Pseudo(i) => ~Pseudo(Meaning(code[i].arg[1]))

\* In such a function the assertions in Use and UnUse hold, no walk leaves its
\* chain, and the chain behind an instruction holds exactly the pseudo-operations
\* on its value.  (An Inst has one link for the chain it is in and for the chain
\* behind it; with a flag of a flag the two are mixed.)
ChainsRight ==
    FlagsOfResults =>
        /\ h.ok
        /\ \A d \in Insts : ~Pseudo(d) =>
              LET c == Chain(h.next, d)
              IN  Cardinality(Range(c)) = Len(c) /\ Range(c) = {i \in Insts : Pseudo(i) /\ h.arg[i][1] = d}

\* A HIRUse of a value in the map is an argument that reads it, so that another
\* run of the pass redirects no argument that has moved on.
UsesCurrent == \A v \in values : \A u \in uses[v] : h.arg[u[1]][u[2]] = v
=============================================================================
