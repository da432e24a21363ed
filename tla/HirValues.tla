----------------------------- MODULE HirValues -----------------------------
(***************************************************************************)
(* The values of one HIRFunction (runtime/ir/instr.cpp, hir_builder.cpp):  *)
(* instructions with value arguments, terminals that read a value, the use *)
(* count and the chain of pseudo-operations an Inst keeps, and the         *)
(* HIRValues with their HIRUses.                                           *)
(*                                                                         *)
(* An instruction is its place in the order in which the front end         *)
(* appended it; a value is the instruction that defines it.  Ids are       *)
(* assigned in that order and never change (nothing calls IdByRPO), so     *)
(* looking a value up by id finds it exactly while it is in the map.       *)
(***************************************************************************)
EXTENDS Integers, Sequences, SequencesExt, FiniteSets

CONSTANTS
    Locals,       \* ids of locals
    MaxInsts,     \* bound: instructions, and terminals that read a value
    MaxOrder      \* bound: the largest order id of a block

VARIABLES
    code,     \* the instructions as appended: op, block, local, arguments
    h,        \* what passes change: arguments, num_use, next_pseudo_inst; ok
              \* until an assertion fails or a walk leaves its chain
    terms,    \* the terminals made with each value
    uses,     \* the HIRUses of each instruction's HIRValue
    values,   \* the HIRValueMap
    cur       \* order id of current_block; Ended after Return

valueVars == <<code, h, terms, uses, values, cur>>

Nil   == 0
Ended == -1
Insts == DOMAIN code

Pseudo(i)   == code[i].op = "GetZero"
HasValue(o) == o # "StoreLocal"
HasRoom     == Len(code) + FoldLeft(LAMBDA m, n : m + n, 0, terms) < MaxInsts

ValuesInit ==
    /\ code = <<>> /\ terms = <<>> /\ uses = <<>> /\ values = {} /\ cur = 0
    /\ h = [arg |-> <<>>, num |-> <<>>, next |-> <<>>, ok |-> TRUE]

\* The pseudo-operations linked behind instruction d.
RECURSIVE Chain(_, _)
Chain(next, d) == IF next[d] = Nil THEN <<>> ELSE <<next[d]>> \o Chain(next, next[d])

\* "assert(insert_point->GetArg<Value>(0).Def() == value.Def())", at every
\* instruction of the chain behind v that a walk passes.
OnValue(s, v, passed) == \A n \in DOMAIN passed : s.arg[passed[n]][1] = v

\* Inst::Use and UnUse of value v by instruction i.  Use walks to the end of the
\* chain; UnUse walks to i, and off the end of the chain if i is not in it.  A
\* failed assertion or a null dereference ends the process: nothing follows.
Use(s, i, v, pseudo) ==
    LET c  == Chain(s.next, v)
        s1 == [s EXCEPT !.num[v] = (@ + 1) % 256]
    IN  CASE ~s.ok           -> s
          [] s.ok /\ ~pseudo -> s1
          [] s.ok /\ pseudo  -> [s1 EXCEPT !.next[Last(<<v>> \o c)] = i, !.ok = OnValue(s, v, c)]

\* Mutant: UnUse forgets the count.
UnUseUncounted(s, i, v, pseudo) == s

UnUse(s, i, v, pseudo) ==
    LET c  == <<v>> \o Chain(s.next, v)
        n  == SelectInSeq(c, LAMBDA p : s.next[p] = i)
        s1 == [s EXCEPT !.num[v] = (@ - 1) % 256]
    IN  CASE ~s.ok                    -> s
          [] s.ok /\ ~pseudo          -> s1
          [] s.ok /\ pseudo /\ n = 0  -> [s1 EXCEPT !.ok = FALSE]
          [] s.ok /\ pseudo /\ n # 0  -> [s1 EXCEPT !.next[c[n]] = s.next[i], !.next[i] = Nil,
                                                    !.ok = OnValue(s, v, SubSeq(c, 2, n))]

\* Mutant: SetArg leaves the pseudo-operation in the chain of its old value.
SetArgUnlinked(s, i, j, v) ==
    Use([UnUse(s, i, s.arg[i][j], FALSE) EXCEPT !.arg[i][j] = v], i, v, FALSE)

\* Inst::SetArg of argument j, which holds a value (or a Lambda of one).
SetArg(s, i, j, v) ==
    Use([UnUse(s, i, s.arg[i][j], Pseudo(i)) EXCEPT !.arg[i][j] = v], i, v, Pseudo(i))

\* The arguments a front end can pass: values that already exist and that are
\* computed before this point.  A block that dominates another has the smaller
\* order id, as blocks are created on first mention.
Visible == {v \in Insts : HasValue(code[v].op) /\ code[v].block <= cur}

\* HIRFunction::AppendInst: SetArgs counts the uses and links a pseudo-operation,
\* the value is registered, and so are the uses of the values in the map.
AppendInst(op, local, args) ==
    LET i == Len(code) + 1
        s == FoldLeft(LAMBDA r, v : Use(r, i, v, op = "GetZero"),
                      [h EXCEPT !.arg = Append(@, args), !.num = Append(@, 0), !.next = Append(@, Nil)],
                      args)
        usesOf(v) == {<<i, j>> : j \in {n \in DOMAIN args : args[n] = v /\ v \in values}}
    IN
    /\ code' = Append(code, [op |-> op, block |-> cur, local |-> local, arg |-> args])
    /\ h' = s /\ terms' = Append(terms, 0)
    /\ values' = IF HasValue(op) THEN values \cup {i} ELSE values
    /\ uses' = Append([v \in Insts |-> uses[v] \cup usesOf(v)], {})
    /\ UNCHANGED cur

\* LinkBlock and AppendBlock: carry on in a block, new or not.  Blocks left empty
\* play no part.
MoveTo(b) ==
    /\ b # cur /\ code # <<>> /\ Last(code).block = cur
    /\ cur' = b
    /\ UNCHANGED <<code, h, terms, uses, values>>

\* The constructors of terminal::If and terminal::Switch: Value::Use counts, links
\* nothing and has no HIRUse.  No terminal takes its use back: one that is replaced,
\* when a block is ended a second time, stays counted.
TerminalUse(v) ==
    /\ h' = [h EXCEPT !.num[v] = (@ + 1) % 256]
    /\ terms' = [terms EXCEPT ![v] = @ + 1]

\* HIRBuilder::If and Switch on value v; of the blocks they lead to the front end
\* goes on in b.
Branch(v, b) ==
    /\ TerminalUse(v)
    /\ cur' = b
    /\ UNCHANGED <<code, uses, values>>

Return == cur' = Ended /\ UNCHANGED <<code, h, terms, uses, values>>

Build ==
    /\ cur # Ended /\ h.ok
    /\ \/ HasRoom /\ \/ AppendInst("LoadImm", Nil, <<>>)
                     \/ \E l \in Locals : AppendInst("LoadLocal", l, <<>>)
                     \/ \E l \in Locals, v \in Visible : AppendInst("StoreLocal", l, <<v>>)
                     \/ \E v \in Visible : AppendInst("GetZero", Nil, <<v>>)
                     \/ \E v \in Visible : AppendInst("AndValue", Nil, <<v, v>>)
                     \/ \E v \in Visible, b \in 0 .. MaxOrder : Branch(v, b)
       \/ \E b \in 0 .. MaxOrder : MoveTo(b)
       \/ Return

\* The arguments of instructions that read value v.
References(v) == UNION {{<<i, j>> : j \in {n \in DOMAIN h.arg[i] : h.arg[i][n] = v}} : i \in Insts}
============================================================================
