------------------------------ MODULE MCLocals ------------------------------
(* LocalElimination for TLC; the locals are interchangeable.               *)
EXTENDS LocalElimination

CONSTANTS l1, l2

AnyLocal == Permutations(Locals)
=============================================================================
