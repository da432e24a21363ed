------------------------------- MODULE MCSlab -------------------------------
(* SlabAllocator for TLC.                                                  *)
EXTENDS SlabAllocator, TLC

\* Threads with the same role are interchangeable.
Symmetry == Permutations(Freers \ Allocators) \cup Permutations(Allocators \ Freers)
=============================================================================
