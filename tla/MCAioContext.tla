---------------------------- MODULE MCAioContext ----------------------------
(* Model values for AioContext.                                             *)
EXTENDS AioContext

CONSTANTS b1, b2, f1, n0, n1, n2, o1

Symmetry == Permutations(BHs) \cup Permutations(Fds) \cup Permutations(Nodes)

=============================================================================
