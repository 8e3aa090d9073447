----------------------------- MODULE MCCoroutine ----------------------------
(* Model values for Coroutine.                                              *)
EXTENDS Coroutine

CONSTANTS c1, c2, c3

=============================================================================
