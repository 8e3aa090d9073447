---------------------------- MODULE MCThreadPool ----------------------------
(* Model values for ThreadPool.                                             *)
EXTENDS ThreadPool

CONSTANTS e1, e2, w1, w2

=============================================================================
