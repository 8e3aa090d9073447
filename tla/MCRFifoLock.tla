---------------------------- MODULE MCRFifoLock -----------------------------
(* Model values for RFifoLock: tickets wrap after four, one more than the   *)
(* threads that can hold one.                                               *)
EXTENDS RFifoLock

CONSTANTS t1, t2, t3

=============================================================================
