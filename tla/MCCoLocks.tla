------------------------------ MODULE MCCoLocks ----------------------------
(* Model values for CoLocks.                                                *)
EXTENDS CoLocks

CONSTANTS c1, c2, c3

=============================================================================
