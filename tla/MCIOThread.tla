----------------------------- MODULE MCIOThread -----------------------------
(* Model values for IOThread.                                               *)
EXTENDS IOThread

CONSTANTS u1, u2

=============================================================================
