------------------------------ MODULE MCTimers ------------------------------
(***************************************************************************)
(* Small instances of Timers: the main loop and an IOThread with two       *)
(* timers in its list, which both threads use.                             *)
(***************************************************************************)
EXTENDS Timers, TLC

CONSTANTS io, t1, t2

MCListOf == t1 :> io @@ t2 :> io

=============================================================================
