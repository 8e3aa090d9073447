------------------------------ MODULE FifoLock ------------------------------
(***************************************************************************)
(* What include/qemu/rfifolock.h promises of a recursive FIFO lock:        *)
(* threads own the lock one at a time, in the order in which they asked    *)
(* for it, and the owner may take it again without queueing.               *)
(* RFifoLock.tla is shown to implement this specification.                 *)
(***************************************************************************)
EXTENDS Naturals, Sequences

CONSTANT Threads

VARIABLES
  queue,    \* the threads that own or wait for the lock, in order of arrival
  depth     \* how many times each thread holds the lock

fifoVars == <<queue, depth>>

Init ==
  /\ queue = <<>>
  /\ depth = [t \in Threads |-> 0]

Queued == {queue[i] : i \in DOMAIN queue}

\* A thread asks for a lock somebody else has or is about to have.
Request(t) ==
  /\ queue # <<>>
  /\ t \notin Queued
  /\ queue' = Append(queue, t)
  /\ UNCHANGED depth

\* A thread asks for a free lock and has it at once.
TakeFree(t) ==
  /\ queue = <<>>
  /\ queue' = <<t>>
  /\ depth' = [depth EXCEPT ![t] = 1]

\* The first in the queue takes the lock, or takes it once more.
Take(t) ==
  /\ queue # <<>>
  /\ Head(queue) = t
  /\ depth' = [depth EXCEPT ![t] = @ + 1]
  /\ UNCHANGED queue

\* The owner gives the lock back; the outermost release lets the next one in.
Release(t) ==
  /\ depth[t] > 0
  /\ Head(queue) = t
  /\ depth' = [depth EXCEPT ![t] = @ - 1]
  /\ queue' = IF depth[t] = 1 THEN Tail(queue) ELSE queue

Next == \E t \in Threads : Request(t) \/ TakeFree(t) \/ Take(t) \/ Release(t)

Spec == Init /\ [][Next]_fifoVars

=============================================================================
