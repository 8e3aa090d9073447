------------------------------ MODULE CoLocks -------------------------------
(***************************************************************************)
(* The CoMutex and the CoRwlock of qemu-coroutine-lock.c, used by          *)
(* coroutines that also yield for other reasons, inside and outside their  *)
(* critical sections.  The code of a coroutine up to its next switch is    *)
(* one step, except that the marking of a waiter by an unlock and the      *)
(* entering of that waiter are the separate steps they are in Coroutine.   *)
(***************************************************************************)
EXTENDS Coroutine, FiniteSets

CONSTANTS mutex, rwlock     \* the CoQueues of the two locks

ASSUME LocksAssumption == mutex # rwlock /\ Queues = {mutex, rwlock}
ASSUME CosAssumption == IsFiniteSet(Cos)

VARIABLES
  locked,          \* mutex->locked
  writer, reader,  \* rwlock->writer, rwlock->reader
  prog             \* what each coroutine's program is doing: "idle"; "toLock",
                   \* "toRead" or "toWrite" (in the loop of a lock function);
                   \* "locks", "reads" or "writes" (inside)

lockVars == <<locked, writer, reader, prog>>
vars == <<coVars, lockVars>>

Waits == {"toLock", "toRead", "toWrite"}

Waiting(c) == prog[c] \in Waits

LocksTypeOK ==
  /\ locked \in BOOLEAN /\ writer \in BOOLEAN
  /\ reader \in Nat
  /\ prog \in [Cos -> Waits \cup {"idle", "locks", "reads", "writes"}]

\* qemu_co_mutex_init and qemu_co_rwlock_init.
LocksInit ==
  /\ Init
  /\ locked = FALSE /\ writer = FALSE
  /\ reader = 0
  /\ prog = [c \in Cos |-> "idle"]

Becomes(c, what) == prog' = [prog EXCEPT ![c] = what]

-----------------------------------------------------------------------------
(* The mutex.                                                              *)

\* The condition of the loop in qemu_co_mutex_lock.
MutexTaken(c) == locked

\* qemu_co_mutex_lock is called, or goes on after qemu_co_queue_wait.
MutexLock(c) ==
  /\ Running(c)
  /\ prog[c] \in {"idle", "toLock"}
  /\ IF MutexTaken(c)
     THEN QueueWait(c, mutex) /\ Becomes(c, "toLock") /\ UNCHANGED locked
     ELSE locked' = TRUE /\ Becomes(c, "locks") /\ UNCHANGED coVars
  /\ UNCHANGED <<writer, reader>>

\* qemu_co_mutex_unlock.
MutexUnlock(c) ==
  /\ Running(c)
  /\ prog[c] = "locks"
  /\ locked' = FALSE
  /\ Becomes(c, "idle")
  /\ IF HasWaiters(mutex) THEN QueueNext(c, mutex) ELSE UNCHANGED coVars
  /\ UNCHANGED <<writer, reader>>

-----------------------------------------------------------------------------
(* The reader-writer lock.                                                 *)

\* qemu_co_rwlock_rdlock is called, or goes on after qemu_co_queue_wait.
RdLock(c) ==
  /\ Running(c)
  /\ prog[c] \in {"idle", "toRead"}
  /\ IF writer
     THEN QueueWait(c, rwlock) /\ Becomes(c, "toRead") /\ UNCHANGED reader
     ELSE reader' = reader + 1 /\ Becomes(c, "reads") /\ UNCHANGED coVars
  /\ UNCHANGED <<locked, writer>>

\* Mutant of WriterWaits: a writer looks for another writer only.
WriterWaitsForWriter == writer

\* The condition of the loop in qemu_co_rwlock_wrlock.
WriterWaits == writer \/ reader > 0

\* qemu_co_rwlock_wrlock is called, or goes on after qemu_co_queue_wait.
WrLock(c) ==
  /\ Running(c)
  /\ prog[c] \in {"idle", "toWrite"}
  /\ IF WriterWaits
     THEN QueueWait(c, rwlock) /\ Becomes(c, "toWrite") /\ UNCHANGED writer
     ELSE writer' = TRUE /\ Becomes(c, "writes") /\ UNCHANGED coVars
  /\ UNCHANGED <<locked, reader>>

\* qemu_co_rwlock_unlock: a writer wakes everybody, the last reader one.
RwUnlock(c) ==
  /\ Running(c)
  /\ prog[c] \in {"reads", "writes"}
  /\ Becomes(c, "idle")
  /\ IF writer
     THEN /\ writer' = FALSE
          /\ UNCHANGED reader
          /\ IF HasWaiters(rwlock) THEN QueueRestartAll(c, rwlock) ELSE UNCHANGED coVars
     ELSE /\ reader' = reader - 1
          /\ UNCHANGED writer
          /\ IF reader = 1 /\ HasWaiters(rwlock)
             THEN QueueNext(c, rwlock)
             ELSE UNCHANGED coVars
  /\ UNCHANGED locked

-----------------------------------------------------------------------------
(* The rest of the programs.                                               *)

\* The program yields for something other than the locks ...
Pause(c) ==
  /\ ~Waiting(c)
  /\ Yield(c)
  /\ UNCHANGED lockVars

\* ... ends ...
End(c) ==
  /\ prog[c] = "idle"
  /\ Terminate(c)
  /\ UNCHANGED lockVars

\* ... or creates or enters a coroutine.
Begin(x, c) ==
  /\ x \in Cos => ~Waiting(x)
  /\ Create(x, c) \/ Enter(x, c)
  /\ UNCHANGED lockVars

Switching == CoreStep /\ UNCHANGED lockVars

\* A lock function goes on after qemu_co_queue_wait.
LockAgain(c) == Waiting(c) /\ (MutexLock(c) \/ RdLock(c) \/ WrLock(c))

LocksNext ==
  \/ Switching
  \/ \E x \in All, c \in Cos : Begin(x, c)
  \/ \E c \in Cos : MutexLock(c) \/ MutexUnlock(c)
  \/ \E c \in Cos : RdLock(c) \/ WrLock(c) \/ RwUnlock(c)
  \/ \E c \in Cos : Pause(c) \/ End(c)

LocksSpec == LocksInit /\ [][LocksNext]_vars

\* The thread runs; a coroutine that has been woken looks at the lock, and one that
\* runs again and again also yields.
LocksFairSpec ==
  /\ LocksSpec
  /\ WF_vars(Switching)
  /\ \A c \in Cos : SF_vars(Pause(c) \/ LockAgain(c))

-----------------------------------------------------------------------------
Doing(what) == {c \in Cos : prog[c] = what}

\* Two coroutines are never both between qemu_co_mutex_lock and
\* qemu_co_mutex_unlock, and mutex->locked says whether one is. A writer is alone, and
\* writer and reader count who is inside the CoRwlock.
MutualExclusion ==
  /\ LocksTypeOK
  /\ Cardinality(Doing("locks")) = IF locked THEN 1 ELSE 0
  /\ Cardinality(Doing("writes")) = IF writer THEN 1 ELSE 0
  /\ Cardinality(Doing("reads")) = reader
  /\ writer => reader = 0

\* "Wakeup only one waiting writer": while there are readers only writers queue, so
\* the one that the last reader wakes is a writer and no reader is left behind.
OnlyWritersQueueForReaders ==
  reader > 0 => Range(entries[rwlock]) \subseteq Doing("toWrite")

\* A coroutine that waits for a lock is in its queue, is marked for restart or has
\* been entered; and a free lock with a queue has a waiter on its way. So the
\* unlock between the marking and the restart of a waiter strands nobody, even if
\* somebody else takes the lock first.
NobodyStranded ==
  /\ \A c \in Cos : Waiting(c) => Queued(c) \/ caller[c] # Null
  /\ ~locked /\ entries[mutex] # <<>> =>
       Doing("toLock") \ Range(entries[mutex]) # {}
  /\ ~writer /\ reader = 0 /\ entries[rwlock] # <<>> =>
       (Doing("toRead") \cup Doing("toWrite")) \ Range(entries[rwlock]) # {}

=============================================================================
