----------------------------- MODULE RFifoLock ------------------------------
(***************************************************************************)
(* The recursive FIFO lock of util/rfifolock.c, a ticket lock whose        *)
(* tickets are unsigned ints that wrap around.                             *)
(*                                                                         *)
(* Every field of RFifoLock is protected by r->lock, so the code between   *)
(* taking and leaving that mutex is one step: a call of rfifolock_lock     *)
(* runs up to its return or up to qemu_cond_wait, a return of              *)
(* qemu_cond_wait runs the loop condition once more.                       *)
(***************************************************************************)
EXTENDS Integers, FiniteSets, Sequences

CONSTANTS
  Threads,      \* the threads that use the lock
  TicketMod,    \* number of values of the unsigned int tickets (2^32 in C)
  MaxNesting    \* bound: how deep one thread nests its calls

ASSUME ThreadsAssumption == IsFiniteSet(Threads)
ASSUME TicketModAssumption ==
  TicketMod \in Nat /\ Cardinality(Threads) < TicketMod
ASSUME MaxNestingAssumption == MaxNesting \in Nat

VARIABLES
  head,         \* r->head, the ticket being served
  tail,         \* r->tail, the next ticket to hand out
  nesting,      \* r->nesting
  owner,        \* r->owner_thread, meaningful while nesting > 0
  ticket,       \* the local variable ticket of each thread's outermost call
  pc,           \* where each thread is: outside, asleep in qemu_cond_wait,
                \* or woken and about to retake r->lock
  depth,        \* calls of rfifolock_lock each thread has yet to undo
  kick          \* what the contention callback leaves behind: the owner has
                \* been told that somebody waits (see async.c, aio_notify)

lockVars == <<head, tail, nesting, owner, ticket, pc, depth, kick>>

Tickets == 0 .. TicketMod - 1

Succ(x) == (x + 1) % TicketMod

TypeOK ==
  /\ head \in Tickets
  /\ tail \in Tickets
  /\ nesting \in Nat
  /\ owner \in Threads
  /\ ticket \in [Threads -> Tickets]
  /\ pc \in [Threads -> {"out", "asleep", "woken"}]
  /\ depth \in [Threads -> Nat]
  /\ kick \in BOOLEAN

\* rfifolock_init leaves owner_thread as it was found.
Init ==
  /\ head = 0
  /\ tail = 0
  /\ nesting = 0
  /\ owner \in Threads
  /\ ticket = [t \in Threads |-> 0]
  /\ pc = [t \in Threads |-> "out"]
  /\ depth = [t \in Threads |-> 0]
  /\ kick = FALSE

-----------------------------------------------------------------------------
\* The end of rfifolock_lock: the caller is the owner, one level deeper.
Own(t) ==
  /\ owner' = t
  /\ nesting' = nesting + 1
  /\ depth' = [depth EXCEPT ![t] = @ + 1]

\* The body of the wait loop: call back, then sleep.
Sleep(t) ==
  /\ kick' = TRUE
  /\ pc' = [pc EXCEPT ![t] = "asleep"]
  /\ UNCHANGED <<owner, nesting, depth>>

\* rfifolock_lock by the thread that already owns the lock: the ticket is
\* put back.
LockNested(t) ==
  /\ pc[t] = "out"
  /\ depth[t] < MaxNesting
  /\ nesting > 0 /\ owner = t
  /\ Own(t)
  /\ UNCHANGED <<head, tail, ticket, pc, kick>>

\* Mutant of LockOuter: a free lock is taken whatever the ticket.
LockOuterBarging(t) ==
  /\ pc[t] = "out"
  /\ depth[t] < MaxNesting
  /\ ~(nesting > 0 /\ owner = t)
  /\ ticket' = [ticket EXCEPT ![t] = tail]
  /\ tail' = Succ(tail)
  /\ \/ nesting = 0 /\ Own(t) /\ UNCHANGED <<pc, kick>>
     \/ nesting # 0 /\ Sleep(t)
  /\ UNCHANGED head

\* rfifolock_lock by any other thread: take a ticket, and wait unless it is
\* already being served.
LockOuter(t) ==
  /\ pc[t] = "out"
  /\ depth[t] < MaxNesting
  /\ ~(nesting > 0 /\ owner = t)
  /\ ticket' = [ticket EXCEPT ![t] = tail]
  /\ tail' = Succ(tail)
  /\ \/ tail = head /\ Own(t) /\ UNCHANGED <<pc, kick>>
     \/ tail # head /\ Sleep(t)
  /\ UNCHANGED head

\* qemu_cond_wait returns and the loop condition is evaluated again.
CondWaitReturns(t) ==
  /\ pc[t] = "woken"
  /\ \/ /\ ticket[t] = head
        /\ Own(t)
        /\ pc' = [pc EXCEPT ![t] = "out"]
        /\ UNCHANGED kick
     \/ /\ ticket[t] # head
        /\ Sleep(t)
  /\ UNCHANGED <<head, tail, ticket>>

\* pthread_cond_wait may return without having been signalled.
SpuriousWakeup(t) ==
  /\ pc[t] = "asleep"
  /\ pc' = [pc EXCEPT ![t] = "woken"]
  /\ UNCHANGED <<head, tail, nesting, owner, ticket, depth, kick>>

\* Mutant of Unlock: qemu_cond_signal where the code has qemu_cond_broadcast.
UnlockSignalsOne(t) ==
  /\ pc[t] = "out"
  /\ depth[t] > 0
  /\ depth' = [depth EXCEPT ![t] = @ - 1]
  /\ nesting' = nesting - 1
  /\ IF nesting = 1
     THEN /\ head' = Succ(head)
          /\ \/ \E u \in Threads : pc[u] = "asleep" /\ pc' = [pc EXCEPT ![u] = "woken"]
             \/ (\A u \in Threads : pc[u] # "asleep") /\ UNCHANGED pc
     ELSE UNCHANGED <<head, pc>>
  /\ UNCHANGED <<tail, owner, ticket, kick>>

\* Mutant of Unlock: every release serves the next ticket, nested ones too.
UnlockForgetsNesting(t) ==
  /\ pc[t] = "out"
  /\ depth[t] > 0
  /\ depth' = [depth EXCEPT ![t] = @ - 1]
  /\ nesting' = nesting - 1
  /\ head' = Succ(head)
  /\ pc' = [u \in Threads |-> IF pc[u] = "asleep" THEN "woken" ELSE pc[u]]
  /\ UNCHANGED <<tail, owner, ticket, kick>>

\* rfifolock_unlock; its callers undo their own rfifolock_lock only.
Unlock(t) ==
  /\ pc[t] = "out"
  /\ depth[t] > 0
  /\ depth' = [depth EXCEPT ![t] = @ - 1]
  /\ nesting' = nesting - 1
  /\ IF nesting = 1
     THEN /\ head' = Succ(head)
          /\ pc' = [u \in Threads |-> IF pc[u] = "asleep" THEN "woken" ELSE pc[u]]
     ELSE UNCHANGED <<head, pc>>
  /\ UNCHANGED <<tail, owner, ticket, kick>>

Lock(t) == LockNested(t) \/ LockOuter(t)

Next ==
  \E t \in Threads :
    Lock(t) \/ CondWaitReturns(t) \/ SpuriousWakeup(t) \/ Unlock(t)

Spec == Init /\ [][Next]_lockVars

\* A thread whose qemu_cond_wait has been ended gets to run.
FairSpec == Spec /\ \A t \in Threads : WF_lockVars(CondWaitReturns(t))

-----------------------------------------------------------------------------
\* The threads whose ticket has not been given back.
Outstanding == {t \in Threads : pc[t] # "out" \/ depth[t] > 0}

\* The assertions of rfifolock_unlock hold whenever a thread that locked calls
\* it: it is the recorded owner, and the nesting count is its own alone. So no
\* two threads are ever between rfifolock_lock and rfifolock_unlock.
OwnershipExclusive ==
  \A t \in Threads : depth[t] > 0 => owner = t /\ nesting = depth[t]

\* The broadcast of rfifolock_unlock reaches the thread it is for: while nobody
\* owns the lock, the thread whose ticket is being served is not asleep.
NextOwnerAwake ==
  nesting = 0 => \A t \in Threads : ~(pc[t] = "asleep" /\ ticket[t] = head)

\* x lies between head and tail on the circle of tickets.
Live(x) == IF head <= tail THEN head <= x /\ x < tail ELSE head <= x \/ x < tail

\* The tickets from head up to tail are exactly the ones threads hold, one each;
\* an owner's is the one being served. The unsigned wrap-around of head and tail
\* never gives a ticket to two threads and never skips one nobody will serve.
TicketsAccountedFor ==
  /\ \A t \in Outstanding : Live(ticket[t])
  /\ \A t, u \in Outstanding : ticket[t] = ticket[u] => t = u
  /\ \A x \in Tickets : Live(x) => \E t \in Outstanding : ticket[t] = x
  /\ \A t \in Threads : depth[t] > 0 => pc[t] = "out" /\ ticket[t] = head

\* The queue of FifoLock: the outstanding tickets from head on, wrapping around.
TicketQueue ==
  [i \in 1 .. (tail - head) % TicketMod |->
     CHOOSE t \in Outstanding : ticket[t] = (head + i - 1) % TicketMod]

Fifo == INSTANCE FifoLock WITH queue <- TicketQueue

\* "Fairness - enforces FIFO order" and "can be taken recursively" of
\* rfifolock.h: ownership passes in the order of the calls of rfifolock_lock.
ImplementsFifoLock == Fifo!Spec

\* As long as every owner keeps giving the lock back, every call of
\* rfifolock_lock returns.
LockGranted ==
  (\A t \in Threads : []<>(depth[t] = 0))
    => \A t \in Threads : (pc[t] # "out") ~> (depth[t] > 0)

=============================================================================
