-------------------------- MODULE RFifoLockProofs ---------------------------
(***************************************************************************)
(* Proofs about RFifoLock and about the IOThread that uses it, for any     *)
(* finite set of threads and any number of ticket values larger than the   *)
(* number of threads: the lock's invariants, that it implements FifoLock,  *)
(* and that only the owner of its context polls it.  The queue of FifoLock *)
(* is TicketQueue; the argument is that the wrapping tickets from head up  *)
(* to tail number its positions.                                           *)
(***************************************************************************)
EXTENDS IOThread, FiniteSetTheorems, TLAPS

\* The recorded owner of a taken lock holds all its nesting levels.
OwnerHolds == nesting > 0 => depth[owner] = nesting

\* The inductive invariant.
IInv ==
  /\ TypeOK
  /\ OwnershipExclusive
  /\ OwnerHolds
  /\ TicketsAccountedFor
  /\ NextOwnerAwake

\* What the C increment of an unsigned int does, without the modulus.
LEMMA SuccCases ==
  ASSUME NEW x \in Tickets
  PROVE  /\ Succ(x) \in Tickets
         /\ Succ(x) = IF x = TicketMod - 1 THEN 0 ELSE x + 1
BY TicketModAssumption DEF Succ, Tickets

\* There is a ticket to hand out: while some thread holds none, tail does not
\* run into head. The tickets other than tail would otherwise all be held, and
\* there are at least as many of those as threads.
LEMMA NoLap ==
  ASSUME TypeOK, TicketsAccountedFor, NEW t \in Threads, t \notin Outstanding
  PROVE  Succ(tail) # head
<1> DEFINE Others == Tickets \ {tail}
<1> DEFINE f == [u \in Outstanding |-> ticket[u]]
<1> SUFFICES ASSUME Succ(tail) = head PROVE FALSE
  BY Zenon
<1>1. \A x \in Others : Live(x)
  BY SuccCases, TicketModAssumption DEF TypeOK, Live, Tickets
<1>2. f \in Surjection(Outstanding, Others)
  <2>1. \A u \in Outstanding : ticket[u] \in Others
    BY SuccCases, TicketModAssumption DEF TypeOK, Live, Tickets, Outstanding, TicketsAccountedFor
  <2>2. \A x \in Others : \E u \in Outstanding : f[u] = x
    BY <1>1, Zenon DEF TicketsAccountedFor
  <2> QED
    BY <2>1, <2>2, Zenon DEF Surjection
<1>3. IsFiniteSet(Outstanding) /\ Cardinality(Outstanding) <= Cardinality(Threads) - 1
  <2>1. Outstanding \in SUBSET (Threads \ {t})
    BY Zenon DEF Outstanding
  <2>2. /\ IsFiniteSet(Threads \ {t})
        /\ Cardinality(Threads \ {t}) = Cardinality(Threads) - 1
    BY ThreadsAssumption, FS_RemoveElement, Zenon
  <2> QED
    BY <2>1, <2>2, FS_Subset
<1>4. IsFiniteSet(Others) /\ Cardinality(Others) = TicketMod - 1
  <2>1. IsFiniteSet(Tickets) /\ Cardinality(Tickets) = TicketMod
    <3>1. TicketMod > 0
      BY TicketModAssumption, ThreadsAssumption, FS_CardinalityType
    <3> QED
      BY <3>1, TicketModAssumption, FS_Interval DEF Tickets
  <2> QED
    BY <2>1, FS_RemoveElement, Zenon DEF TypeOK
<1>5. Cardinality(Others) <= Cardinality(Outstanding)
  BY <1>2, <1>3, FS_Surjection, Zenon
<1>6. Cardinality(Threads) \in Nat /\ Cardinality(Outstanding) \in Nat
  BY <1>3, ThreadsAssumption, FS_CardinalityType, Zenon
<1> QED
  BY <1>3, <1>4, <1>5, <1>6, TicketModAssumption

\* rfifolock_init establishes the invariant.
LEMMA InitIInv == Init => IInv
<1> SUFFICES ASSUME Init PROVE IInv
  BY Zenon
<1>1. 0 \in Tickets
  BY TicketModAssumption, FS_CardinalityType, ThreadsAssumption DEF Tickets
<1>2. TypeOK
  BY <1>1, Zenon DEF Init, TypeOK
<1>3. Outstanding = {} /\ \A x \in Tickets : ~Live(x)
  BY DEF Init, Outstanding, Live, Tickets
<1>4. OwnershipExclusive /\ OwnerHolds /\ TicketsAccountedFor /\ NextOwnerAwake
  BY <1>3 DEF Init, OwnershipExclusive, OwnerHolds, TicketsAccountedFor, NextOwnerAwake
<1> QED
  BY <1>2, <1>4, Zenon DEF IInv

\* A nested call of rfifolock_lock leaves the tickets as they are.
LEMMA LockNestedIInv ==
  ASSUME IInv, NEW t \in Threads, LockNested(t)
  PROVE  IInv'
<1> USE DEF IInv, LockNested, Own
<1>1. TypeOK'
  BY DEF TypeOK
<1>2. Outstanding' = Outstanding
  BY DEF TypeOK, Outstanding, OwnerHolds
<1>3. OwnershipExclusive' /\ OwnerHolds' /\ NextOwnerAwake'
  BY DEF TypeOK, OwnershipExclusive, OwnerHolds, NextOwnerAwake
<1>4. TicketsAccountedFor'
  BY <1>2, Zenon DEF TypeOK, TicketsAccountedFor, OwnerHolds, Live
<1> QED
  BY <1>1, <1>3, <1>4, Zenon

\* An outermost call of rfifolock_lock takes a ticket that nobody holds (NoLap).
LEMMA LockOuterIInv ==
  ASSUME IInv, NEW t \in Threads, LockOuter(t)
  PROVE  IInv'
<1> USE DEF IInv
<1>0. /\ depth[t] = 0
      /\ t \notin Outstanding
      /\ tail \in Tickets /\ head \in Tickets
  BY DEF LockOuter, TypeOK, OwnershipExclusive, Outstanding
<1>1. TypeOK'
  <2>1. kick' \in BOOLEAN
    BY Zenon DEF LockOuter, Own, Sleep, TypeOK
  <2>2. /\ nesting' \in Nat /\ owner' \in Threads /\ depth' \in [Threads -> Nat]
        /\ pc' \in [Threads -> {"out", "asleep", "woken"}]
    BY DEF LockOuter, Own, Sleep, TypeOK
  <2>3. head' \in Tickets /\ tail' \in Tickets /\ ticket' \in [Threads -> Tickets]
    BY <1>0, SuccCases, Zenon DEF LockOuter, TypeOK
  <2> QED
    BY <2>1, <2>2, <2>3, Zenon DEF TypeOK
<1>2. Outstanding' = Outstanding \cup {t}
  BY <1>0 DEF LockOuter, Own, Sleep, TypeOK, Outstanding
<1>3. ~Live(tail) /\ \A x \in Tickets : Live(x)' <=> Live(x) \/ x = tail
  <2>1. Succ(tail) # head
    BY <1>0, NoLap, Zenon
  <2>2. head' = head /\ tail' = Succ(tail)
    BY Zenon DEF LockOuter
  <2> QED
    BY <1>0, <2>1, <2>2, SuccCases, TicketModAssumption DEF Live, Tickets
<1>4. tail = head => nesting = 0
  BY <1>0 DEF TicketsAccountedFor, Outstanding, Live, TypeOK, Tickets, OwnerHolds
<1>5. OwnershipExclusive' /\ OwnerHolds'
  <2>1. CASE tail = head
    <3>1. \A u \in Threads : depth[u] = 0
      BY <1>4, <2>1 DEF OwnershipExclusive, TypeOK
    <3> QED
      BY <1>4, <2>1, <3>1, ZenonT(60) DEF LockOuter, Own, OwnershipExclusive, OwnerHolds, TypeOK
  <2>2. CASE tail # head
    BY <2>2, Zenon DEF LockOuter, Sleep, OwnershipExclusive, OwnerHolds, TypeOK
  <2> QED
    BY <2>1, <2>2, Zenon
<1>6. /\ ticket'[t] = tail
      /\ \A u \in Outstanding : ticket'[u] = ticket[u]
  BY <1>0, Zenon DEF LockOuter, TypeOK, Outstanding
<1>7. TicketsAccountedFor'
  <2>1. \A u \in Outstanding' : Live(ticket[u])'
    BY <1>0, <1>2, <1>3, <1>6, Zenon DEF TicketsAccountedFor, TypeOK, Outstanding
  <2>2. \A u, v \in Outstanding' : ticket'[u] = ticket'[v] => u = v
    BY <1>0, <1>2, <1>3, <1>6 DEF TicketsAccountedFor
  <2>3. \A x \in Tickets : Live(x)' => \E u \in Outstanding' : ticket'[u] = x
    BY <1>0, <1>2, <1>3, <1>6, Zenon DEF TicketsAccountedFor
  <2>4. \A u \in Threads : depth'[u] > 0 => pc'[u] = "out" /\ ticket'[u] = head'
    BY <1>0, <1>4, <1>6 DEF LockOuter, Own, Sleep, TypeOK, TicketsAccountedFor, OwnershipExclusive
  <2> QED
    BY <2>1, <2>2, <2>3, <2>4, Zenon DEF TicketsAccountedFor
<1>8. NextOwnerAwake'
  BY <1>0, <1>6 DEF LockOuter, Own, Sleep, TypeOK, NextOwnerAwake
<1> QED
  BY <1>1, <1>5, <1>7, <1>8, Zenon

\* Whoever finds its ticket served when qemu_cond_wait returns finds the lock free.
LEMMA CondWaitReturnsIInv ==
  ASSUME IInv, NEW t \in Threads, CondWaitReturns(t)
  PROVE  IInv'
<1> USE DEF IInv
<1>0. depth[t] = 0 /\ t \in Outstanding
  BY DEF CondWaitReturns, TicketsAccountedFor, TypeOK, Outstanding
<1>1. TypeOK'
  <2>1. kick' \in BOOLEAN
    BY Zenon DEF CondWaitReturns, Own, Sleep, TypeOK
  <2>2. /\ nesting' \in Nat /\ owner' \in Threads /\ depth' \in [Threads -> Nat]
        /\ pc' \in [Threads -> {"out", "asleep", "woken"}]
        /\ head' \in Tickets /\ tail' \in Tickets /\ ticket' \in [Threads -> Tickets]
    BY DEF CondWaitReturns, Own, Sleep, TypeOK
  <2> QED
    BY <2>1, <2>2, Zenon DEF TypeOK
<1>2. Outstanding' = Outstanding
  BY <1>0 DEF CondWaitReturns, Own, Sleep, TypeOK, Outstanding
<1>3. ticket[t] = head => \A u \in Threads : depth[u] = 0
  BY <1>0 DEF TicketsAccountedFor, TypeOK, Outstanding
<1>4. ticket[t] = head => nesting = 0
  BY <1>3 DEF OwnerHolds, TypeOK
<1>5. OwnershipExclusive' /\ OwnerHolds'
  BY <1>3, <1>4 DEF CondWaitReturns, Own, Sleep, TypeOK, OwnershipExclusive, OwnerHolds
<1>6. TicketsAccountedFor'
  BY <1>0, <1>2, <1>3 DEF CondWaitReturns, Own, Sleep, TypeOK, TicketsAccountedFor, Live
<1>7. NextOwnerAwake'
  BY DEF CondWaitReturns, Own, Sleep, TypeOK, NextOwnerAwake
<1> QED
  BY <1>1, <1>5, <1>6, <1>7, Zenon

\* A return of pthread_cond_wait without a signal puts nobody to sleep.
LEMMA SpuriousWakeupIInv ==
  ASSUME IInv, NEW t \in Threads, SpuriousWakeup(t)
  PROVE  IInv'
<1> USE DEF IInv, SpuriousWakeup
<1>1. TypeOK'
  BY Zenon DEF TypeOK
<1>2. Outstanding' = Outstanding
  BY Zenon DEF TypeOK, Outstanding
<1>3. OwnershipExclusive' /\ OwnerHolds' /\ NextOwnerAwake'
  BY Zenon DEF TypeOK, OwnershipExclusive, OwnerHolds, NextOwnerAwake
<1>4. TicketsAccountedFor'
  BY <1>2, Zenon DEF TypeOK, TicketsAccountedFor, Live
<1> QED
  BY <1>1, <1>3, <1>4, Zenon

\* rfifolock_unlock serves the next ticket, whose holder the broadcast has woken.
LEMMA UnlockIInv ==
  ASSUME IInv, NEW t \in Threads, Unlock(t)
  PROVE  IInv'
<1> USE DEF IInv
<1>0. /\ owner = t /\ nesting = depth[t] /\ nesting \in Nat /\ nesting > 0
      /\ \A u \in Threads : u # t => depth[u] = 0
      /\ ticket[t] = head /\ t \in Outstanding
      /\ tail \in Tickets /\ head \in Tickets
  BY DEF Unlock, OwnershipExclusive, TicketsAccountedFor, TypeOK, Outstanding
<1>1. TypeOK'
  BY <1>0, SuccCases DEF Unlock, TypeOK
<1>2. OwnershipExclusive' /\ OwnerHolds'
  BY <1>0, Zenon DEF Unlock, TypeOK, OwnershipExclusive, OwnerHolds
<1>3. NextOwnerAwake'
  BY <1>0 DEF Unlock, TypeOK, NextOwnerAwake
<1>4. TicketsAccountedFor'
  <2>1. CASE nesting # 1
    <3>1. Outstanding' = Outstanding
      BY <1>0, <2>1 DEF Unlock, TypeOK, Outstanding
    <3> QED
      BY <1>0, <2>1, <3>1 DEF Unlock, TypeOK, TicketsAccountedFor, Live
  <2>2. CASE nesting = 1
    <3>1. /\ head' = Succ(head) /\ tail' = tail /\ ticket' = ticket
          /\ \A u \in Threads : depth'[u] = 0
      BY <1>0, <2>2 DEF Unlock, TypeOK
    <3>2. Outstanding' = Outstanding \ {t}
      BY <1>0, <2>2, <3>1 DEF Unlock, TypeOK, Outstanding
    <3>3. Live(head)
      BY <1>0, Zenon DEF TicketsAccountedFor
    <3>4. \A x \in Tickets : Live(x)' <=> Live(x) /\ x # head
      BY <1>0, <3>1, <3>3, SuccCases, TicketModAssumption DEF Live, Tickets
    <3>5. \A u \in Outstanding' : Live(ticket[u])'
      BY <1>0, <3>1, <3>2, <3>4, Zenon DEF TicketsAccountedFor, TypeOK, Outstanding
    <3>6. \A x \in Tickets : Live(x)' => \E u \in Outstanding' : ticket'[u] = x
      BY <1>0, <3>1, <3>2, <3>4, ZenonT(60) DEF TicketsAccountedFor
    <3> QED
      BY <3>1, <3>2, <3>5, <3>6 DEF TicketsAccountedFor
  <2> QED
    BY <2>1, <2>2, Zenon
<1> QED
  BY <1>1, <1>2, <1>3, <1>4, Zenon

\* Every behaviour of the lock keeps the inductive invariant.
THEOREM Invariance == Spec => []IInv
<1>1. IInv /\ [Next]_lockVars => IInv'
  <2> SUFFICES ASSUME IInv, [Next]_lockVars PROVE IInv'
    BY Zenon
  <2>1. ASSUME NEW t \in Threads, Lock(t) PROVE IInv'
    BY <2>1, LockNestedIInv, LockOuterIInv, Zenon DEF Lock
  <2>2. ASSUME NEW t \in Threads, CondWaitReturns(t) PROVE IInv'
    BY <2>2, CondWaitReturnsIInv, Zenon
  <2>3. ASSUME NEW t \in Threads, SpuriousWakeup(t) PROVE IInv'
    BY <2>3, SpuriousWakeupIInv, Zenon
  <2>4. ASSUME NEW t \in Threads, Unlock(t) PROVE IInv'
    BY <2>4, UnlockIInv, Zenon
  <2>5. CASE UNCHANGED lockVars
    BY <2>5 DEF lockVars, IInv, TypeOK, OwnershipExclusive, OwnerHolds,
                TicketsAccountedFor, NextOwnerAwake, Outstanding, Live
  <2> QED
    BY <2>1, <2>2, <2>3, <2>4, <2>5, Zenon DEF Next
<1> QED
  BY <1>1, InitIInv, PTL DEF Spec

\* Type correctness of the lock, in particular of its wrapping tickets.
THEOREM TypeCorrect == Spec => []TypeOK
BY Invariance, PTL DEF IInv

\* The assertions of rfifolock_unlock never fail: at most one thread owns the
\* lock, whatever the number of threads and the width of the tickets.
THEOREM OwnershipIsExclusive == Spec => []OwnershipExclusive
BY Invariance, PTL DEF IInv

\* The tickets from head up to tail belong to one thread each, although the counters
\* wrap around: no ticket is given out twice, and none is served that nobody holds.
THEOREM NoTicketLost == Spec => []TicketsAccountedFor
BY Invariance, PTL DEF IInv

\* The thread whose ticket is being served is not left asleep by rfifolock_unlock.
THEOREM ServedIsAwake == Spec => []NextOwnerAwake
BY Invariance, PTL DEF IInv

-----------------------------------------------------------------------------
(* Order.                                                                  *)

\* How many tickets are out, and the one at position i of the queue.
Out == (tail - head) % TicketMod
TicketAt(i) == (head + i - 1) % TicketMod

\* The modulus, without the modulus.
LEMMA ModCases ==
  ASSUME NEW M \in Nat, NEW a \in Int, -M <= a, a < M + M, M > 0
  PROVE  a % M = IF a < 0 THEN a + M ELSE IF a < M THEN a ELSE a - M
  OBVIOUS

\* Queues that agree position by position are the same.
LEMMA SameQueues ==
  ASSUME NEW s \in Seq(Threads), NEW q \in Seq(Threads), Len(s) = Len(q),
         \A i \in 1 .. Len(q) : s[i] = q[i]
  PROVE  s = q
  OBVIOUS

\* Positions and live tickets correspond.
LEMMA Positions ==
  ASSUME TypeOK
  PROVE  /\ Out \in 0 .. TicketMod - 1
         /\ Out = IF head <= tail THEN tail - head ELSE tail - head + TicketMod
         /\ \A i \in 1 .. Out : TicketAt(i) = IF head + i - 1 < TicketMod
                                              THEN head + i - 1
                                              ELSE head + i - 1 - TicketMod
<1>1. TicketMod \in Nat /\ TicketMod > 0 /\ head \in 0 .. TicketMod - 1 /\ tail \in 0 .. TicketMod - 1
  BY TicketModAssumption DEF TypeOK, Tickets
<1>2. Out = IF head <= tail THEN tail - head ELSE tail - head + TicketMod
  BY <1>1, ModCases DEF Out
<1>3. Out \in 0 .. TicketMod - 1
  BY <1>1, <1>2
<1>4. ASSUME NEW i \in 1 .. Out
      PROVE  TicketAt(i) = IF head + i - 1 < TicketMod
                           THEN head + i - 1 ELSE head + i - 1 - TicketMod
  BY <1>1, <1>3, ModCases DEF TicketAt
<1> QED
  BY <1>2, <1>3, <1>4, Zenon

LEMMA LivePositions ==
  ASSUME TypeOK
  PROVE  /\ \A i \in 1 .. Out : TicketAt(i) \in Tickets /\ Live(TicketAt(i))
         /\ \A x \in Tickets : Live(x) => \E i \in 1 .. Out : TicketAt(i) = x
         /\ Out > 0 => TicketAt(1) = head
<1>1. TicketMod \in Nat /\ head \in 0 .. TicketMod - 1 /\ tail \in 0 .. TicketMod - 1
  BY TicketModAssumption, Zenon DEF TypeOK, Tickets
<1>2. \A i \in 1 .. Out : TicketAt(i) \in Tickets /\ Live(TicketAt(i))
  BY <1>1, Positions DEF Live, Tickets
<1>3. ASSUME NEW x \in Tickets, Live(x) PROVE \E i \in 1 .. Out : TicketAt(i) = x
  <2>1. CASE head <= x
    <3>1. x - head + 1 \in 1 .. Out
      BY <1>1, <1>3, <2>1, Positions DEF Live, Tickets
    <3> QED
      BY <1>1, <2>1, <3>1, Positions DEF Tickets
  <2>2. CASE x < head
    <3>1. x + TicketMod - head + 1 \in 1 .. Out
      BY <1>1, <1>3, <2>2, Positions DEF Live, Tickets
    <3> QED
      BY <1>1, <2>2, <3>1, Positions DEF Tickets
  <2> QED
    BY <1>1, <2>1, <2>2 DEF Tickets
<1>4. Out > 0 => TicketAt(1) = head
  BY <1>1, Positions
<1> QED
  BY <1>2, <1>3, <1>4, Zenon

\* The queue holds the threads with an outstanding ticket, each at its position.
LEMMA QueueHolds ==
  ASSUME IInv
  PROVE  /\ Out \in Nat
         /\ TicketQueue \in Seq(Threads) /\ Len(TicketQueue) = Out
         /\ \A i \in 1 .. Out : /\ TicketQueue[i] \in Outstanding
                                /\ ticket[TicketQueue[i]] = TicketAt(i)
         /\ \A t \in Outstanding : \A i \in 1 .. Out :
              ticket[t] = TicketAt(i) => TicketQueue[i] = t
         /\ \A t \in Outstanding : \E i \in 1 .. Out : TicketQueue[i] = t
<1>1. TypeOK /\ TicketsAccountedFor
  BY Zenon DEF IInv
<1>2. Out \in Nat
  BY <1>1, Positions, TicketModAssumption
<1>3. TicketQueue = [i \in 1 .. Out |-> CHOOSE t \in Outstanding : ticket[t] = TicketAt(i)]
  BY Zenon DEF TicketQueue, Out, TicketAt
<1>4. ASSUME NEW i \in 1 .. Out
      PROVE  TicketQueue[i] \in Outstanding /\ ticket[TicketQueue[i]] = TicketAt(i)
  <2>1. \E t \in Outstanding : ticket[t] = TicketAt(i)
    BY <1>1, LivePositions, Zenon DEF TicketsAccountedFor
  <2>2. TicketQueue[i] = CHOOSE t \in Outstanding : ticket[t] = TicketAt(i)
    BY <1>3, Zenon
  <2> QED
    BY <2>1, <2>2, Zenon
<1>5. Outstanding \subseteq Threads
  BY Zenon DEF Outstanding
<1>6. TicketQueue \in [1 .. Out -> Threads]
  BY <1>3, <1>4, <1>5, Zenon
<1>7. TicketQueue \in Seq(Threads) /\ Len(TicketQueue) = Out
  BY <1>2, <1>6
<1>8. \A t \in Outstanding : \A i \in 1 .. Out : ticket[t] = TicketAt(i) => TicketQueue[i] = t
  BY <1>1, <1>4, ZenonT(60) DEF TicketsAccountedFor
<1>9. \A t \in Outstanding : ticket[t] \in Tickets /\ Live(ticket[t])
  BY <1>1, <1>5, Zenon DEF TicketsAccountedFor, TypeOK
<1>10. \A t \in Outstanding : \E i \in 1 .. Out : TicketQueue[i] = t
  BY <1>1, <1>8, <1>9, LivePositions, Zenon
<1> QED
  BY <1>2, <1>4, <1>7, <1>8, <1>10, Zenon

\* A thread that holds the ticket being served is first in the queue.
LEMMA ServedIsHead ==
  ASSUME IInv, NEW t \in Outstanding, ticket[t] = head
  PROVE  TicketQueue # <<>> /\ Head(TicketQueue) = t
<1>1. Out > 0 /\ Out \in Nat
  BY QueueHolds
<1>2. ticket[t] = TicketAt(1)
  BY <1>1, LivePositions, Zenon DEF IInv
<1>3. TicketQueue[1] = t
  BY <1>1, <1>2, QueueHolds
<1> QED
  BY <1>1, <1>3, QueueHolds

LEMMA SameQueue ==
  ASSUME UNCHANGED <<head, tail, ticket, Outstanding>>
  PROVE  TicketQueue' = TicketQueue
  BY DEF TicketQueue

\* rfifolock_init: the queue is empty.
LEMMA InitRefines == Init => Fifo!Init
<1> SUFFICES ASSUME Init PROVE Fifo!Init
  BY Zenon
<1>1. IInv
  BY InitIInv, Zenon
<1>2. Out = 0
  BY <1>1, Positions DEF Init, IInv
<1>3. TicketQueue = <<>>
  BY <1>1, <1>2, QueueHolds
<1> QED
  BY <1>3, Zenon DEF Init, Fifo!Init

\* What Positions and QueueHolds say, as predicates, to say it of the next state too.
Numbered ==
  /\ Out = IF head <= tail THEN tail - head ELSE tail - head + TicketMod
  /\ \A i \in 1 .. Out : TicketAt(i) = IF head + i - 1 < TicketMod
                                       THEN head + i - 1
                                       ELSE head + i - 1 - TicketMod

QueueIsTickets ==
  /\ Out \in Nat
  /\ TicketQueue \in Seq(Threads) /\ Len(TicketQueue) = Out
  /\ \A t \in Outstanding : \A i \in 1 .. Out :
       ticket[t] = TicketAt(i) => TicketQueue[i] = t
  /\ \A t \in Outstanding : \E i \in 1 .. Out : TicketQueue[i] = t

LEMMA NextQueue == IInv' => Numbered' /\ QueueIsTickets'
<1>1. IInv => Numbered
  BY Positions, Zenon DEF IInv, Numbered
<1>2. IInv => QueueIsTickets
  BY QueueHolds, Zenon DEF QueueIsTickets
<1> QED
  BY <1>1, <1>2, PTL

\* An outermost rfifolock_lock joins the end of the queue.
LEMMA LockOuterRefines ==
  ASSUME IInv, IInv', NEW t \in Threads, LockOuter(t)
  PROVE  Fifo!Request(t) \/ Fifo!TakeFree(t)
<1>1. /\ depth[t] = 0 /\ t \notin Outstanding
      /\ tail \in Tickets /\ head \in Tickets
      /\ head' = head /\ tail' = Succ(tail)
  BY DEF IInv, LockOuter, TypeOK, OwnershipExclusive, Outstanding
<1>2. Succ(tail) # head
  BY <1>1, NoLap, Zenon DEF IInv
<1>3. Out' = Out + 1 /\ Out \in Nat
  BY <1>1, <1>2, Positions, NextQueue, SuccCases, TicketModAssumption, SMTT(30)
     DEF IInv, Numbered, Tickets
<1>4. Outstanding' = Outstanding \cup {t}
  BY <1>1 DEF IInv, LockOuter, Own, Sleep, TypeOK, Outstanding
<1>5. \A i \in Int : TicketAt(i)' = TicketAt(i)
  BY <1>1, Zenon DEF TicketAt
<1>6. /\ ticket'[t] = tail
      /\ \A u \in Outstanding : ticket'[u] = ticket[u]
  BY <1>1, Zenon DEF IInv, LockOuter, TypeOK, Outstanding
<1>7. \A i \in 1 .. Out : TicketQueue'[i] = TicketQueue[i]
  <2> SUFFICES ASSUME NEW i \in 1 .. Out PROVE TicketQueue'[i] = TicketQueue[i]
    BY Zenon
  <2>1. i \in 1 .. Out'
    BY <1>3
  <2>2. TicketQueue[i] \in Outstanding /\ ticket[TicketQueue[i]] = TicketAt(i)
    BY QueueHolds, Zenon
  <2>3. TicketQueue[i] \in Outstanding' /\ ticket'[TicketQueue[i]] = TicketAt(i)'
    BY <1>4, <1>5, <1>6, <2>2
  <2>4. \A u \in Outstanding' : \A j \in 1 .. Out' :
          ticket'[u] = TicketAt(j)' => TicketQueue'[j] = u
    BY NextQueue, Zenon DEF QueueIsTickets
  <2> QED
    BY <2>1, <2>3, <2>4, Zenon
<1>8. TicketQueue'[Out + 1] = t
  <2>1. PICK i \in 1 .. Out' : TicketQueue'[i] = t
    BY <1>4, NextQueue, Zenon DEF QueueIsTickets
  <2>2. \A j \in 1 .. Out : TicketQueue'[j] # t
    BY <1>1, <1>7, QueueHolds
  <2> QED
    BY <1>3, <2>1, <2>2
<1>9. TicketQueue' = Append(TicketQueue, t)
  <2>1. TicketQueue' \in Seq(Threads) /\ Len(TicketQueue') = Out + 1
    BY <1>3, NextQueue, Zenon DEF QueueIsTickets
  <2>2. /\ TicketQueue \in Seq(Threads) /\ Len(TicketQueue) = Out
    BY QueueHolds, Zenon
  <2>3. /\ Append(TicketQueue, t) \in Seq(Threads)
        /\ Len(Append(TicketQueue, t)) = Out + 1
        /\ \A i \in 1 .. Out : Append(TicketQueue, t)[i] = TicketQueue[i]
        /\ Append(TicketQueue, t)[Out + 1] = t
    BY <2>2
  <2>4. \A i \in 1 .. Out + 1 : TicketQueue'[i] = Append(TicketQueue, t)[i]
    BY <1>3, <1>7, <1>8, <2>3
  <2> QED
    BY <2>1, <2>3, <2>4, SameQueues, Zenon
<1>10. tail = head <=> Out = 0
  BY <1>1, Positions, TicketModAssumption DEF IInv, Tickets
<1>11. TicketQueue = <<>> <=> Out = 0
  BY <1>3, QueueHolds
<1>12. CASE tail = head
  <2>1. TicketQueue = <<>> /\ TicketQueue' = <<t>>
    BY <1>9, <1>10, <1>11, <1>12
  <2>2. depth' = [depth EXCEPT ![t] = 1]
    BY <1>1, <1>12 DEF LockOuter, Own
  <2> QED
    BY <2>1, <2>2, Zenon DEF Fifo!TakeFree
<1>13. CASE tail # head
  <2>1. TicketQueue # <<>> /\ UNCHANGED depth
    BY <1>10, <1>11, <1>13, Zenon DEF LockOuter, Sleep
  <2>2. t \notin {TicketQueue[i] : i \in DOMAIN TicketQueue}
    BY <1>1, QueueHolds
  <2> QED
    BY <1>9, <2>1, <2>2, Zenon DEF Fifo!Request, Fifo!Queued
<1> QED
  BY <1>12, <1>13, Zenon

\* The outermost rfifolock_unlock takes its caller out of the front of the queue.
LEMMA UnlockRefines ==
  ASSUME IInv, IInv', NEW t \in Threads, Unlock(t)
  PROVE  Fifo!Release(t)
<1>1. /\ nesting = depth[t] /\ depth[t] \in Nat /\ depth[t] > 0
      /\ ticket[t] = head /\ t \in Outstanding
      /\ tail \in Tickets /\ head \in Tickets
      /\ tail' = tail /\ ticket' = ticket
  BY Zenon DEF IInv, Unlock, OwnershipExclusive, TicketsAccountedFor, TypeOK, Outstanding
<1>2. TicketQueue # <<>> /\ Head(TicketQueue) = t
  BY <1>1, ServedIsHead, Zenon
<1>3. CASE depth[t] # 1
  <2>1. Outstanding' = Outstanding /\ head' = head
    BY <1>1, <1>3 DEF IInv, Unlock, TypeOK, Outstanding
  <2>2. TicketQueue' = TicketQueue
    BY <1>1, <2>1, SameQueue, Zenon
  <2> QED
    BY <1>1, <1>2, <1>3, <2>2, Zenon DEF Unlock, Fifo!Release
<1>4. CASE depth[t] = 1
  <2>1. head' = Succ(head) /\ Outstanding' = Outstanding \ {t}
    BY <1>1, <1>4 DEF IInv, Unlock, TypeOK, Outstanding, OwnershipExclusive
  <2>2. Out \in Nat /\ Out > 0 /\ TicketQueue[1] = t
    BY <1>2, QueueHolds
  <2>3. /\ Out' = Out - 1
        /\ \A i \in 1 .. Out - 1 : TicketAt(i)' = TicketAt(i + 1)
    <3>1. TypeOK /\ TypeOK' /\ TicketMod \in Nat
      BY TicketModAssumption, Zenon DEF IInv
    <3>2. /\ Out' = IF head' <= tail THEN tail - head' ELSE tail - head' + TicketMod
          /\ \A i \in 1 .. Out' : TicketAt(i)' = IF head' + i - 1 < TicketMod
                                                 THEN head' + i - 1
                                                 ELSE head' + i - 1 - TicketMod
      BY <1>1, NextQueue, Zenon DEF Numbered
    <3>3. Out' = Out - 1
      BY <1>1, <2>1, <2>2, <3>1, <3>2, Positions, SuccCases, SMTT(30) DEF Tickets
    <3> QED
      BY <1>1, <2>1, <2>2, <3>1, <3>2, <3>3, Positions, SuccCases, SMTT(30) DEF Tickets
  <2>4. ASSUME NEW i \in 1 .. Out - 1 PROVE TicketQueue'[i] = TicketQueue[i + 1]
    <3>1. i + 1 \in 1 .. Out /\ i \in 1 .. Out' /\ i + 1 # 1
      BY <2>2, <2>3
    <3>2. TicketQueue[i + 1] \in Outstanding /\ ticket[TicketQueue[i + 1]] = TicketAt(i + 1)
      BY <3>1, QueueHolds, Zenon
    <3>3. TicketAt(i + 1) # head
      BY <1>1, <2>2, <3>1, Positions, TicketModAssumption DEF IInv, Tickets
    <3>4. TicketQueue[i + 1] \in Outstanding' /\ ticket'[TicketQueue[i + 1]] = TicketAt(i)'
      BY <1>1, <2>1, <2>3, <3>2, <3>3, Zenon
    <3> QED
      BY <3>1, <3>4, NextQueue, Zenon DEF QueueIsTickets
  <2>5. TicketQueue' = Tail(TicketQueue)
    <3>1. TicketQueue \in Seq(Threads) /\ Len(TicketQueue) = Out
      BY QueueHolds, Zenon
    <3>2. TicketQueue' \in Seq(Threads) /\ Len(TicketQueue') = Out - 1
      BY <2>3, NextQueue, Zenon DEF QueueIsTickets
    <3>3. /\ Tail(TicketQueue) \in Seq(Threads) /\ Len(Tail(TicketQueue)) = Out - 1
          /\ \A i \in 1 .. Out - 1 : Tail(TicketQueue)[i] = TicketQueue[i + 1]
      BY <1>2, <3>1
    <3> QED
      BY <2>4, <3>2, <3>3, SameQueues, Zenon
  <2> QED
    BY <1>1, <1>2, <1>4, <2>5, Zenon DEF Unlock, Fifo!Release
<1> QED
  BY <1>3, <1>4, Zenon

\* A nested rfifolock_lock, and a qemu_cond_wait that returns in time, leave the queue
\* alone; so do the other returns.
LEMMA OthersRefine ==
  ASSUME IInv, NEW t \in Threads,
         LockNested(t) \/ CondWaitReturns(t) \/ SpuriousWakeup(t)
  PROVE  Fifo!Take(t) \/ UNCHANGED <<TicketQueue, depth>>
<1> USE DEF IInv
<1>1. Outstanding' = Outstanding
  BY DEF LockNested, CondWaitReturns, SpuriousWakeup, Own, Sleep, TypeOK, Outstanding, OwnerHolds
<1>2. TicketQueue' = TicketQueue
  BY <1>1, SameQueue, Zenon DEF LockNested, CondWaitReturns, SpuriousWakeup
<1>3. CASE UNCHANGED depth
  BY <1>2, <1>3, Zenon
<1>4. CASE ~UNCHANGED depth
  <2>1. depth' = [depth EXCEPT ![t] = @ + 1]
    BY <1>4, Zenon DEF LockNested, CondWaitReturns, SpuriousWakeup, Own, Sleep
  <2>2. t \in Outstanding /\ ticket[t] = head
    BY <1>4 DEF LockNested, CondWaitReturns, SpuriousWakeup, Own, Sleep, TypeOK,
                Outstanding, OwnerHolds, TicketsAccountedFor
  <2> QED
    BY <1>2, <2>1, <2>2, ServedIsHead, Zenon DEF Fifo!Take
<1> QED
  BY <1>3, <1>4, Zenon

\* Ownership of the lock passes in the order of the calls of rfifolock_lock, whatever
\* the number of threads and the width of the tickets.
THEOREM Refinement == Spec => ImplementsFifoLock
<1>1. IInv /\ IInv' /\ [Next]_lockVars => [Fifo!Next]_(Fifo!fifoVars)
  <2> SUFFICES ASSUME IInv, IInv', [Next]_lockVars
               PROVE  Fifo!Next \/ UNCHANGED <<TicketQueue, depth>>
    BY Zenon DEF Fifo!fifoVars
  <2>1. ASSUME NEW t \in Threads, LockOuter(t) PROVE Fifo!Next
    BY <2>1, LockOuterRefines, Zenon DEF Fifo!Next
  <2>2. ASSUME NEW t \in Threads, Unlock(t) PROVE Fifo!Next
    BY <2>2, UnlockRefines, Zenon DEF Fifo!Next
  <2>3. ASSUME NEW t \in Threads, LockNested(t) \/ CondWaitReturns(t) \/ SpuriousWakeup(t)
        PROVE  Fifo!Next \/ UNCHANGED <<TicketQueue, depth>>
    BY <2>3, OthersRefine, Zenon DEF Fifo!Next
  <2>4. CASE UNCHANGED lockVars
    BY <2>4, SameQueue, Zenon DEF lockVars, Outstanding
  <2> QED
    BY <2>1, <2>2, <2>3, <2>4, Zenon DEF Next, Lock
<1> QED
  BY <1>1, InitRefines, Invariance, PTL DEF Spec, ImplementsFifoLock, Fifo!Spec

-----------------------------------------------------------------------------
(* Who polls the context of an IOThread. What a step of IOThread does to   *)
(* the lock is a step of RFifoLock, and keeps the invariant above.         *)

\* aio_context_acquire has returned and aio_context_release has yet to be called; the
\* thread has nothing to do with the lock.
Polls == iopc \in {"check", "poll", "dispatch", "release"}
Outside == iopc \in {"none", "start", "top", "exited"}

IoHolds ==
  /\ Polls => depth[io] = 1
  /\ Outside => depth[io] = 0 /\ pc[io] = "out"
  /\ depth[io] \in {0, 1}
  /\ mpc = "create" => iopc = "none"

IoInv == IoTypeOK /\ IInv /\ IoHolds

\* The steps of the lock keep its invariant, ...
LEMMA LockKept ==
  ASSUME IInv, NEW t \in Threads,
         \/ LockNested(t) \/ LockOuter(t) \/ CondWaitReturns(t)
         \/ SpuriousWakeup(t) \/ Unlock(t)
  PROVE  IInv' /\ TypeOK'
<1>1. IInv'
  BY LockNestedIInv, LockOuterIInv, CondWaitReturnsIInv, SpuriousWakeupIInv, UnlockIInv, Zenon
<1> QED
  BY <1>1, Zenon DEF IInv

\* ... and so does whoever sets or clears the notifier.
LEMMA LockUntouched ==
  ASSUME IInv, UNCHANGED lockFields, kick' \in BOOLEAN
  PROVE  IInv' /\ TypeOK'
<1>1. TypeOK'
  BY Zenon DEF IInv, TypeOK, lockFields
<1>2. IInv'
  BY <1>1, ZenonT(60) DEF IInv, OwnershipExclusive, OwnerHolds, TicketsAccountedFor,
              NextOwnerAwake, Outstanding, Live, lockFields
<1> QED
  BY <1>1, <1>2, Zenon

LEMMA IoInitInv == IoInit => IoInv
<1> SUFFICES ASSUME IoInit PROVE IoInv
  BY Zenon
<1>1. 0 \in Tickets
  <2>1. Cardinality(Threads) \in Nat
    BY ThreadsAssumption, FS_CardinalityType, Zenon
  <2> QED
    BY <2>1, TicketModAssumption DEF Tickets
<1>2. TypeOK
  BY <1>1, Zenon DEF IoInit, TypeOK
<1>3. Outstanding = {} /\ \A x \in Tickets : ~Live(x)
  BY DEF IoInit, Outstanding, Live, Tickets
<1>4. OwnershipExclusive /\ OwnerHolds /\ TicketsAccountedFor /\ NextOwnerAwake
  BY <1>3 DEF IoInit, OwnershipExclusive, OwnerHolds, TicketsAccountedFor, NextOwnerAwake
<1>5. IoTypeOK
  BY <1>2, Zenon DEF IoInit, IoTypeOK
<1>6. IoHolds
  BY IOThreadAssumption, Zenon DEF IoInit, IoHolds, Polls, Outside
<1> QED
  BY <1>2, <1>4, <1>5, <1>6, Zenon DEF IoInv, IInv

\* What a step of the lock by another thread does to the IOThread's part of it, ...
LEMMA OthersLeave ==
  ASSUME IoInv, NEW u \in Users,
         \/ LockNested(u) \/ LockOuter(u) \/ CondWaitReturns(u)
         \/ SpuriousWakeup(u) \/ Unlock(u)
  PROVE  depth'[io] = depth[io] /\ (pc[io] = "out" => pc'[io] = "out")
<1>1. u # io /\ u \in Threads /\ io \in Threads
  BY IOThreadAssumption, Zenon DEF Users
<1>2. depth \in [Threads -> Nat] /\ pc \in [Threads -> {"out", "asleep", "woken"}]
  BY Zenon DEF IoInv, IInv, TypeOK
<1>3. CASE LockNested(u) \/ LockOuter(u) \/ CondWaitReturns(u)
  <2>1. /\ \/ UNCHANGED depth
           \/ depth' = [depth EXCEPT ![u] = @ + 1]
        /\ \/ UNCHANGED pc
           \/ pc' = [pc EXCEPT ![u] = "asleep"]
           \/ pc' = [pc EXCEPT ![u] = "out"]
    BY <1>3, Zenon DEF LockNested, LockOuter, CondWaitReturns, Own, Sleep
  <2> QED
    BY <1>1, <1>2, <2>1, Zenon
<1>4. CASE SpuriousWakeup(u)
  BY <1>1, <1>2, <1>4, Zenon DEF SpuriousWakeup
<1>5. CASE Unlock(u)
  BY <1>1, <1>2, <1>5, Zenon DEF Unlock
<1> QED
  BY <1>3, <1>4, <1>5, Zenon

\* ... and a return of its own qemu_cond_wait.
LEMMA OwnWakes ==
  ASSUME IoInv, CondWaitReturns(io) \/ SpuriousWakeup(io)
  PROVE  ~Polls /\ ~Outside /\ depth'[io] \in {0, 1}
<1>1. io \in Threads
  BY IOThreadAssumption, Zenon
<1>2. depth \in [Threads -> Nat] /\ pc \in [Threads -> {"out", "asleep", "woken"}]
  BY Zenon DEF IoInv, IInv, TypeOK
<1>3. pc[io] # "out"
  BY Zenon DEF CondWaitReturns, SpuriousWakeup
<1>4. depth[io] = 0
  BY <1>1, <1>2, <1>3 DEF IoInv, IInv, TicketsAccountedFor
<1>5. depth' = depth \/ depth' = [depth EXCEPT ![io] = @ + 1]
  BY Zenon DEF CondWaitReturns, SpuriousWakeup, Own, Sleep
<1> QED
  BY <1>1, <1>2, <1>3, <1>4, <1>5 DEF IoInv, IoHolds

\* A step of the lock by a thread that is not in iothread_run's own code.
LEMMA IoLockStep ==
  ASSUME IoInv, NEW t \in Threads, UNCHANGED <<event, iopc, seen, stopping, named, mpc>>,
         \/ t \in Users /\ (LockNested(t) \/ LockOuter(t) \/ Unlock(t))
         \/ CondWaitReturns(t) \/ SpuriousWakeup(t)
  PROVE  IoInv'
<1>1. IInv' /\ TypeOK'
  BY LockKept, Zenon DEF IoInv
<1>2. IoTypeOK'
  BY <1>1, Zenon DEF IoInv, IoTypeOK
<1>3. IoHolds'
  <2>1. CASE t = io
    <3>1. CondWaitReturns(io) \/ SpuriousWakeup(io)
      BY <2>1, IOThreadAssumption, Zenon DEF Users
    <3> QED
      BY <3>1, OwnWakes, Zenon DEF IoInv, IoHolds, Polls, Outside
  <2>2. CASE t \in Users
    BY <2>2, OthersLeave, Zenon DEF IoInv, IoHolds, Polls, Outside
  <2> QED
    BY <2>1, <2>2, Zenon DEF Users
<1> QED
  BY <1>1, <1>2, <1>3, Zenon DEF IoInv

\* The steps that leave the lock alone.
LEMMA IoOtherStep ==
  ASSUME IoInv, UNCHANGED lockFields, event' \in BOOLEAN, seen' \subseteq {"notifier", "event"},
         stopping' \in BOOLEAN, named' \in BOOLEAN, kick' \in BOOLEAN,
         mpc' \in {"create", "wait", "asleep", "ready", "notify", "join", "done"},
         iopc' \in {"none", "start", "top", "acquire", "check", "poll", "dispatch",
                    "release", "exited"},
         mpc' = "create" => iopc' = "none",
         Polls' => depth[io] = 1,
         Outside' => depth[io] = 0 /\ pc[io] = "out"
  PROVE  IoInv'
<1>1. IInv' /\ TypeOK'
  BY LockUntouched, Zenon DEF IoInv
<1>2. IoTypeOK'
  BY <1>1, Zenon DEF IoTypeOK
<1>3. IoHolds'
  BY Zenon DEF IoInv, IoHolds, lockFields
<1> QED
  BY <1>1, <1>2, <1>3, Zenon DEF IoInv

\* iothread_run.
LEMMA IoSteps == ASSUME IoInv, IoStep PROVE IoInv'
<1>1. /\ io \in Threads /\ depth \in [Threads -> Nat]
      /\ pc \in [Threads -> {"out", "asleep", "woken"}]
  BY IOThreadAssumption, Zenon DEF IoInv, IInv, TypeOK
<1>2. mpc # "create"
  BY Zenon DEF IoInv, IoHolds, IoStep, IoStart, IoTop, IoAcquired, IoCheck, IoPollReturns,
         IoDispatch, IoRelease
<1>3. kick \in BOOLEAN /\ event \in BOOLEAN
  BY Zenon DEF IoInv, IoTypeOK, TypeOK
<1>4. CASE IoStart
  <2>1. /\ UNCHANGED <<lockFields, kick, event, seen, stopping>>
        /\ named' = TRUE /\ iopc = "start" /\ iopc' = "top"
        /\ mpc' \in {mpc, "wait"}
    BY <1>4, Zenon DEF lockVars, lockFields, IoStart, Signalled
  <2>2. Outside /\ ~Polls'
    BY <2>1, Zenon DEF Outside, Polls
  <2> QED
    BY <1>2, <1>3, <2>1, <2>2, IoOtherStep, Zenon DEF IoInv, IoHolds, IoTypeOK
<1>5. CASE IoTop /\ stopping
  <2>1. /\ UNCHANGED <<lockFields, kick, event, seen, stopping, named, mpc>>
        /\ iopc = "top" /\ iopc' = "exited"
    BY <1>5, Zenon DEF lockVars, lockFields, IoTop
  <2>2. Outside /\ ~Polls'
    BY <2>1, Zenon DEF Outside, Polls
  <2> QED
    BY <1>2, <1>3, <2>1, <2>2, IoOtherStep, ZenonT(60) DEF IoInv, IoHolds, IoTypeOK
<1>6. CASE IoTop /\ ~stopping
  <2>1. /\ UNCHANGED <<event, seen, stopping, named, mpc>>
        /\ iopc = "top" /\ iopc' = "acquire" /\ LockOuter(io)
    BY <1>6, Zenon DEF IoTop
  <2>2. IInv' /\ TypeOK'
    BY <1>1, <2>1, LockKept, Zenon DEF IoInv
  <2>3. IoTypeOK'
    BY <2>1, <2>2, Zenon DEF IoInv, IoTypeOK
  <2>4. depth[io] = 0
    BY <2>1, Zenon DEF IoInv, IoHolds, Outside
  <2>5. depth' = depth \/ depth' = [depth EXCEPT ![io] = @ + 1]
    BY <2>1, Zenon DEF LockOuter, Own, Sleep
  <2>6. depth'[io] \in {0, 1}
    BY <1>1, <2>4, <2>5
  <2>7. IoHolds'
    BY <1>2, <2>1, <2>6, Zenon DEF IoHolds, Polls, Outside
  <2> QED
    BY <2>2, <2>3, <2>7, Zenon DEF IoInv
<1>7. CASE IoAcquired
  <2>1. /\ UNCHANGED <<lockFields, kick, event, seen, stopping, named, mpc>>
        /\ depth[io] > 0 /\ iopc' = "check"
    BY <1>7, Zenon DEF lockVars, lockFields, IoAcquired
  <2>2. depth[io] = 1 /\ ~Outside'
    BY <2>1 DEF IoInv, IoHolds, Outside
  <2> QED
    BY <1>2, <1>3, <2>1, <2>2, IoOtherStep, Zenon DEF IoInv, IoTypeOK
<1>8. CASE IoCheck \/ IoPollReturns
  <2>1. /\ UNCHANGED <<lockFields, kick, event, stopping, named, mpc>>
        /\ iopc \in {"check", "poll"} /\ iopc' \in {"poll", "release", "dispatch"}
        /\ seen' = seen \/ seen' \subseteq {"notifier", "event"}
    BY <1>8, Zenon DEF lockVars, lockFields, IoCheck, IoPollReturns
  <2>2. depth[io] = 1 /\ ~Outside'
    BY <2>1, Zenon DEF IoInv, IoHolds, Polls, Outside
  <2>3. seen' \subseteq {"notifier", "event"}
    BY <2>1, Zenon DEF IoInv, IoTypeOK
  <2> QED
    BY <1>2, <1>3, <2>1, <2>2, <2>3, IoOtherStep, ZenonT(60) DEF IoInv, IoTypeOK
<1>9. CASE IoDispatch
  <2>1. /\ UNCHANGED <<lockFields, stopping, named, mpc>>
        /\ iopc = "dispatch" /\ iopc' \in {"check", "release"} /\ seen' = {}
    BY <1>9, Zenon DEF lockVars, lockFields, IoDispatch
  <2>2. kick' \in BOOLEAN /\ event' \in BOOLEAN
    BY <1>9, Zenon DEF IoDispatch
  <2>3. depth[io] = 1 /\ ~Outside'
    BY <2>1, Zenon DEF IoInv, IoHolds, Polls, Outside
  <2> QED
    BY <1>2, <2>1, <2>2, <2>3, IoOtherStep, Zenon DEF IoInv, IoTypeOK
<1>10. CASE IoRelease
  <2>1. /\ UNCHANGED <<event, seen, stopping, named, mpc>>
        /\ iopc = "release" /\ iopc' = "top" /\ Unlock(io)
    BY <1>10, Zenon DEF IoRelease
  <2>2. IInv' /\ TypeOK'
    BY <1>1, <2>1, LockKept, Zenon DEF IoInv
  <2>3. IoTypeOK'
    BY <2>1, <2>2, Zenon DEF IoInv, IoTypeOK
  <2>4. depth[io] = 1
    BY <2>1, Zenon DEF IoInv, IoHolds, Polls
  <2>5. depth'[io] = 0 /\ pc'[io] = "out"
    BY <1>1, <2>1, <2>4 DEF Unlock
  <2>6. IoHolds'
    BY <1>2, <2>1, <2>5, Zenon DEF IoHolds, Polls, Outside
  <2> QED
    BY <2>2, <2>3, <2>6, Zenon DEF IoInv
<1> QED
  BY <1>4, <1>5, <1>6, <1>7, <1>8, <1>9, <1>10, ZenonT(60) DEF IoStep

\* iothread_complete and iothread_instance_finalize.
LEMMA MainSteps == ASSUME IoInv, MainStep \/ EventHappens \/ Done PROVE IoInv'
<1>1. kick \in BOOLEAN /\ event \in BOOLEAN
  BY Zenon DEF IoInv, IoTypeOK, TypeOK
<1>2. CASE Complete
  <2>1. /\ UNCHANGED <<lockFields, kick, event, seen, stopping, named>>
        /\ mpc = "create" /\ iopc' = "start" /\ mpc' = "wait"
    BY <1>2, Zenon DEF lockVars, lockFields, Complete
  <2>2. Outside /\ ~Polls'
    BY <2>1, Zenon DEF IoInv, IoHolds, Outside, Polls
  <2> QED
    BY <1>1, <2>1, <2>2, IoOtherStep, Zenon DEF IoInv, IoHolds, IoTypeOK
<1>3. CASE CompleteWaits \/ Finalize \/ FinalizeNotifies \/ FinalizeJoins \/ EventHappens \/ Done
  <2>1. UNCHANGED <<lockFields, iopc, seen, named>>
    BY <1>3, Zenon DEF lockVars, lockFields, CompleteWaits, Finalize, FinalizeNotifies, FinalizeJoins, EventHappens,
                       Done, ioVars
  <2>2. kick' \in BOOLEAN /\ event' \in BOOLEAN /\ stopping' \in BOOLEAN
    BY <1>1, <1>3, Zenon DEF CompleteWaits, Finalize, FinalizeNotifies, FinalizeJoins, EventHappens,
                        Done, ioVars, lockVars, AioNotify, IoInv, IoTypeOK
  <2>3. /\ mpc' \in {"create", "wait", "asleep", "ready", "notify", "join", "done"}
        /\ mpc' = "create" => mpc = "create"
    BY <1>3, Zenon DEF CompleteWaits, Finalize, FinalizeNotifies, FinalizeJoins, EventHappens,
                Done, ioVars, IoInv, IoTypeOK
  <2>4. (Polls' <=> Polls) /\ (Outside' <=> Outside)
    BY <2>1, Zenon DEF Polls, Outside
  <2> QED
    BY <2>1, <2>2, <2>3, <2>4, IoOtherStep, ZenonT(60) DEF IoInv, IoHolds, IoTypeOK
<1> QED
  BY <1>2, <1>3, Zenon DEF MainStep

LEMMA IoNextInv == IoInv /\ [IoNext]_ioVars => IoInv'
<1> SUFFICES ASSUME IoInv, [IoNext]_ioVars PROVE IoInv'
  BY Zenon
<1>1. CASE IoStep
  BY <1>1, IoSteps, Zenon
<1>2. CASE MainStep \/ EventHappens \/ Done
  BY <1>2, MainSteps, Zenon
<1>3. ASSUME NEW u \in Users, UserLock(u) \/ UserUnlock(u) PROVE IoInv'
  <2>1. /\ u \in Threads /\ UNCHANGED <<event, iopc, seen, stopping, named, mpc>>
        /\ LockNested(u) \/ LockOuter(u) \/ Unlock(u)
    BY <1>3, Zenon DEF UserLock, UserUnlock, Lock, Users
  <2> QED
    BY <2>1, IoLockStep, Zenon
<1>4. ASSUME NEW t \in Threads, LockWakes(t) \/ LockSpurious(t) PROVE IoInv'
  <2>1. /\ UNCHANGED <<event, iopc, seen, stopping, named, mpc>>
        /\ CondWaitReturns(t) \/ SpuriousWakeup(t)
    BY <1>4, Zenon DEF LockWakes, LockSpurious
  <2> QED
    BY <2>1, IoLockStep, Zenon
<1>5. CASE UNCHANGED ioVars
  <2>1. kick \in BOOLEAN /\ event \in BOOLEAN
    BY Zenon DEF IoInv, IoTypeOK, TypeOK
  <2>2. (Polls' <=> Polls) /\ (Outside' <=> Outside)
    BY <1>5, Zenon DEF Polls, Outside, ioVars
  <2> QED
    BY <1>5, <2>1, <2>2, IoOtherStep DEF ioVars, lockVars, lockFields, IoInv, IoHolds, IoTypeOK
<1> QED
  BY <1>1, <1>2, <1>3, <1>4, <1>5, Zenon DEF IoNext

\* The thread of iothread_run is in aio_poll only between aio_context_acquire and
\* aio_context_release, no other thread has the context then, and when it goes round
\* the outer loop or exits it has given the context back, whatever the number of
\* threads that use the context and the width of the lock's tickets.
THEOREM PollsAlone == IoSpec => []PollOwnsContext
<1>1. IoInv => PollOwnsContext
  <2> SUFFICES ASSUME IoInv PROVE PollOwnsContext
    BY Zenon
  <2>1. /\ depth \in [Threads -> Nat] /\ io \in Threads /\ Users \subseteq Threads
    BY IOThreadAssumption, Zenon DEF IoInv, IInv, TypeOK, Users
  <2>2. iopc \in {"check", "poll", "dispatch", "release"} <=> depth[io] > 0 /\ iopc # "acquire"
    BY DEF IoInv, IoTypeOK, IoHolds, Polls, Outside
  <2>3. \A u \in Users : depth[u] > 0 => depth[io] = 0
    BY <2>1, IOThreadAssumption DEF Users, IoInv, IInv, OwnershipExclusive
  <2> QED
    BY <2>2, <2>3, Zenon DEF PollOwnsContext, IoInv
<1> QED
  BY IoInitInv, IoNextInv, <1>1, PTL DEF IoSpec

\* The context's lock stays what rfifolock.c promises while the thread of iothread_run,
\* the threads that acquire the context, and whoever sets or clears its notifier act on
\* it together.
THEOREM ContextLockSound ==
  IoSpec => [](OwnershipExclusive /\ TicketsAccountedFor /\ NextOwnerAwake)
<1>1. IoInv => OwnershipExclusive /\ TicketsAccountedFor /\ NextOwnerAwake
  BY Zenon DEF IoInv, IInv
<1> QED
  BY IoInitInv, IoNextInv, <1>1, PTL DEF IoSpec

=============================================================================
