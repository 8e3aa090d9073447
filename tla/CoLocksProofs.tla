-------------------------- MODULE CoLocksProofs --------------------------
(***************************************************************************)
(* The CoMutex and the CoRwlock exclude and strand nobody, for any finite  *)
(* set of coroutines and wherever they yield.                              *)
(*                                                                         *)
(* A lock is a user of coroutines: every step of CoLocks is a step of      *)
(* Coroutine (LocksAreCoroutines), so CoInv of CoroutineProofs holds here  *)
(* too, and WaitersInv only adds where a waiter may be.                    *)
(***************************************************************************)
EXTENDS CoLocks, CoroutineProofs, FiniteSetTheorems

Places == Waits \cup {"idle", "locks", "reads", "writes"}

\* How many coroutines are inside the critical sections of one kind.
Inside(w) == Cardinality(Doing(w))

\* A coroutine goes from one place in its program to another.
LEMMA Moves ==
  ASSUME LocksTypeOK, NEW c \in Cos, NEW from, NEW to \in Places,
         prog[c] = from, from # to, Becomes(c, to)
  PROVE  /\ prog' \in [Cos -> Places]
         /\ \A w \in Places : w \notin {from, to} => Inside(w)' = Inside(w)
         /\ Inside(to)' = Inside(to) + 1
         /\ Inside(from)' = Inside(from) - 1
<1>1. prog' = [prog EXCEPT ![c] = to] /\ prog \in [Cos -> Places]
  BY Zenon DEF Becomes, LocksTypeOK, Places
<1>2. /\ \A w \in Places : w \notin {from, to} => Doing(w)' = Doing(w)
      /\ Doing(to)' = Doing(to) \cup {c} /\ c \notin Doing(to)
      /\ Doing(from)' = Doing(from) \ {c} /\ c \in Doing(from)
  BY <1>1, Zenon DEF Doing
<1>3. IsFiniteSet(Doing(to)) /\ IsFiniteSet(Doing(from))
  BY CosAssumption, FS_Subset, Zenon DEF Doing
<1>4. Inside(to)' = Inside(to) + 1
  BY <1>2, <1>3, FS_AddElement, Zenon DEF Inside
<1>5. Inside(from)' = Inside(from) - 1
  <2>1. Cardinality(Doing(from) \ {c}) = Cardinality(Doing(from)) - 1
    BY <1>2, <1>3, FS_RemoveElement, Zenon
  <2> QED
    BY <1>2, <2>1, Zenon DEF Inside
<1> QED
  BY <1>1, <1>2, <1>4, <1>5, Zenon DEF Inside

\* Nobody who reads or writes is missed by the counts.
LEMMA SomebodyInside ==
  ASSUME MutualExclusion, NEW c \in Cos
  PROVE  /\ prog[c] = "locks" => locked
         /\ prog[c] = "writes" => writer
         /\ prog[c] = "reads" => reader > 0 /\ ~writer
<1>1. ASSUME NEW w, prog[c] = w PROVE Inside(w) \in Nat /\ Inside(w) > 0
  <2>1. IsFiniteSet(Doing(w)) /\ c \in Doing(w)
    BY <1>1, CosAssumption, FS_Subset, Zenon DEF Doing
  <2> QED
    BY <2>1, FS_CardinalityType, FS_EmptySet DEF Inside
<1>2. /\ Inside("locks") = IF locked THEN 1 ELSE 0
      /\ Inside("writes") = IF writer THEN 1 ELSE 0
      /\ Inside("reads") = reader
      /\ writer => reader = 0
  BY Zenon DEF MutualExclusion, Inside
<1>3. prog[c] = "locks" => locked
  BY <1>1, <1>2
<1>4. prog[c] = "writes" => writer
  BY <1>1, <1>2
<1>5. prog[c] = "reads" => reader > 0 /\ ~writer
  BY <1>1, <1>2
<1> QED
  BY <1>3, <1>4, <1>5, Zenon

LEMMA LocksInitExclusion == LocksInit => MutualExclusion
<1> SUFFICES ASSUME LocksInit PROVE MutualExclusion
  BY Zenon
<1>1. Doing("locks") = {} /\ Doing("writes") = {} /\ Doing("reads") = {}
  BY Zenon DEF LocksInit, Doing
<1>2. Cardinality({}) = 0
  BY FS_EmptySet, Zenon
<1> QED
  BY <1>1, <1>2, Zenon DEF LocksInit, MutualExclusion, LocksTypeOK

\* What a coroutine that stays outside the critical sections does does not matter.
LEMMA StaysOutside ==
  ASSUME MutualExclusion, UNCHANGED <<locked, writer, reader>>, NEW c \in Cos,
         NEW from \in Waits \cup {"idle"}, NEW to \in Waits, prog[c] = from, Becomes(c, to)
  PROVE  MutualExclusion'
<1>1. CASE from = to
  <2>1. prog' = prog
    BY <1>1, Zenon DEF Becomes, MutualExclusion, LocksTypeOK
  <2> QED
    BY <2>1, Zenon DEF MutualExclusion, LocksTypeOK, Doing
<1>2. CASE from # to
  <2>1. /\ prog' \in [Cos -> Places]
        /\ \A w \in Places : w \notin {from, to} => Inside(w)' = Inside(w)
    BY <1>2, Moves DEF MutualExclusion, Places
  <2> QED
    BY <2>1, Zenon DEF MutualExclusion, LocksTypeOK, Inside, Places, Waits
<1> QED
  BY <1>1, <1>2, Zenon

LEMMA MutexLockExclusion ==
  ASSUME MutualExclusion, NEW c \in Cos, MutexLock(c)
  PROVE  MutualExclusion'
<1>1. CASE locked
  BY <1>1, StaysOutside, Zenon DEF MutexLock, MutexTaken, Waits
<1>2. CASE ~locked
  <2>1. locked' = TRUE /\ Becomes(c, "locks") /\ UNCHANGED <<writer, reader>>
    BY <1>2, Zenon DEF MutexLock, MutexTaken
  <2>2. prog[c] \in {"idle", "toLock"}
    BY Zenon DEF MutexLock
  <2>3. /\ prog' \in [Cos -> Places]
        /\ Inside("writes")' = Inside("writes") /\ Inside("reads")' = Inside("reads")
        /\ Inside("locks")' = Inside("locks") + 1
    BY <2>1, <2>2, Moves DEF MutualExclusion, Places, Waits
  <2> QED
    BY <1>2, <2>1, <2>3 DEF MutualExclusion, LocksTypeOK, Inside, Places
<1> QED
  BY <1>1, <1>2, Zenon

LEMMA MutexUnlockExclusion ==
  ASSUME MutualExclusion, NEW c \in Cos, MutexUnlock(c)
  PROVE  MutualExclusion'
<1>1. locked' = FALSE /\ Becomes(c, "idle") /\ UNCHANGED <<writer, reader>> /\ prog[c] = "locks"
  BY Zenon DEF MutexUnlock
<1>2. locked
  BY <1>1, SomebodyInside, Zenon
<1>3. /\ prog' \in [Cos -> Places]
      /\ Inside("writes")' = Inside("writes") /\ Inside("reads")' = Inside("reads")
      /\ Inside("locks")' = Inside("locks") - 1
  BY <1>1, Moves DEF MutualExclusion, Places, Waits
<1>4. Inside("locks") = 1
  BY <1>2, Zenon DEF MutualExclusion, Inside
<1>5. Inside("locks")' = 0
  BY <1>3, <1>4
<1> QED
  BY <1>1, <1>3, <1>5, Zenon DEF MutualExclusion, LocksTypeOK, Inside, Places

LEMMA RdLockExclusion ==
  ASSUME MutualExclusion, NEW c \in Cos, RdLock(c)
  PROVE  MutualExclusion'
<1>1. CASE writer
  BY <1>1, StaysOutside, Zenon DEF RdLock, Waits
<1>2. CASE ~writer
  <2>1. reader' = reader + 1 /\ Becomes(c, "reads") /\ UNCHANGED <<writer, locked>>
    BY <1>2, Zenon DEF RdLock
  <2>2. prog[c] \in {"idle", "toRead"}
    BY Zenon DEF RdLock
  <2>3. /\ prog' \in [Cos -> Places]
        /\ Inside("writes")' = Inside("writes") /\ Inside("locks")' = Inside("locks")
        /\ Inside("reads")' = Inside("reads") + 1
    BY <2>1, <2>2, Moves, SMTT(30) DEF MutualExclusion, Places, Waits
  <2> QED
    BY <1>2, <2>1, <2>3, SMTT(30) DEF MutualExclusion, LocksTypeOK, Inside, Places
<1> QED
  BY <1>1, <1>2, Zenon

LEMMA WrLockExclusion ==
  ASSUME MutualExclusion, NEW c \in Cos, WrLock(c)
  PROVE  MutualExclusion'
<1>1. CASE WriterWaits
  BY <1>1, StaysOutside, Zenon DEF WrLock, Waits
<1>2. CASE ~WriterWaits
  <2>1. writer' = TRUE /\ Becomes(c, "writes") /\ UNCHANGED <<reader, locked>>
    BY <1>2, Zenon DEF WrLock
  <2>2. prog[c] \in {"idle", "toWrite"}
    BY Zenon DEF WrLock
  <2>3. /\ prog' \in [Cos -> Places]
        /\ Inside("reads")' = Inside("reads") /\ Inside("locks")' = Inside("locks")
        /\ Inside("writes")' = Inside("writes") + 1
    BY <2>1, <2>2, Moves DEF MutualExclusion, Places, Waits
  <2>4. ~writer /\ reader = 0
    BY <1>2 DEF WriterWaits, MutualExclusion, LocksTypeOK
  <2> QED
    BY <2>1, <2>3, <2>4, SMTT(30) DEF MutualExclusion, LocksTypeOK, Inside, Places
<1> QED
  BY <1>1, <1>2, Zenon

\* qemu_co_rwlock_unlock tells a writer from a reader by rwlock->writer alone.
LEMMA RwUnlockExclusion ==
  ASSUME MutualExclusion, NEW c \in Cos, RwUnlock(c)
  PROVE  MutualExclusion'
<1>1. Becomes(c, "idle") /\ UNCHANGED locked /\ prog[c] \in {"reads", "writes"}
  BY Zenon DEF RwUnlock
<1>2. CASE prog[c] = "writes"
  <2>1. writer /\ writer' = FALSE /\ UNCHANGED reader
    BY <1>2, SomebodyInside, Zenon DEF RwUnlock
  <2>2. /\ prog' \in [Cos -> Places]
        /\ Inside("reads")' = Inside("reads") /\ Inside("locks")' = Inside("locks")
        /\ Inside("writes")' = Inside("writes") - 1
    BY <1>1, <1>2, Moves DEF MutualExclusion, Places, Waits
  <2>3. Inside("writes") = 1
    BY <2>1, Zenon DEF MutualExclusion, Inside
  <2>4. Inside("writes")' = 0
    BY <2>2, <2>3
  <2> QED
    BY <1>1, <2>1, <2>2, <2>4, Zenon DEF MutualExclusion, LocksTypeOK, Inside, Places
<1>3. CASE prog[c] = "reads"
  <2>1. ~writer /\ reader > 0 /\ reader' = reader - 1 /\ UNCHANGED writer
    BY <1>3, SomebodyInside, Zenon DEF RwUnlock
  <2>2. /\ prog' \in [Cos -> Places]
        /\ Inside("writes")' = Inside("writes") /\ Inside("locks")' = Inside("locks")
        /\ Inside("reads")' = Inside("reads") - 1
    BY <1>1, <1>3, Moves, SMTT(30) DEF MutualExclusion, Places, Waits
  <2>3. reader - 1 \in Nat
    BY <2>1 DEF MutualExclusion, LocksTypeOK
  <2> QED
    BY <1>1, <2>1, <2>2, <2>3, Zenon DEF MutualExclusion, LocksTypeOK, Inside, Places
<1> QED
  BY <1>1, <1>2, <1>3, Zenon

LEMMA ExclusionNext == MutualExclusion /\ [LocksNext]_vars => MutualExclusion'
<1> SUFFICES ASSUME MutualExclusion, [LocksNext]_vars PROVE MutualExclusion'
  BY Zenon
<1>1. CASE UNCHANGED lockVars
  BY <1>1, Zenon DEF lockVars, MutualExclusion, LocksTypeOK, Doing
<1>2. CASE UNCHANGED vars
  BY <1>1, <1>2, Zenon DEF vars
<1>3. CASE Switching \/ \E x \in All, c \in Cos : Begin(x, c)
  BY <1>1, <1>3, Zenon DEF Switching, Begin
<1>4. CASE \E c \in Cos : Pause(c) \/ End(c)
  BY <1>1, <1>4, Zenon DEF Pause, End
<1> QED
  BY Zenon, <1>2, <1>3, <1>4, MutexLockExclusion, MutexUnlockExclusion, RdLockExclusion,
     WrLockExclusion, RwUnlockExclusion DEF LocksNext

\* Between qemu_co_mutex_lock and qemu_co_mutex_unlock there is at most one coroutine; in
\* the CoRwlock there are readers or one writer, as many as it counts. However many
\* coroutines there are, and although an unlock only marks the next one.
THEOREM LocksExclude == LocksSpec => []MutualExclusion
  BY LocksInitExclusion, ExclusionNext, PTL DEF LocksSpec

-----------------------------------------------------------------------------
(* The queues of the locks.                                                *)

\* Who is in a queue waits for that lock, and readers only queue behind a writer.
WaitersQueue ==
  /\ \A c \in Cos : status[c] # "live" => prog[c] = "idle"
  /\ Range(entries[mutex]) \subseteq Doing("toLock")
  /\ Range(entries[rwlock]) \subseteq Doing("toRead") \cup Doing("toWrite")
  /\ ~writer => Range(entries[rwlock]) \subseteq Doing("toWrite")

WaitersInv == CoInv /\ MutualExclusion /\ WaitersQueue /\ NobodyStranded

\* The locks and their queues stay as they are.
LEMMA WaitersKept ==
  ASSUME WaitersQueue, NobodyStranded, UNCHANGED <<locked, writer, reader, prog, entries>>,
         \A c \in Cos : Waiting(c) => Queued(c)' \/ caller'[c] # Null,
         \A c \in Cos : status[c] = "live" /\ prog[c] # "idle" => status'[c] = "live"
  PROVE  WaitersQueue' /\ NobodyStranded'
<1>1. WaitersQueue'
  BY DEF WaitersQueue, Doing, Range
<1>2. \A c \in Cos : Waiting(c)' => Queued(c)' \/ caller'[c] # Null
  BY Zenon DEF Waiting
<1> QED
  BY <1>1, <1>2 DEF NobodyStranded, Doing, Range

\* c goes on to w in its program: nobody who waits is forgotten, and whoever is in a queue
\* waits for its lock.
MovesTo(c, w) ==
  /\ \A d \in Cos : Waiting(d)' => Queued(d)' \/ caller'[d] # Null
  /\ \A d \in Cos : status'[d] # "live" => prog'[d] = "idle"
  /\ Range(entries'[mutex]) \subseteq Doing("toLock")'
  /\ Range(entries'[rwlock]) \subseteq Doing("toRead")' \cup Doing("toWrite")'
  /\ c \notin Range(entries[mutex]) /\ c \notin Range(entries[rwlock])
  /\ \A p : Doing(p)' = IF p = w THEN Doing(p) \cup {c} ELSE Doing(p) \ {c}

\* The running coroutine does so, and into a queue if it waits.
LEMMA WaitersMove ==
  ASSUME WaitersInv, NEW c \in Cos, NEW w \in Places, Becomes(c, w), current = c,
         UNCHANGED status, \A d \in Cos : Queued(d) => Queued(d)',
         \A d \in Cos \ {c} : caller'[d] = caller[d], w \in Waits => Queued(c)',
         Range(entries'[mutex]) \subseteq
           Range(entries[mutex]) \cup (IF w = "toLock" THEN {c} ELSE {}),
         Range(entries'[rwlock]) \subseteq
           Range(entries[rwlock]) \cup (IF w \in {"toRead", "toWrite"} THEN {c} ELSE {})
  PROVE  MovesTo(c, w)
<1>1. status[c] = "live" /\ ~Queued(c)
  BY RunsUnqueued, Zenon DEF WaitersInv
<1>2. c \notin Range(entries[mutex]) /\ c \notin Range(entries[rwlock])
  BY <1>1, LocksAssumption, Zenon DEF Queued
<1>3. /\ prog \in [Cos -> Places] /\ prog' \in [Cos -> Places] /\ prog'[c] = w
      /\ \A d \in Cos \ {c} : prog'[d] = prog[d]
  BY Zenon DEF WaitersInv, MutualExclusion, LocksTypeOK, Places, Becomes
<1>4. \A p : Doing(p)' = IF p = w THEN Doing(p) \cup {c} ELSE Doing(p) \ {c}
  BY <1>3, Zenon DEF Doing
<1>5. ASSUME NEW d \in Cos, Waiting(d)' PROVE Queued(d)' \/ caller'[d] # Null
  <2>1. CASE d = c
    BY <1>3, <1>5, <2>1, Zenon DEF Waiting
  <2>2. CASE d # c
    BY <1>3, <1>5, <2>2, Zenon DEF Waiting, WaitersInv, NobodyStranded
  <2> QED
    BY <2>1, <2>2, Zenon
<1>6. \A d \in Cos : status'[d] # "live" => prog'[d] = "idle"
  BY <1>1, <1>3, Zenon DEF WaitersInv, WaitersQueue
<1>7. Range(entries'[mutex]) \subseteq Doing("toLock")'
  BY <1>2, <1>4, Zenon DEF WaitersInv, WaitersQueue
<1>8. Range(entries'[rwlock]) \subseteq Doing("toRead")' \cup Doing("toWrite")'
  BY <1>2, <1>4, Zenon DEF WaitersInv, WaitersQueue
<1> QED
  BY <1>2, <1>4, <1>5, <1>6, <1>7, <1>8, Zenon DEF MovesTo

\* ... when it does not switch or queue.
LEMMA NothingQueued ==
  ASSUME UNCHANGED coVars
  PROVE  /\ UNCHANGED <<status, entries, caller>>
         /\ \A d \in Cos : Queued(d) <=> Queued(d)'
<1>1. UNCHANGED <<status, entries, caller, wakeup>>
  BY Zenon DEF coVars
<1> QED
  BY <1>1, Zenon DEF Queued, Range

\* ... from one of two places.
LEMMA OnlyFrom ==
  ASSUME NEW c \in Cos, NEW v, NEW w, prog[c] \in {v, w}
  PROVE  \A p : p \notin {v, w} => c \notin Doing(p)
  BY Zenon DEF Doing

\* qemu_co_queue_wait in a lock function.
LEMMA WaiterQueues ==
  ASSUME WaitersInv, NEW c \in Cos, NEW q \in Queues, QueueWait(c, q), NEW w \in Waits,
         Becomes(c, w), q = (IF w = "toLock" THEN mutex ELSE rwlock)
  PROVE  /\ MovesTo(c, w) /\ Range(entries'[q]) = Range(entries[q]) \cup {c}
         /\ \A p \in Queues \ {q} : entries'[p] = entries[p]
<1>1. current = c /\ UNCHANGED status /\ mutex \in Queues /\ rwlock \in Queues /\ mutex # rwlock
  BY LocksAssumption, Zenon DEF QueueWait, Running
<1>2. /\ Range(entries'[q]) = Range(entries[q]) \cup {c}
      /\ \A p \in Queues \ {q} : entries'[p] = entries[p]
      /\ \A d \in Cos : Queued(d)' <=> Queued(d) \/ d = c
      /\ \A d \in Cos \ {c} : caller'[d] = caller[d]
  BY QueueWaitStep, OnlyYields, Zenon DEF WaitersInv, CoInv, QueueWait
<1> QED
  BY <1>1, <1>2, WaitersMove, Zenon DEF Places, Waits

\* A lock function that does not wait.
LEMMA WaiterEnters ==
  ASSUME WaitersInv, NEW c \in Cos, current = c, NEW w \in Places \ Waits, Becomes(c, w),
         UNCHANGED coVars
  PROVE  MovesTo(c, w) /\ UNCHANGED entries
<1>1. UNCHANGED <<status, entries, caller>> /\ \A d \in Cos : Queued(d) <=> Queued(d)'
  BY NothingQueued, Zenon
<1> QED
  BY <1>1, WaitersMove, Zenon

LEMMA MutexLockWaiters ==
  ASSUME WaitersInv, NEW c \in Cos, MutexLock(c) PROVE WaitersQueue' /\ NobodyStranded'
<1>1. /\ current = c /\ UNCHANGED <<writer, reader>> /\ mutex \in Queues /\ rwlock \in Queues
      /\ mutex # rwlock /\ c \notin Doing("toRead") /\ c \notin Doing("toWrite")
  BY LocksAssumption, OnlyFrom, Zenon DEF MutexLock, Running
<1>2. PICK w \in {"toLock", "locks"} :
        /\ locked' /\ MovesTo(c, w) /\ entries'[rwlock] = entries[rwlock]
  <2>1. CASE locked
    <3>1. QueueWait(c, mutex) /\ Becomes(c, "toLock") /\ locked'
      BY <2>1, Zenon DEF MutexLock, MutexTaken
    <3> QED
      BY <1>1, <3>1, WaiterQueues, Zenon DEF Waits
  <2>2. CASE ~locked
    <3>1. Becomes(c, "locks") /\ locked' /\ UNCHANGED coVars
      BY <2>2, Zenon DEF MutexLock, MutexTaken
    <3> QED
      BY <1>1, <3>1, WaiterEnters, Zenon DEF Waits, Places
  <2> QED
    BY <2>1, <2>2, Zenon
<1>3. Doing("toRead")' = Doing("toRead") /\ Doing("toWrite")' = Doing("toWrite")
  BY <1>1, <1>2, Zenon DEF MovesTo
<1>4. WaitersQueue'
  BY <1>1, <1>2, <1>3, Zenon DEF MovesTo, WaitersInv, WaitersQueue, Range
<1>5. NobodyStranded'
  BY <1>1, <1>2, <1>3 DEF MovesTo, WaitersInv, NobodyStranded, Range
<1> QED
  BY <1>4, <1>5, Zenon

LEMMA RdLockWaiters ==
  ASSUME WaitersInv, NEW c \in Cos, RdLock(c) PROVE WaitersQueue' /\ NobodyStranded'
<1>1. /\ current = c /\ UNCHANGED <<writer, locked>> /\ mutex \in Queues /\ rwlock \in Queues
      /\ mutex # rwlock /\ c \notin Doing("toLock") /\ c \notin Doing("toWrite")
  BY LocksAssumption, OnlyFrom, Zenon DEF RdLock, Running
<1>2. PICK w \in {"toRead", "reads"} :
        /\ MovesTo(c, w) /\ entries'[mutex] = entries[mutex]
        /\ writer \/ (reader' > 0 /\ entries'[rwlock] = entries[rwlock])
  <2>1. CASE writer
    <3>1. QueueWait(c, rwlock) /\ Becomes(c, "toRead")
      BY <2>1, Zenon DEF RdLock
    <3> QED
      BY <1>1, <2>1, <3>1, WaiterQueues, ZenonT(60) DEF Waits
  <2>2. CASE ~writer
    <3>1. Becomes(c, "reads") /\ reader' > 0 /\ UNCHANGED coVars
      BY <2>2 DEF RdLock, WaitersInv, MutualExclusion, LocksTypeOK
    <3> QED
      BY <1>1, <3>1, WaiterEnters, Zenon DEF Waits, Places
  <2> QED
    BY <2>1, <2>2, Zenon
<1>3. Doing("toLock")' = Doing("toLock") /\ Doing("toWrite")' = Doing("toWrite")
  BY <1>1, <1>2, Zenon DEF MovesTo
<1>4. WaitersQueue'
  BY <1>1, <1>2, <1>3, ZenonT(60) DEF MovesTo, WaitersInv, WaitersQueue, Range
<1>5. NobodyStranded'
  <2>1. ~locked /\ entries[mutex] # <<>> => Doing("toLock") \ Range(entries[mutex]) # {}
    BY Zenon DEF WaitersInv, NobodyStranded
  <2>2. writer' \/ reader' # 0
    BY <1>1, <1>2
  <2> QED
    BY <1>1, <1>2, <1>3, <2>1, <2>2, SMTT(30) DEF MovesTo, NobodyStranded, Range
<1> QED
  BY <1>4, <1>5, Zenon

LEMMA WrLockWaiters ==
  ASSUME WaitersInv, NEW c \in Cos, WrLock(c) PROVE WaitersQueue' /\ NobodyStranded'
<1>1. /\ current = c /\ UNCHANGED <<reader, locked>> /\ mutex \in Queues /\ rwlock \in Queues
      /\ mutex # rwlock /\ c \notin Doing("toLock") /\ c \notin Doing("toRead")
  BY LocksAssumption, OnlyFrom, Zenon DEF WrLock, Running
<1>2. PICK w \in {"toWrite", "writes"} :
        /\ MovesTo(c, w) /\ entries'[mutex] = entries[mutex]
        /\ \/ /\ writer' = writer /\ (writer \/ reader # 0) /\ w = "toWrite"
              /\ Range(entries'[rwlock]) = Range(entries[rwlock]) \cup {c}
           \/ writer'
  <2>1. CASE WriterWaits
    <3>1. QueueWait(c, rwlock) /\ Becomes(c, "toWrite") /\ UNCHANGED writer
      BY <2>1, Zenon DEF WrLock
    <3>2. writer \/ reader # 0
      BY <2>1 DEF WriterWaits, WaitersInv, MutualExclusion, LocksTypeOK
    <3> QED
      BY <1>1, <3>1, <3>2, WaiterQueues, Zenon DEF Waits
  <2>2. CASE ~WriterWaits
    <3>1. Becomes(c, "writes") /\ writer' /\ UNCHANGED coVars
      BY <2>2, Zenon DEF WrLock
    <3> QED
      BY <1>1, <3>1, WaiterEnters, Zenon DEF Waits, Places
  <2> QED
    BY <2>1, <2>2, Zenon
<1>3. Doing("toLock")' = Doing("toLock")
  BY <1>1, <1>2, Zenon DEF MovesTo
<1>4. WaitersQueue'
  <2>1. ~writer' => Range(entries'[rwlock]) \subseteq Doing("toWrite")'
    BY <1>1, <1>2, SMTT(30) DEF MovesTo, WaitersInv, WaitersQueue
  <2> QED
    BY <1>2, <2>1, Zenon DEF MovesTo, WaitersQueue, Range
<1>5. NobodyStranded'
  <2>1. ~locked /\ entries[mutex] # <<>> => Doing("toLock") \ Range(entries[mutex]) # {}
    BY Zenon DEF WaitersInv, NobodyStranded
  <2>2. writer' \/ reader' # 0
    BY <1>1, <1>2
  <2> QED
    BY <1>1, <1>2, <1>3, <2>1, <2>2, SMTT(30) DEF MovesTo, NobodyStranded, Range
<1> QED
  BY <1>4, <1>5, Zenon

\* An unlock leaves the queue empty or takes its first waiter out of it.
LEMMA MutexUnlockWaiters ==
  ASSUME WaitersInv, NEW c \in Cos, MutexUnlock(c) PROVE WaitersQueue' /\ NobodyStranded'
<1>1. /\ current = c /\ UNCHANGED <<writer, reader>> /\ mutex \in Queues /\ rwlock \in Queues
      /\ mutex # rwlock /\ Becomes(c, "idle")
  BY LocksAssumption, Zenon DEF MutexUnlock, Running
<1>2. \A p : p # "locks" => c \notin Doing(p)
  BY Zenon DEF MutexUnlock, Doing
<1>3. /\ MovesTo(c, "idle") /\ entries'[rwlock] = entries[rwlock]
      /\ \/ entries'[mutex] = <<>>
         \/ Head(entries[mutex]) \in Range(entries[mutex]) \ Range(entries'[mutex])
  <2>1. CASE HasWaiters(mutex)
    <3>1. QueueNext(c, mutex)
      BY <2>1, Zenon DEF MutexUnlock
    <3>2. /\ UNCHANGED <<status, caller>> /\ entries'[rwlock] = entries[rwlock]
          /\ \A d \in Cos : Queued(d)' <=> Queued(d)
          /\ Range(entries'[mutex]) \subseteq Range(entries[mutex])
          /\ Head(entries[mutex]) \in Range(entries[mutex]) \ Range(entries'[mutex])
      BY <1>1, <3>1, QueueNextStep, Zenon DEF WaitersInv
    <3>3. MovesTo(c, "idle")
      BY <1>1, <3>2, WaitersMove, Zenon DEF Places, Waits
    <3> QED
      BY <3>2, <3>3, Zenon
  <2>2. CASE ~HasWaiters(mutex)
    <3>1. UNCHANGED coVars /\ entries[mutex] = <<>>
      BY <2>2, Zenon DEF MutexUnlock, HasWaiters
    <3> QED
      BY <1>1, <3>1, WaiterEnters, Zenon DEF Waits, Places
  <2> QED
    BY <2>1, <2>2, Zenon
<1>4. /\ Doing("toRead")' = Doing("toRead") /\ Doing("toWrite")' = Doing("toWrite")
      /\ Doing("toLock")' = Doing("toLock")
  BY <1>2, <1>3, Zenon DEF MovesTo
<1>5. WaitersQueue'
  BY <1>1, <1>3, <1>4, ZenonT(60) DEF MovesTo, WaitersInv, WaitersQueue, Range
<1>6. NobodyStranded'
  <2>1. entries'[mutex] # <<>> => Doing("toLock")' \ Range(entries'[mutex]) # {}
    BY <1>3, <1>4, Zenon DEF WaitersInv, WaitersQueue
  <2> QED
    BY <1>1, <1>3, <1>4, <2>1, SMTT(30) DEF MovesTo, WaitersInv, NobodyStranded, Range
<1> QED
  BY <1>5, <1>6, Zenon

LEMMA RwUnlockWaiters ==
  ASSUME WaitersInv, NEW c \in Cos, RwUnlock(c) PROVE WaitersQueue' /\ NobodyStranded'
<1>1. /\ current = c /\ UNCHANGED locked /\ mutex \in Queues /\ rwlock \in Queues
      /\ mutex # rwlock /\ Becomes(c, "idle")
  BY LocksAssumption, Zenon DEF RwUnlock, Running
<1>2. \A p : p \notin {"reads", "writes"} => c \notin Doing(p)
  BY OnlyFrom, Zenon DEF RwUnlock
<1>3. "idle" \in Places /\ "idle" \notin Waits
  BY Zenon DEF Places, Waits
<1>4. /\ MovesTo(c, "idle") /\ entries'[mutex] = entries[mutex]
      /\ Range(entries'[rwlock]) \subseteq Range(entries[rwlock])
      /\ ~writer' /\ writer => entries'[rwlock] = <<>>
      /\ ~writer' /\ reader' = 0 =>
           \/ entries'[rwlock] = <<>>
           \/ Head(entries[rwlock]) \in Range(entries[rwlock]) \ Range(entries'[rwlock])
  <2>1. CASE QueueRestartAll(c, rwlock)
    <3>1. /\ UNCHANGED <<status, caller>> /\ entries'[mutex] = entries[mutex]
          /\ \A d \in Cos : Queued(d)' <=> Queued(d)
          /\ entries'[rwlock] = <<>>
      BY <1>1, <2>1, QueueRestartAllStep, Zenon DEF WaitersInv
    <3>2. Range(entries'[rwlock]) = {}
      BY <3>1 DEF Range
    <3>3. MovesTo(c, "idle")
      BY <1>1, <1>3, <3>1, <3>2, WaitersMove, ZenonT(60)
    <3> QED
      BY <3>1, <3>2, <3>3, Zenon
  <2>2. CASE QueueNext(c, rwlock) /\ ~writer
    <3>1. /\ UNCHANGED <<status, caller>> /\ entries'[mutex] = entries[mutex]
          /\ \A d \in Cos : Queued(d)' <=> Queued(d)
          /\ Range(entries'[rwlock]) \subseteq Range(entries[rwlock])
          /\ Head(entries[rwlock]) \in Range(entries[rwlock]) \ Range(entries'[rwlock])
      BY <1>1, <2>2, QueueNextStep, Zenon DEF WaitersInv
    <3>2. MovesTo(c, "idle")
      BY <1>1, <1>3, <3>1, WaitersMove, Zenon
    <3> QED
      BY <2>2, <3>1, <3>2, ZenonT(60)
  <2>3. CASE /\ UNCHANGED coVars
             /\ \/ entries[rwlock] = <<>>
                \/ ~writer /\ reader' # 0
    <3>1. MovesTo(c, "idle") /\ UNCHANGED entries
      BY <1>1, <1>3, <2>3, WaiterEnters, Zenon
    <3> QED
      BY <2>3, <3>1, Zenon
  <2>4. CASE writer
    BY <2>1, <2>3, <2>4, Zenon DEF RwUnlock, HasWaiters
  <2>5. CASE ~writer
    <3>1. reader \in Nat /\ reader' = reader - 1
      BY <2>5, Zenon DEF RwUnlock, WaitersInv, MutualExclusion, LocksTypeOK
    <3>2. reader # 1 => reader' # 0
      BY <3>1
    <3> QED
      BY <2>2, <2>3, <2>5, <3>2, ZenonT(60) DEF RwUnlock, HasWaiters
  <2> QED
    BY <2>4, <2>5, Zenon
<1>5. /\ Doing("toRead")' = Doing("toRead") /\ Doing("toWrite")' = Doing("toWrite")
      /\ Doing("toLock")' = Doing("toLock")
  BY <1>2, <1>4, Zenon DEF MovesTo
<1>6. WaitersQueue'
  <2>1. ~writer' => Range(entries'[rwlock]) \subseteq Doing("toWrite")'
    <3>1. CASE entries'[rwlock] = <<>>
      BY <3>1 DEF Range
    <3>2. CASE ~writer
      BY <1>4, <1>5, <3>2, Zenon DEF WaitersInv, WaitersQueue
    <3> QED
      BY <1>4, <3>1, <3>2, Zenon
  <2> QED
    BY <1>4, <2>1, Zenon DEF MovesTo, WaitersQueue, Range
<1>7. NobodyStranded'
  <2>1. ~writer' /\ reader' = 0 /\ entries'[rwlock] # <<>> =>
          (Doing("toRead")' \cup Doing("toWrite")') \ Range(entries'[rwlock]) # {}
    BY <1>4, <1>5, Zenon DEF WaitersInv, WaitersQueue
  <2>2. ~locked' /\ entries'[mutex] # <<>> => Doing("toLock")' \ Range(entries'[mutex]) # {}
    BY <1>1, <1>4, <1>5, Zenon DEF WaitersInv, NobodyStranded
  <2> QED
    BY <1>4, <2>1, <2>2, Zenon DEF MovesTo, NobodyStranded, Range
<1> QED
  BY <1>6, <1>7, Zenon

\* The steps in which no lock is used.
LEMMA OtherWaiters ==
  ASSUME WaitersInv, UNCHANGED lockVars,
         \/ CoreStep
         \/ \E x \in All, c \in Cos : Create(x, c) \/ Enter(x, c)
         \/ \E c \in Cos : ~Waiting(c) /\ Yield(c)
         \/ \E c \in Cos : prog[c] = "idle" /\ Terminate(c)
  PROVE  WaitersQueue' /\ NobodyStranded'
<1>1. UNCHANGED <<locked, writer, reader, prog>>
  BY Zenon DEF lockVars
<1>2. \A c \in Cos : Waiting(c) => /\ Queued(c) \/ caller[c] # Null
                                   /\ status[c] = "live" /\ prog[c] # "idle"
  BY Zenon DEF WaitersInv, NobodyStranded, WaitersQueue, Waiting, Waits
<1>3. CoInv /\ TypeOK /\ WaitersQueue /\ NobodyStranded
  BY Zenon DEF WaitersInv, CoInv
<1>4. ASSUME UNCHANGED <<wakeup, entries>> PROVE \A d \in Cos : Queued(d) <=> Queued(d)'
  BY <1>4, Zenon DEF Queued, Range
<1>5. ASSUME NEW x \in All, RunRestart(x) PROVE WaitersQueue' /\ NobodyStranded'
  <2>1. /\ UNCHANGED <<status, entries>>
        /\ \A d \in Cos : Queued(d) => Queued(d)' \/ caller'[d] # Null
        /\ \A d \in Cos : caller[d] # Null => caller'[d] # Null
    BY <1>3, <1>5, RunRestartStep, Zenon
  <2> QED
    BY <1>1, <1>2, <1>3, <2>1, WaitersKept, Zenon
<1>6. ASSUME NEW x \in All, SwapEnd(x) PROVE WaitersQueue' /\ NobodyStranded'
  <2>1. /\ UNCHANGED <<wakeup, entries>>
        /\ \A d \in Cos : status[d] # "dead" => status'[d] = status[d] /\ caller'[d] = caller[d]
    BY <1>3, <1>6, SwapEndStep, Zenon
  <2> QED
    BY <1>1, <1>2, <1>3, <1>4, <2>1, WaitersKept, ZenonT(60)
<1>7. ASSUME NEW x \in All, NEW c \in Cos, Create(x, c) PROVE WaitersQueue' /\ NobodyStranded'
  <2>1. /\ UNCHANGED <<wakeup, entries, caller>>
        /\ \A d \in Cos : status[d] = "live" => status'[d] = "live"
    BY <1>3, <1>7, CreateStep, Zenon
  <2> QED
    BY <1>1, <1>2, <1>3, <1>4, <2>1, WaitersKept, ZenonT(60)
<1>8. ASSUME NEW x \in All, NEW c \in Cos, Enter(x, c) PROVE WaitersQueue' /\ NobodyStranded'
  <2>1. EnterFrom(x, c, stack[x]) /\ UNCHANGED <<status, wakeup, entries>>
    BY <1>8, Zenon DEF Enter
  <2>2. caller'[c] = x /\ x # Null /\ \A d \in Cos \ {c} : caller'[d] = caller[d]
    BY <1>3, <2>1, OnlyEntered, LeaderAssumption, Zenon DEF All
  <2> QED
    BY <1>1, <1>2, <1>3, <1>4, <2>1, <2>2, WaitersKept, ZenonT(60)
<1>9. ASSUME NEW c \in Cos, ~Waiting(c), Yield(c) PROVE WaitersQueue' /\ NobodyStranded'
  <2>1. YieldFrom(c) /\ UNCHANGED <<status, wakeup, entries>>
    BY <1>9, Zenon DEF Yield
  <2>2. \A d \in Cos \ {c} : caller'[d] = caller[d]
    BY <1>3, <2>1, OnlyYields, Zenon
  <2> QED
    BY <1>1, <1>2, <1>3, <1>4, <1>9, <2>1, <2>2, WaitersKept, ZenonT(60)
<1>10. ASSUME NEW c \in Cos, prog[c] = "idle", Terminate(c) PROVE WaitersQueue' /\ NobodyStranded'
  <2>1. status' = [status EXCEPT ![c] = "dead"] /\ UNCHANGED <<caller, wakeup, entries>>
    BY <1>10, Zenon DEF Terminate
  <2>2. \A d \in Cos \ {c} : status'[d] = status[d]
    BY <1>3, <2>1, Zenon DEF TypeOK
  <2> QED
    BY <1>1, <1>2, <1>3, <1>4, <1>10, <2>1, <2>2, WaitersKept, ZenonT(60)
<1> QED
  BY <1>5, <1>6, <1>7, <1>8, <1>9, <1>10, ZenonT(60) DEF CoreStep

\* What the users of the locks do is what coroutines do.
LEMMA LocksAreCoroutines == [LocksNext]_vars => [Next]_coVars
<1> SUFFICES ASSUME [LocksNext]_vars PROVE [Next]_coVars
  BY Zenon
<1>1. mutex \in Queues /\ rwlock \in Queues
  BY LocksAssumption, Zenon
<1>2. CASE UNCHANGED vars
  BY <1>2, Zenon DEF vars
<1>3. CASE Switching
  BY <1>3, Zenon DEF Switching, Next
<1>4. CASE \E x \in All, c \in Cos : Begin(x, c)
  BY <1>4, Zenon DEF Begin, Next
<1>5. CASE \E c \in Cos : MutexLock(c) \/ MutexUnlock(c)
  BY <1>1, <1>5, Zenon DEF MutexLock, MutexUnlock, Next
<1>6. CASE \E c \in Cos : RdLock(c) \/ WrLock(c) \/ RwUnlock(c)
  BY <1>1, <1>6, Zenon DEF RdLock, WrLock, RwUnlock, Next
<1>7. CASE \E c \in Cos : Pause(c) \/ End(c)
  BY <1>7, Zenon DEF Pause, End, Next
<1> QED
  BY <1>2, <1>3, <1>4, <1>5, <1>6, <1>7, ZenonT(60) DEF LocksNext

LEMMA WaitersAlways == LocksSpec => []WaitersInv
<1>1. LocksInit => WaitersInv
  <2> SUFFICES ASSUME LocksInit PROVE WaitersInv
    BY Zenon
  <2>1. CoInv /\ MutualExclusion
    BY CoInit, LocksInitExclusion, Zenon DEF LocksInit
  <2>2. /\ entries[mutex] = <<>> /\ entries[rwlock] = <<>> /\ \A c \in Cos : prog[c] = "idle"
    BY LocksAssumption, Zenon DEF LocksInit, Init
  <2> QED
    BY <2>1, <2>2 DEF WaitersInv, WaitersQueue, NobodyStranded, Range, Waiting, Waits
<1>2. WaitersInv /\ [LocksNext]_vars => WaitersInv'
  <2> SUFFICES ASSUME WaitersInv, [LocksNext]_vars PROVE WaitersInv'
    BY Zenon
  <2>1. CoInv' /\ MutualExclusion'
    BY CoNext, LocksAreCoroutines, ExclusionNext, Zenon DEF WaitersInv
  <2>2. WaitersQueue' /\ NobodyStranded'
    <3>1. CASE UNCHANGED vars
      <4>1. UNCHANGED <<locked, writer, reader, prog>> /\ UNCHANGED coVars
        BY <3>1, Zenon DEF vars, lockVars
      <4>2. UNCHANGED <<status, entries, caller>> /\ \A d \in Cos : Queued(d) <=> Queued(d)'
        BY <4>1, NothingQueued, Zenon
      <4> QED
        BY <4>1, <4>2, WaitersKept, Zenon DEF WaitersInv, NobodyStranded
    <3>2. CASE Switching \/ \E x \in All, c \in Cos : Begin(x, c)
      BY <3>2, OtherWaiters, Zenon DEF Switching, Begin
    <3>3. CASE \E c \in Cos : Pause(c) \/ End(c)
      BY <3>3, OtherWaiters, Zenon DEF Pause, End
    <3> QED
      BY <3>1, <3>2, <3>3, MutexLockWaiters, MutexUnlockWaiters, RdLockWaiters, WrLockWaiters,
         RwUnlockWaiters, ZenonT(60) DEF LocksNext
  <2> QED
    BY <2>1, <2>2, Zenon DEF WaitersInv
<1> QED
  BY <1>1, <1>2, PTL DEF LocksSpec

\* Nobody is left waiting for a lock that is free: who waits for the CoMutex or the
\* CoRwlock is queued, marked or entered, and a free lock with a queue has a waiter on
\* its way, although an unlock only marks it and somebody else may take the lock first.
THEOREM WaitersServed == LocksSpec => []NobodyStranded
<1>1. WaitersInv => NobodyStranded
  BY Zenon DEF WaitersInv
<1> QED
  BY <1>1, WaitersAlways, PTL

\* While a CoRwlock has readers only writers are in its queue, so waking one waiter at
\* the last qemu_co_rwlock_unlock leaves no reader behind.
THEOREM ReadersDoNotQueue == LocksSpec => []OnlyWritersQueueForReaders
<1>1. WaitersInv => OnlyWritersQueueForReaders
  BY DEF WaitersInv, WaitersQueue, MutualExclusion, LocksTypeOK, OnlyWritersQueueForReaders
<1> QED
  BY <1>1, WaitersAlways, PTL

=============================================================================
