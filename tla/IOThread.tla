------------------------------ MODULE IOThread ------------------------------
(***************************************************************************)
(* An IOThread of iothread.c: a thread that polls an AioContext and keeps  *)
(* it acquired while it does, other threads that acquire the context in    *)
(* between, and the thread that creates and finalizes the object.          *)
(*                                                                         *)
(* The context's lock is that of RFifoLock, whose contention callback sets *)
(* the context's notifier: kick is the notifier here.  Of aio_poll this    *)
(* module keeps what decides how long it blocks and what it returns: the   *)
(* notifier and one other descriptor (AioContext.tla has the rest).        *)
(***************************************************************************)
EXTENDS RFifoLock

CONSTANT io     \* the thread of the IOThread

ASSUME IOThreadAssumption == io \in Threads

\* The threads that acquire the context.
Users == Threads \ {io}

VARIABLES
  event,        \* another descriptor of the context is readable
  iopc,         \* where the IOThread's thread is
  seen,         \* what its poll() has reported and aio_dispatch has yet to do
  stopping,     \* iothread->stopping
  named,        \* iothread->thread_id has been set
  mpc           \* where the thread that creates and finalizes the object is

lockFields == <<head, tail, nesting, owner, ticket, pc, depth>>
ioVars == <<lockVars, event, iopc, seen, stopping, named, mpc>>

IoTypeOK ==
  /\ TypeOK
  /\ event \in BOOLEAN
  /\ iopc \in {"none", "start", "top", "acquire", "check", "poll", "dispatch",
               "release", "exited"}
  /\ seen \subseteq {"notifier", "event"}
  /\ stopping \in BOOLEAN /\ named \in BOOLEAN
  /\ mpc \in {"create", "wait", "asleep", "ready", "notify", "join", "done"}

\* The context is new: registering the notifier has set it.
IoInit ==
  /\ head = 0 /\ tail = 0 /\ nesting = 0
  /\ owner \in Threads
  /\ ticket = [t \in Threads |-> 0]
  /\ pc = [t \in Threads |-> "out"]
  /\ depth = [t \in Threads |-> 0]
  /\ kick = TRUE
  /\ event = FALSE
  /\ iopc = "none"
  /\ seen = {}
  /\ stopping = FALSE /\ named = FALSE
  /\ mpc = "create"

-----------------------------------------------------------------------------
(* iothread_run.                                                           *)

\* qemu_cond_signal(&iothread->init_done_cond).
Signalled == IF mpc = "asleep" THEN "wait" ELSE mpc

\* thread_id is set and init_done_cond is signalled.
IoStart ==
  /\ iopc = "start"
  /\ named' = TRUE
  /\ mpc' = Signalled
  /\ iopc' = "top"
  /\ UNCHANGED <<lockVars, event, seen, stopping>>

\* Mutant of IoTop: aio_context_acquire is not waited for.
IoTopUnlocked ==
  /\ iopc = "top"
  /\ IF stopping
     THEN iopc' = "exited" /\ UNCHANGED lockVars
     ELSE LockOuter(io) /\ iopc' = "check"
  /\ UNCHANGED <<event, seen, stopping, named, mpc>>

\* The outer loop: leave, or call aio_context_acquire.
IoTop ==
  /\ iopc = "top"
  /\ IF stopping
     THEN iopc' = "exited" /\ UNCHANGED lockVars
     ELSE LockOuter(io) /\ iopc' = "acquire"
  /\ UNCHANGED <<event, seen, stopping, named, mpc>>

\* aio_context_acquire has returned.
IoAcquired ==
  /\ iopc = "acquire" /\ depth[io] > 0
  /\ iopc' = "check"
  /\ UNCHANGED <<lockVars, event, seen, stopping, named, mpc>>

\* The inner loop: go on polling unless the thread is to stop.
IoCheck ==
  /\ iopc = "check"
  /\ iopc' = IF stopping THEN "release" ELSE "poll"
  /\ UNCHANGED <<lockVars, event, seen, stopping, named, mpc>>

\* poll() in aio_poll(ctx, true) returns.
IoPollReturns ==
  /\ iopc = "poll"
  /\ kick \/ event
  /\ seen' = (IF kick THEN {"notifier"} ELSE {}) \cup (IF event THEN {"event"} ELSE {})
  /\ iopc' = "dispatch"
  /\ UNCHANGED <<lockVars, event, stopping, named, mpc>>

\* aio_dispatch: the handlers of what was reported run. "aio_notify() does not
\* count as progress", so aio_poll returns true if the other handler ran.
IoDispatch ==
  /\ iopc = "dispatch"
  /\ kick' = (kick /\ "notifier" \notin seen)
  /\ event' = (event /\ "event" \notin seen)
  /\ seen' = {}
  /\ iopc' = IF "event" \in seen THEN "check" ELSE "release"
  /\ UNCHANGED <<lockFields, stopping, named, mpc>>

\* aio_context_release.
IoRelease ==
  /\ iopc = "release"
  /\ Unlock(io)
  /\ iopc' = "top"
  /\ UNCHANGED <<event, seen, stopping, named, mpc>>

IoStep ==
  IoStart \/ IoTop \/ IoAcquired \/ IoCheck \/ IoPollReturns \/ IoDispatch \/ IoRelease

-----------------------------------------------------------------------------
(* The other threads.                                                      *)

\* aio_context_acquire and aio_context_release by another thread, which uses
\* the context only while the object exists.
UserLock(u) ==
  /\ mpc = "ready"
  /\ Lock(u)
  /\ UNCHANGED <<event, iopc, seen, stopping, named, mpc>>

UserUnlock(u) ==
  /\ Unlock(u)
  /\ UNCHANGED <<event, iopc, seen, stopping, named, mpc>>

\* qemu_cond_wait in rfifolock_lock returns.
LockWakes(t) ==
  /\ CondWaitReturns(t)
  /\ UNCHANGED <<event, iopc, seen, stopping, named, mpc>>

LockSpurious(t) ==
  /\ SpuriousWakeup(t)
  /\ UNCHANGED <<event, iopc, seen, stopping, named, mpc>>

\* Something happens on the context's other descriptor.
EventHappens ==
  /\ ~event
  /\ event' = TRUE
  /\ UNCHANGED <<lockVars, iopc, seen, stopping, named, mpc>>

\* iothread_complete: the thread is created.
Complete ==
  /\ mpc = "create"
  /\ iopc' = "start"
  /\ mpc' = "wait"
  /\ UNCHANGED <<lockVars, event, seen, stopping, named>>

\* The loop around qemu_cond_wait in iothread_complete.
CompleteWaits ==
  /\ mpc = "wait"
  /\ mpc' = IF named THEN "ready" ELSE "asleep"
  /\ UNCHANGED <<lockVars, event, iopc, seen, stopping, named>>

\* iothread_instance_finalize sets stopping when nobody uses the context any more.
Finalize ==
  /\ mpc = "ready"
  /\ \A u \in Users : u \notin Outstanding
  /\ stopping' = TRUE
  /\ mpc' = "notify"
  /\ UNCHANGED <<lockVars, event, iopc, seen, named>>

\* Mutant of AioNotify: the notifier is not set.
AioNotifyNobody == UNCHANGED kick

\* aio_notify.
AioNotify == kick' = TRUE

\* ... then aio_notify ...
FinalizeNotifies ==
  /\ mpc = "notify"
  /\ AioNotify
  /\ mpc' = "join"
  /\ UNCHANGED <<lockFields, event, iopc, seen, stopping, named>>

\* ... then qemu_thread_join, and the context is given up.
FinalizeJoins ==
  /\ mpc = "join" /\ iopc = "exited"
  /\ mpc' = "done"
  /\ UNCHANGED <<lockVars, event, iopc, seen, stopping, named>>

MainStep ==
  Complete \/ CompleteWaits \/ Finalize \/ FinalizeNotifies \/ FinalizeJoins

Done == mpc = "done" /\ UNCHANGED ioVars

IoNext ==
  \/ IoStep \/ MainStep \/ EventHappens \/ Done
  \/ \E u \in Users : UserLock(u) \/ UserUnlock(u)
  \/ \E t \in Threads : LockWakes(t) \/ LockSpurious(t)

IoSpec == IoInit /\ [][IoNext]_ioVars

\* Every thread that can run does, and a thread that has acquired the context
\* gives it back.
IoFairSpec ==
  /\ IoSpec
  /\ WF_ioVars(IoStart) /\ WF_ioVars(IoTop) /\ WF_ioVars(IoAcquired) /\ WF_ioVars(IoCheck)
  /\ WF_ioVars(IoPollReturns) /\ WF_ioVars(IoDispatch) /\ WF_ioVars(IoRelease)
  /\ WF_ioVars(Complete) /\ WF_ioVars(CompleteWaits)
  /\ WF_ioVars(FinalizeNotifies) /\ WF_ioVars(FinalizeJoins)
  /\ \A u \in Users : SF_ioVars(depth[u] > 0 /\ UserUnlock(u))
  /\ \A t \in Threads : WF_ioVars(LockWakes(t))

-----------------------------------------------------------------------------
\* Only the thread that has acquired the context runs aio_poll, and iothread_run
\* leaves the context released.
PollOwnsContext ==
  /\ IoTypeOK
  /\ iopc \in {"check", "poll", "dispatch", "release"} <=>
       depth[io] > 0 /\ iopc # "acquire"
  /\ \A u \in Users : depth[u] > 0 => depth[io] = 0

\* "Block in aio_poll(), let other thread kick us and acquire context"
\* (tests/test-aio.c): the IOThread does not block in aio_poll while a thread
\* waits for the context.
WaiterKicksPoll ==
  iopc = "poll" /\ ~event =>
    \A u \in Users : pc[u] = "asleep" => kick

\* iothread_complete returns, and iothread_instance_finalize gets its thread joined.
CallsReturn ==
  /\ (mpc = "create") ~> (mpc = "ready")
  /\ stopping ~> (mpc = "done")

=============================================================================
