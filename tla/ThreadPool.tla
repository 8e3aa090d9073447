----------------------------- MODULE ThreadPool -----------------------------
(***************************************************************************)
(* The pool of worker threads of thread-pool.c, which runs blocking calls  *)
(* for one AioContext.                                                     *)
(*                                                                         *)
(* Two kinds of actors meet at pool->lock.  The context's side (submit,    *)
(* cancel, the completion callbacks, the new-thread bottom half, free) is  *)
(* serialised by the global mutex and is one sequential actor, `main'.     *)
(* Each worker is an actor of its own.  The code between taking and        *)
(* leaving pool->lock is one step; the semaphore, req->state and the scan  *)
(* of pool->head are used outside the lock and have steps of their own.    *)
(***************************************************************************)
EXTENDS Integers, FiniteSets, Sequences, Functions

CONSTANTS
  Elems,          \* the ThreadPoolElements that can be allocated
  NoElem,         \* no element: a local variable not in use
  Workers,        \* identities for worker threads
  MaxThreads,     \* pool->max_threads (64 in the code)
  MaxCallbacks,   \* bound: how deep completion callbacks nest
  MaxSem          \* bound: spurious wake-ups of thread_pool_free stop here

ASSUME NoElemAssumption == NoElem \notin Elems
ASSUME WorkersAssumption == IsFiniteSet(Workers)
ASSUME MaxThreadsAssumption ==
  MaxThreads \in Nat \ {0} /\ MaxThreads <= Cardinality(Workers)
ASSUME BoundsAssumption == MaxCallbacks \in Nat /\ MaxSem \in Nat

VARIABLES
  state,          \* elem->state, or FREE when elem is not allocated
  hasCb,          \* elem->common.cb is not NULL
  all,            \* pool->head, newest first
  requests,       \* pool->request_list, oldest first
  sem,            \* the count of pool->sem
  notifier,       \* pool->notifier is set
  bh,             \* pool->new_thread_bh is scheduled
  cur, idle, new, pending,   \* cur_threads, idle_threads, new_threads,
                             \* pending_threads
  cancellations,  \* pool->pending_cancellations
  stopping,       \* pool->stopping
  wpc, wreq,      \* where each worker is, and its local variable req
  mpc,            \* where main is
  calls,          \* the elements whose callbacks are running, innermost first
  rest,           \* what the innermost QLIST_FOREACH_SAFE has yet to visit
  target          \* the element thread_pool_cancel waits for

elemVars == <<state, hasCb, all, requests>>
countVars == <<cur, idle, new, pending>>
workerVars == <<wpc, wreq>>
mainVars == <<mpc, calls, rest, target>>
vars == <<elemVars, countVars, workerVars, mainVars,
          sem, notifier, bh, cancellations, stopping>>

WorkerStates == {"none", "created", "wait", "token", "timeout", "busy", "done"}

MainStates == {"run", "post", "scan", "poll", "cancelAsleep", "cancelWoken",
               "freeAsleep", "freeWoken", "freed"}

TypeOK ==
  /\ state \in [Elems -> {"FREE", "QUEUED", "ACTIVE", "DONE", "CANCELED"}]
  /\ hasCb \in [Elems -> BOOLEAN]
  /\ all \in Seq(Elems) /\ requests \in Seq(Elems)
  /\ sem \in Nat
  /\ notifier \in BOOLEAN /\ bh \in BOOLEAN /\ stopping \in BOOLEAN
  /\ cur \in Nat /\ idle \in Nat /\ new \in Nat /\ pending \in Nat
  /\ cancellations \in Nat
  /\ wpc \in [Workers -> WorkerStates] /\ wreq \in [Workers -> Elems \cup {NoElem}]
  /\ mpc \in MainStates
  /\ calls \in Seq(Elems) /\ rest \in Seq(Elems)
  /\ target \in Elems \cup {NoElem}

\* thread_pool_init_one.
Init ==
  /\ state = [e \in Elems |-> "FREE"]
  /\ hasCb = [e \in Elems |-> FALSE]
  /\ all = <<>> /\ requests = <<>>
  /\ sem = 0
  /\ notifier = FALSE /\ bh = FALSE /\ stopping = FALSE
  /\ cur = 0 /\ idle = 0 /\ new = 0 /\ pending = 0
  /\ cancellations = 0
  /\ wpc = [w \in Workers |-> "none"]
  /\ wreq = [w \in Workers |-> NoElem]
  /\ mpc = "run" /\ calls = <<>> /\ rest = <<>> /\ target = NoElem

\* QLIST_REMOVE and QTAILQ_REMOVE of e, which is listed at most once.
Without(s, e) ==
  IF e \in Range(s)
  THEN LET i == CHOOSE i \in DOMAIN s : s[i] = e
       IN  SubSeq(s, 1, i - 1) \o SubSeq(s, i + 1, Len(s))
  ELSE s

\* Mutant of Settled: an element that runs is taken for one that is done.
SettledIfStarted(e) == state[e] \in {"ACTIVE", "DONE", "CANCELED"}

\* What event_notifier_ready and thread_pool_cancel wait for.
Settled(e) == state[e] \in {"DONE", "CANCELED"}

\* Mutant of TakeToken: the count is left as it is.
TakeTokenPeeks == sem > 0 /\ UNCHANGED sem

\* qemu_sem_timedwait succeeds.
TakeToken == sem > 0 /\ sem' = sem - 1

\* Mutant of Notify: event_notifier_set is forgotten.
NotifyNobody == UNCHANGED notifier

\* event_notifier_set(&pool->notifier).
Notify == notifier' = TRUE

-----------------------------------------------------------------------------
(* Worker threads.                                                         *)

\* do_spawn_thread, the threads it creates: one, if there is a backlog.
DoSpawnThread ==
  IF new = 0 THEN {{}} ELSE {{v} : v \in {u \in Workers : wpc[u] = "none"}}

\* worker_thread from the end of an iteration: leave when the pool is
\* stopping, wait for the semaphore otherwise.
LoopOrExit(w, othersPc) ==
  IF stopping
  THEN /\ wpc' = [othersPc EXCEPT ![w] = "none"]
       /\ cur' = cur - 1
       /\ mpc' = IF mpc = "freeAsleep" THEN "freeWoken" ELSE mpc
       /\ UNCHANGED idle
  ELSE /\ wpc' = [othersPc EXCEPT ![w] = "wait"]
       /\ idle' = idle + 1
       /\ UNCHANGED <<cur, mpc>>

\* worker_thread up to its first wait.
WorkerStarts(w) ==
  /\ wpc[w] = "created"
  /\ \E spawned \in DoSpawnThread :
       /\ new' = new - Cardinality(spawned)
       /\ pending' = pending - 1 + Cardinality(spawned)
       /\ LoopOrExit(w, [v \in Workers |-> IF v \in spawned THEN "created" ELSE wpc[v]])
  /\ UNCHANGED <<elemVars, wreq, calls, rest, target,
                 sem, notifier, bh, cancellations, stopping>>

\* qemu_sem_timedwait returns 0.
SemAcquired(w) ==
  /\ wpc[w] = "wait"
  /\ TakeToken
  /\ wpc' = [wpc EXCEPT ![w] = "token"]
  /\ UNCHANGED <<elemVars, countVars, wreq, mainVars,
                 notifier, bh, cancellations, stopping>>

\* qemu_sem_timedwait returns -1 after ten seconds with nothing to take.
SemTimeout(w) ==
  /\ wpc[w] = "wait"
  /\ sem = 0
  /\ wpc' = [wpc EXCEPT ![w] = "timeout"]
  /\ UNCHANGED <<elemVars, countVars, wreq, mainVars,
                 sem, notifier, bh, cancellations, stopping>>

\* The worker leaves the loop: lines after it, under the same lock.
Exit(w) ==
  /\ wpc' = [wpc EXCEPT ![w] = "none"]
  /\ cur' = cur - 1
  /\ mpc' = IF mpc = "freeAsleep" THEN "freeWoken" ELSE mpc

\* Having taken the semaphore, the worker takes the lock and dequeues.
Dequeue(w) ==
  /\ wpc[w] = "token"
  /\ idle' = idle - 1
  /\ IF stopping
     THEN Exit(w) /\ UNCHANGED <<state, requests, wreq>>
     ELSE /\ wreq' = [wreq EXCEPT ![w] = Head(requests)]
          /\ requests' = Tail(requests)
          /\ state' = [state EXCEPT ![Head(requests)] = "ACTIVE"]
          /\ wpc' = [wpc EXCEPT ![w] = "busy"]
          /\ UNCHANGED <<cur, mpc>>
  /\ UNCHANGED <<hasCb, all, new, pending, calls, rest, target,
                 sem, notifier, bh, cancellations, stopping>>

\* Mutant of WaitAgain: the request list is not looked at again.
LeaveAtOnce == FALSE

\* A request came in meanwhile.
WaitAgain == requests # <<>>

\* Having timed out, the worker takes the lock: it waits again when a request
\* came in meanwhile, and leaves otherwise.
TimedOut(w) ==
  /\ wpc[w] = "timeout"
  /\ IF WaitAgain
     THEN wpc' = [wpc EXCEPT ![w] = "wait"] /\ UNCHANGED <<cur, idle, mpc>>
     ELSE idle' = idle - 1 /\ Exit(w)
  /\ UNCHANGED <<elemVars, new, pending, wreq, calls, rest, target,
                 sem, notifier, bh, cancellations, stopping>>

\* req->func returns; ret, then state, are written without the lock.
FuncReturns(w) ==
  /\ wpc[w] = "busy"
  /\ state' = [state EXCEPT ![wreq[w]] = "DONE"]
  /\ wpc' = [wpc EXCEPT ![w] = "done"]
  /\ UNCHANGED <<hasCb, all, requests, countVars, wreq, mainVars,
                 sem, notifier, bh, cancellations, stopping>>

\* The lines after func under the lock, and the next turn of the loop.
Report(w) ==
  /\ wpc[w] = "done"
  /\ Notify
  /\ wreq' = [wreq EXCEPT ![w] = NoElem]
  /\ IF cancellations > 0 /\ mpc = "cancelAsleep"
     THEN /\ mpc' = "cancelWoken"
          /\ wpc' = [wpc EXCEPT ![w] = "wait"]
          /\ idle' = idle + 1
          /\ UNCHANGED cur
     ELSE LoopOrExit(w, wpc)
  /\ UNCHANGED <<elemVars, new, pending, calls, rest, target,
                 sem, bh, cancellations, stopping>>

Worker(w) ==
  \/ WorkerStarts(w) \/ SemAcquired(w) \/ SemTimeout(w) \/ Dequeue(w)
  \/ TimedOut(w) \/ FuncReturns(w) \/ Report(w)

-----------------------------------------------------------------------------
(* The context's side.                                                     *)

\* Mutant of MayGrow: the limit is compared as if the thread were counted.
MayGrowByOneMore == cur <= MaxThreads

\* The pool has fewer threads than it may have.
MayGrow == cur < MaxThreads

\* spawn_thread, when thread_pool_submit_aio finds nobody idle.
SpawnThread ==
  IF idle = 0 /\ MayGrow
  THEN /\ cur' = cur + 1
       /\ new' = new + 1
       /\ bh' = (bh \/ pending = 0)
  ELSE UNCHANGED <<cur, new, bh>>

\* thread_pool_submit_aio (cb is TRUE) and thread_pool_submit (cb is FALSE)
\* up to the release of the lock.
Submit(e, cb) ==
  /\ mpc = "run"
  /\ state[e] = "FREE"
  /\ state' = [state EXCEPT ![e] = "QUEUED"]
  /\ hasCb' = [hasCb EXCEPT ![e] = cb]
  /\ all' = <<e>> \o all
  /\ SpawnThread
  /\ requests' = Append(requests, e)
  /\ mpc' = "post"
  /\ UNCHANGED <<idle, pending, workerVars, calls, rest, target,
                 sem, notifier, cancellations, stopping>>

\* qemu_sem_post, after the lock has been released.
SemPost ==
  /\ mpc = "post"
  /\ sem' = sem + 1
  /\ mpc' = "run"
  /\ UNCHANGED <<elemVars, countVars, workerVars, calls, rest, target,
                 notifier, bh, cancellations, stopping>>

\* thread_pool_cancel of a request no worker has yet, and whose semaphore
\* count can be had.
StealForCancel(e) ==
  /\ mpc = "run"
  /\ e \in Range(all) /\ hasCb[e]
  /\ state[e] = "QUEUED" /\ TakeToken
  /\ requests' = Without(requests, e)
  /\ state' = [state EXCEPT ![e] = "CANCELED"]
  /\ Notify
  /\ UNCHANGED <<hasCb, all, countVars, workerVars, mainVars, bh,
                 cancellations, stopping>>

\* thread_pool_cancel of a request some worker has or is about to have: sleep
\* on check_cancel. (A request that is DONE already leaves nothing to do.)
WaitForCancel(e) ==
  /\ mpc = "run"
  /\ e \in Range(all) /\ hasCb[e]
  /\ ~(state[e] = "QUEUED" /\ sem > 0)
  /\ ~Settled(e)
  /\ cancellations' = cancellations + 1
  /\ mpc' = "cancelAsleep"
  /\ target' = e
  /\ UNCHANGED <<elemVars, countVars, workerVars, calls, rest,
                 sem, notifier, bh, stopping>>

\* qemu_cond_wait(check_cancel) returns.
CancelWakes ==
  /\ mpc = "cancelWoken"
  /\ IF Settled(target)
     THEN mpc' = "run" /\ target' = NoElem /\ cancellations' = cancellations - 1
     ELSE mpc' = "cancelAsleep" /\ UNCHANGED <<target, cancellations>>
  /\ UNCHANGED <<elemVars, countVars, workerVars, calls, rest,
                 sem, notifier, bh, stopping>>

\* spawn_thread_bh_fn, run by aio_poll.
SpawnThreadBh ==
  /\ mpc \in {"run", "poll"}
  /\ bh
  /\ bh' = FALSE
  /\ mpc' = "run"
  /\ \E spawned \in DoSpawnThread :
       /\ new' = new - Cardinality(spawned)
       /\ pending' = pending + Cardinality(spawned)
       /\ wpc' = [v \in Workers |-> IF v \in spawned THEN "created" ELSE wpc[v]]
  /\ UNCHANGED <<elemVars, cur, idle, wreq, calls, rest, target,
                 sem, notifier, cancellations, stopping>>

\* A completion callback calls aio_poll(ctx, true) to wait for a request that
\* is still listed, and aio_poll finds neither bottom half nor descriptor ready.
PollBlocks ==
  /\ mpc = "run" /\ calls # <<>> /\ Len(calls) < MaxCallbacks
  /\ all # <<>>
  /\ ~notifier /\ ~bh
  /\ mpc' = "poll"
  /\ UNCHANGED <<elemVars, countVars, workerVars, calls, rest, target,
                 sem, notifier, bh, cancellations, stopping>>

\* event_notifier_ready up to its loop, called by aio_poll in the main loop or
\* in a callback.
EventNotifierReady ==
  /\ mpc \in {"run", "poll"}
  /\ Len(calls) < MaxCallbacks
  /\ notifier
  /\ notifier' = FALSE
  /\ rest' = all
  /\ mpc' = "scan"
  /\ UNCHANGED <<elemVars, countVars, workerVars, calls, target,
                 sem, bh, cancellations, stopping>>

\* One turn of the loop of event_notifier_ready: an unsettled element is
\* passed over, a cancelled one or one without callback is released, one that
\* is done has its callback called.
Scan ==
  /\ mpc = "scan"
  /\ IF rest = <<>>
     THEN mpc' = "run" /\ UNCHANGED <<state, all, rest, calls>>
     ELSE LET e == Head(rest) IN
          /\ rest' = Tail(rest)
          /\ all' = IF Settled(e) THEN Without(all, e) ELSE all
          /\ IF state[e] = "DONE" /\ hasCb[e]
             THEN calls' = <<e>> \o calls /\ mpc' = "run" /\ UNCHANGED state
             ELSE /\ state' = IF Settled(e) THEN [state EXCEPT ![e] = "FREE"] ELSE state
                  /\ UNCHANGED <<calls, mpc>>
  /\ UNCHANGED <<hasCb, requests, countVars, workerVars, target,
                 sem, notifier, bh, cancellations, stopping>>

\* A completion callback returns: the element is released and the loop starts
\* again.
CallbackReturns ==
  /\ mpc = "run" /\ calls # <<>>
  /\ state' = [state EXCEPT ![Head(calls)] = "FREE"]
  /\ calls' = Tail(calls)
  /\ rest' = all
  /\ mpc' = "scan"
  /\ UNCHANGED <<hasCb, all, requests, countVars, workerVars, target,
                 sem, notifier, bh, cancellations, stopping>>

\* Mutant of FreeLoop: the workers are not woken.
FreeLoopNoPost(workersLeft) ==
  /\ mpc' = IF workersLeft > 0 THEN "freeAsleep" ELSE "freed"
  /\ UNCHANGED sem

\* The loop of thread_pool_free: post and wait as long as there are workers.
FreeLoop(workersLeft) ==
  IF workersLeft > 0
  THEN sem' = sem + 1 /\ mpc' = "freeAsleep"
  ELSE mpc' = "freed" /\ UNCHANGED sem

\* thread_pool_free, called by aio_ctx_finalize when no request is left.
Free ==
  /\ mpc = "run" /\ calls = <<>> /\ all = <<>>
  /\ bh' = FALSE
  /\ cur' = cur - new
  /\ new' = 0
  /\ stopping' = TRUE
  /\ FreeLoop(cur - new)
  /\ UNCHANGED <<elemVars, idle, pending, workerVars, calls, rest, target,
                 notifier, cancellations>>

\* qemu_cond_wait(worker_stopped) returns.
FreeWakes ==
  /\ mpc = "freeWoken"
  /\ FreeLoop(cur)
  /\ UNCHANGED <<elemVars, countVars, workerVars, calls, rest, target,
                 notifier, bh, cancellations, stopping>>

\* pthread_cond_wait may return without having been signalled.
SpuriousWakeup ==
  /\ \/ mpc = "cancelAsleep" /\ mpc' = "cancelWoken"
     \/ mpc = "freeAsleep" /\ sem < MaxSem /\ mpc' = "freeWoken"
  /\ UNCHANGED <<elemVars, countVars, workerVars, calls, rest, target,
                 sem, notifier, bh, cancellations, stopping>>

\* The pool is gone.
Freed == mpc = "freed" /\ UNCHANGED vars

Next ==
  \/ \E w \in Workers : Worker(w)
  \/ \E e \in Elems, cb \in BOOLEAN : Submit(e, cb)
  \/ \E e \in Elems : StealForCancel(e) \/ WaitForCancel(e)
  \/ SemPost \/ CancelWakes \/ SpawnThreadBh \/ PollBlocks
  \/ EventNotifierReady \/ Scan \/ CallbackReturns
  \/ Free \/ FreeWakes \/ SpuriousWakeup \/ Freed

Spec == Init /\ [][Next]_vars

\* Every thread gets to run, func returns, a callback returns, and the main
\* loop comes back to aio_poll between the calls made by others.
FairSpec ==
  /\ Spec
  /\ \A w \in Workers :
       /\ WF_vars(WorkerStarts(w)) /\ WF_vars(SemAcquired(w)) /\ WF_vars(Dequeue(w))
       /\ WF_vars(TimedOut(w)) /\ WF_vars(FuncReturns(w)) /\ WF_vars(Report(w))
  /\ WF_vars(SemPost) /\ WF_vars(CancelWakes) /\ WF_vars(Scan) /\ WF_vars(FreeWakes)
  /\ SF_vars(EventNotifierReady) /\ SF_vars(SpawnThreadBh) /\ SF_vars(CallbackReturns)

-----------------------------------------------------------------------------
At(place) == {w \in Workers : wpc[w] = place}

\* Every request in the list has exactly one count of the semaphore, held by the
\* semaphore, by a worker on its way to the list or by the submitter about to
\* post it. So the worker that takes the first request finds one, and
\* thread_pool_cancel may take a request out as long as it takes a count too.
TokensMatchRequests ==
  ~stopping =>
    sem + Cardinality(At("token")) + (IF mpc = "post" THEN 1 ELSE 0) = Len(requests)

\* The variables have their types, and the counters of the pool count what they say: threads alive or to be
\* created, threads in the semaphore, threads that have not run yet. There are
\* never more than max_threads, and a freed pool has none left that could
\* touch it.
ThreadsAccountedFor ==
  /\ TypeOK
  /\ cur = new + Cardinality(Workers \ At("none"))
  /\ idle = Cardinality(At("wait") \cup At("token") \cup At("timeout"))
  /\ pending = Cardinality(At("created"))
  /\ cur <= MaxThreads
  /\ mpc = "freed" => cur = 0

\* A queued request has a thread to run it: no worker leaves on its timeout
\* while the submitter counts on it being idle. And "if there are threads being
\* created, they will spawn new workers": somebody is always on the way to work off
\* the backlog of threads to create.
QueueHasThread ==
  /\ requests # <<>> => cur > 0
  /\ new > 0 => bh \/ pending > 0

\* The elements that are queued, run and listed are those their states say,
\* and a worker runs an element nobody else has and nobody has released.
ElementsOwned ==
  /\ \A e \in Elems :
       /\ e \in Range(requests) <=> state[e] = "QUEUED"
       /\ e \in Range(all) \cup Range(calls) <=> state[e] # "FREE"
       /\ ~(e \in Range(all) /\ e \in Range(calls))
       /\ state[e] = "ACTIVE" <=> \E w \in At("busy") : wreq[w] = e
  /\ \A v, w \in At("busy") : wreq[v] = wreq[w] => v = w
  /\ IsInjective(all) /\ IsInjective(requests)
  /\ mpc = "scan" => Range(rest) \subseteq Range(all)

\* A settled request is never forgotten: the notifier is set, or the worker that
\* ran it is about to set it, or the loop of event_notifier_ready is yet to visit
\* it, or a callback is running after which the loop starts again.
CompletionNoticed ==
  \A e \in Range(all) :
    Settled(e) => \/ notifier
                  \/ \E w \in At("done") : wreq[w] = e
                  \/ mpc = "scan" /\ e \in Range(rest)
                  \/ calls # <<>>

\* "If @blocking is true, this function will wait until one or more AIO events
\* have completed" (aio.h, of aio_poll): a callback does not go on waiting in
\* aio_poll when a request of the pool is done and its worker has reported it.
BlockedPollHasNothingDone ==
  mpc = "poll" =>
    \A e \in Range(all) :
      state[e] = "DONE" => notifier \/ \E w \in At("done") : wreq[w] = e

\* A thread_pool_cancel that sleeps is woken and returns, and thread_pool_free gets rid
\* of every worker and returns.
CallsReturn ==
  /\ (mpc = "cancelAsleep") ~> (mpc = "run")
  /\ stopping ~> (mpc = "freed")

\* Every request is run to its end or cancelled.
RequestsSettle ==
  \A e \in Elems : (state[e] = "QUEUED") ~> Settled(e)

\* As long as event_notifier_ready keeps returning to the main loop (callbacks
\* that always submit again can keep its newest-first loop from ever reaching an
\* old element), every request that is done has its callback run and is released.
CompletionsDelivered ==
  []<>(mpc = "run" /\ calls = <<>>)
    => \A e \in Elems : (state[e] = "DONE") ~> (state[e] = "FREE")

=============================================================================
