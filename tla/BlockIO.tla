------------------------------ MODULE BlockIO -------------------------------
(***************************************************************************)
(* The request path of one BlockDriverState in block.c: throttling,        *)
(* tracked requests and their serialisation, the read-modify-write cycle   *)
(* of unaligned writes, copy on read, and bdrv_drain_all.                  *)
(*                                                                         *)
(* A request is a coroutine.  The coroutines of a device and               *)
(* bdrv_drain_all run in one thread, so one step is what a coroutine does  *)
(* up to its next yield; those that a step has woken (ready) run before    *)
(* the thread takes any other event.  The driver's I/O takes effect        *)
(* between its start and the event that resumes the coroutine.             *)
(***************************************************************************)
EXTENDS Integers, FiniteSets, Sequences, Functions

CONSTANTS
  MaxReqs,       \* bound: requests, numbered in the order in which they are made
  Ops,           \* what they may be: [kind, off, len]; the kinds are "write",
                 \* "read", "cor" (BDRV_REQ_COPY_ON_READ) and "flush"
  Align,         \* bs->request_alignment
  ClusterSize,   \* bdrv_get_cluster_size(bs)
  DiskSize,
  WriteThrough,  \* !bs->enable_write_cache
  MaxDrains,     \* bound: calls of bdrv_drain_all
  MaxConfigs     \* bound: calls of bdrv_set_io_limits

Reqs == 1..MaxReqs
Bytes == 0 .. DiskSize - 1

ASSUME BlockIOAssumption ==
  /\ \A op \in Ops : /\ op.kind \in {"write", "read", "cor", "flush"}
                     /\ op.off \in Bytes /\ op.len \in Nat \ {0}
                     /\ op.off + op.len <= DiskSize
  /\ Align \in Nat \ {0} /\ ClusterSize % Align = 0 /\ DiskSize % ClusterSize = 0
  /\ MaxReqs \in Nat

\* No request, and what it does.
None == 0
NoOp == [kind |-> "none", off |-> 0, len |-> 1]

VARIABLES
  op,           \* what each request is
  at,           \* where its coroutine is
  todo,         \* the driver's operations it has still to do, the current one first
  tracked,      \* bs->tracked_requests
  waitingFor,   \* req->waiting_for
  waitQueue,    \* req->wait_queue
  queue,        \* bs->throttled_reqs, by is_write
  timer,        \* throttle_state.timers[is_write] is pending
  ready,        \* coroutines to be resumed before anything else
  buf, disk,    \* what a request has read; the image: who wrote each byte
  drain,        \* where bdrv_drain_all is
  drains, configs

trackVars == <<tracked, waitingFor, waitQueue>>
throttleVars == <<queue, timer, configs>>
dataVars == <<buf, disk>>
drainVars == <<drain, drains>>
vars == <<op, at, todo, trackVars, throttleVars, ready, dataVars, drainVars>>

Init ==
  /\ op = [r \in Reqs |-> NoOp]
  /\ at = [r \in Reqs |-> "new"]
  /\ todo = [r \in Reqs |-> <<>>]
  /\ tracked = <<>>
  /\ waitingFor = [r \in Reqs |-> None]
  /\ waitQueue = [r \in Reqs |-> <<>>]
  /\ queue = [w \in BOOLEAN |-> <<>>]
  /\ timer = [w \in BOOLEAN |-> FALSE]
  /\ ready = <<>>
  /\ buf = [r \in Reqs |-> [b \in Bytes |-> None]]
  /\ disk = [b \in Bytes |-> None]
  /\ drain = "none"
  /\ drains = 0 /\ configs = 0

-----------------------------------------------------------------------------
(* Where a request reads and writes.                                       *)

Down(x, a) == x - (x % a)
Up(x, a) == Down(x + a - 1, a)

\* The bytes from..to-1, extended to multiples of a.
Aligned(from, to, a) == Down(from, a) .. Up(to, a) - 1

Guest(o) == o.off .. o.off + o.len - 1

HeadUnaligned(o) == o.off % Align # 0
TailUnaligned(o) == (o.off + o.len) % Align # 0

\* mark_request_serialising is called for the cycle of an unaligned write and for
\* copy on read.
Serialising(o) ==
  \/ o.kind = "cor"
  \/ o.kind = "write" /\ (HeadUnaligned(o) \/ TailUnaligned(o))

\* Mutant of Overlap: a serialising request is not extended.
OverlapExact(o) == IF o.kind = "write" THEN Guest(o) ELSE Aligned(o.off, o.off + o.len, Align)

\* overlap_offset and overlap_bytes.
Overlap(o) ==
  CASE o.kind = "cor" -> Aligned(o.off, o.off + o.len, ClusterSize)
    [] o.kind = "write" /\ ~Serialising(o) -> Guest(o)
    [] OTHER -> Aligned(o.off, o.off + o.len, Align)

\* The bytes of one operation of the driver.
IoBytes(o, io) ==
  CASE io = "head" -> Aligned(o.off, o.off + 1, Align)
    [] io = "tail" -> Aligned(o.off + o.len, o.off + o.len + 1, Align)
    [] io \in {"copyRead", "copyWrite"} -> Aligned(o.off, o.off + o.len, ClusterSize)
    [] OTHER -> Aligned(o.off, o.off + o.len, Align)

\* The operations that bdrv_co_do_pwritev or bdrv_co_do_preadv may need. A copying
\* read does without the copy if bdrv_is_allocated says so.
IoSequences(o) ==
  CASE o.kind = "write" -> { (IF HeadUnaligned(o) THEN <<"head">> ELSE <<>>)
                               \o (IF TailUnaligned(o) THEN <<"tail">> ELSE <<>>)
                               \o <<"write">>
                               \o (IF WriteThrough THEN <<"flush">> ELSE <<>>) }
    [] o.kind = "read"  -> {<<"read">>}
    [] o.kind = "cor"   -> {<<"copyRead", "copyWrite">>, <<"read">>}
    [] o.kind = "flush" -> {<<"flush">>}

IsWrite(o) == o.kind = "write"

-----------------------------------------------------------------------------
(* Throttling. How full the buckets are is left open: throttle_compute_timer *)
(* may say at any time that a request must wait.                           *)

\* Whom qemu_co_queue_next and qemu_co_enter_next take from a queue, and whom they leave.
First(q) == SubSeq(q, 1, IF q = <<>> THEN 0 ELSE 1)
Rest(q) == SubSeq(q, 2, Len(q))

\* The thread is in its event loop: in the main loop's or in bdrv_drain_all's
\* aio_poll.
InEventLoop == ready = <<>> /\ drain \in {"none", "poll", "last"}

\* Events are progress to aio_poll.
Progress == drain' = (IF drain = "none" THEN "none" ELSE "start") /\ UNCHANGED drains

\* A request is made. bdrv_io_limits_intercept queues it, or lets it go on.
Submit(r, o) ==
  /\ InEventLoop /\ {q \in Reqs : at[q] # "new"} = 1..(r - 1)
  /\ op' = [op EXCEPT ![r] = o]
  /\ \E ios \in IoSequences(o) : todo' = [todo EXCEPT ![r] = ios]
  /\ \E must \in BOOLEAN :
       IF o.kind # "flush" /\ (must \/ queue[IsWrite(o)] # <<>>)
       THEN /\ queue' = [queue EXCEPT ![IsWrite(o)] = Append(@, r)]
            /\ timer' = [timer EXCEPT ![IsWrite(o)] = @ \/ must]
            /\ at' = [at EXCEPT ![r] = "throttled"]
            /\ UNCHANGED ready
       ELSE /\ at' = [at EXCEPT ![r] = IF o.kind = "flush" THEN "next" ELSE "throttled"]
            /\ ready' = <<r>>
            /\ UNCHANGED <<queue, timer>>
  /\ Progress
  /\ UNCHANGED <<trackVars, configs, dataVars>>

\* Mutant of ScheduleTimer: the timer is not armed for the next request.
ScheduleTimerNot(w, must) == timer

\* throttle_schedule_timer.
ScheduleTimer(w, must) == [timer EXCEPT ![w] = @ \/ must]

\* The rest of bdrv_io_limits_intercept: the next request is woken or gets a timer.
Admit(r) ==
  LET w == IsWrite(op[r])
  IN  /\ ready # <<>> /\ Head(ready) = r /\ at[r] = "throttled"
      /\ \E must \in BOOLEAN :
           /\ timer' = ScheduleTimer(w, must)
           /\ IF must
              THEN UNCHANGED <<queue, ready>>
              ELSE /\ queue' = [queue EXCEPT ![w] = Rest(@)]
                   /\ ready' = <<r>> \o First(queue[w]) \o Tail(ready)
      /\ at' = [at EXCEPT ![r] = "begin"]
      /\ UNCHANGED <<op, todo, trackVars, configs, dataVars, drainVars>>

\* bdrv_throttle_read_timer_cb and bdrv_throttle_write_timer_cb. The timer is one of
\* the main loop's, which bdrv_drain_all does not run.
TimerFires(w) ==
  /\ ready = <<>> /\ drain = "none" /\ timer[w]
  /\ timer' = [timer EXCEPT ![w] = FALSE]
  /\ ready' = First(queue[w])
  /\ queue' = [queue EXCEPT ![w] = Rest(@)]
  /\ UNCHANGED <<op, at, todo, trackVars, configs, dataVars, drainVars>>

\* bdrv_set_io_limits: throttle_config cancels the timers.
SetIoLimits ==
  /\ ready = <<>> /\ drain = "none" /\ configs < MaxConfigs
  /\ configs' = configs + 1
  /\ timer' = [w \in BOOLEAN |-> FALSE]
  /\ ready' = First(queue[FALSE]) \o First(queue[TRUE])
  /\ queue' = [w \in BOOLEAN |-> Rest(queue[w])]
  /\ UNCHANGED <<op, at, todo, trackVars, dataVars, drainVars>>

-----------------------------------------------------------------------------
(* Tracked requests.                                                       *)

\* The two requests may not be in flight together.
Conflict(q, r) ==
  /\ q # r
  /\ Serialising(op[q]) \/ Serialising(op[r])
  /\ Overlap(op[q]) \cap Overlap(op[r]) # {}

\* wait_serialising_requests: whom r waits for.
WaitsFor(q, r) == Conflict(q, r) /\ waitingFor[q] = None

\* The operations that come after a call of wait_serialising_requests.
WaitsBefore(io) == io \in {"head", "tail", "write", "read", "copyRead"}

\* Mutant of Blocked: the list is not looked at again after a wait.
BlockedAtFirst(r, blocking) == at[r] # "woken" /\ blocking # {}

\* The loop in wait_serialising_requests goes on while somebody is to be waited for.
Blocked(r, blocking) == blocking # {}

\* The coroutine goes on: tracked_request_begin if it is new, wait_serialising_requests,
\* then the driver's next operation.
Go(r) ==
  LET all == IF at[r] = "begin" THEN <<r>> \o tracked ELSE tracked
      blocking == {i \in DOMAIN all : WaitsFor(all[i], r)}
  IN  /\ ready # <<>> /\ Head(ready) = r /\ at[r] \in {"begin", "woken", "next"}
      /\ ready' = Tail(ready)
      /\ tracked' = all
      /\ IF op[r].kind # "flush" /\ WaitsBefore(Head(todo[r])) /\ Blocked(r, blocking)
         THEN \E i \in blocking :
                /\ \A j \in blocking : i <= j
                /\ at' = [at EXCEPT ![r] = "waiting"]
                /\ waitingFor' = [waitingFor EXCEPT ![r] = all[i]]
                /\ waitQueue' = [waitQueue EXCEPT ![all[i]] = Append(@, r)]
         ELSE /\ at' = [at EXCEPT ![r] = "io"]
              /\ waitingFor' = [waitingFor EXCEPT ![r] = None]
              /\ UNCHANGED waitQueue
      /\ UNCHANGED <<op, todo, throttleVars, dataVars, drainVars>>

\* What the driver's operation does to the image: a write stores the request's own
\* bytes and, around them, what was read before.
Written(r) ==
  LET o == op[r]
      own == IF o.kind = "write" THEN Guest(o) ELSE {}
  IN  [b \in Bytes |-> IF b \notin IoBytes(o, Head(todo[r])) THEN disk[b]
                       ELSE IF b \in own THEN r ELSE buf[r][b]]

\* The driver's operation takes effect.
Effect(r) ==
  /\ ready = <<>> /\ at[r] = "io"
  /\ at' = [at EXCEPT ![r] = "landed"]
  /\ IF Head(todo[r]) \in {"write", "copyWrite"}
     THEN disk' = Written(r) /\ UNCHANGED buf
     ELSE /\ buf' = [buf EXCEPT ![r] =
                       [b \in Bytes |-> IF b \in IoBytes(op[r], Head(todo[r]))
                                           /\ Head(todo[r]) \in {"head", "tail", "copyRead"}
                                        THEN disk[b] ELSE @[b]]]
          /\ UNCHANGED disk
  /\ UNCHANGED <<op, todo, trackVars, throttleVars, ready, drainVars>>

\* The coroutine is resumed after the driver's operation and has another one to do ...
Resume(r) ==
  /\ InEventLoop /\ at[r] = "landed" /\ Len(todo[r]) > 1
  /\ todo' = [todo EXCEPT ![r] = Tail(@)]
  /\ at' = [at EXCEPT ![r] = "next"]
  /\ ready' = <<r>>
  /\ Progress
  /\ UNCHANGED <<op, trackVars, throttleVars, dataVars>>

\* Mutant of Restarted: only the first waiter is restarted.
RestartedOne(r) == First(waitQueue[r])

\* qemu_co_queue_restart_all(&req->wait_queue).
Restarted(r) == waitQueue[r]

\* QLIST_REMOVE of the i-th element.
Without(s, i) == SubSeq(s, 1, i - 1) \o SubSeq(s, i + 1, Len(s))

\* The request leaves bs->tracked_requests, where flushes never are.
Untrack(r) ==
  \/ r \notin Range(tracked) /\ UNCHANGED tracked
  \/ \E i \in DOMAIN tracked : tracked[i] = r /\ tracked' = Without(tracked, i)

\* ... or it is through, or the operation failed: tracked_request_end.
End(r) ==
  /\ InEventLoop
  /\ at[r] = "io" \/ at[r] = "landed"
  /\ at[r] = "landed" => Len(todo[r]) = 1
  /\ at' = [q \in Reqs |-> IF q = r THEN "done"
                           ELSE IF q \in Range(Restarted(r)) THEN "woken" ELSE at[q]]
  /\ Untrack(r)
  /\ ready' = Restarted(r)
  /\ waitQueue' = [waitQueue EXCEPT ![r] = <<>>]
  /\ op' = [op EXCEPT ![r] = NoOp] /\ todo' = [todo EXCEPT ![r] = <<>>]
  /\ buf' = [buf EXCEPT ![r] = [b \in Bytes |-> None]]
  /\ Progress
  /\ UNCHANGED <<waitingFor, throttleVars, disk>>

-----------------------------------------------------------------------------
(* bdrv_drain_all.                                                         *)

DrainBegin ==
  /\ ready = <<>> /\ drain = "none" /\ drains < MaxDrains
  /\ drain' = "start" /\ drains' = drains + 1
  /\ UNCHANGED <<op, at, todo, trackVars, throttleVars, ready, dataVars>>

\* bdrv_start_throttled_reqs enters a throttled request.
DrainStarts(w) ==
  /\ ready = <<>> /\ drain = "start" /\ queue[w] # <<>>
  /\ ready' = <<Head(queue[w])>>
  /\ queue' = [queue EXCEPT ![w] = Tail(@)]
  /\ UNCHANGED <<op, at, todo, trackVars, timer, configs, dataVars, drainVars>>

\* Mutant of NothingThrottled: throttled requests are left to their timers.
NothingThrottledSkipped == TRUE

\* bdrv_start_throttled_reqs returns when both queues are empty.
NothingThrottled == \A w \in BOOLEAN : queue[w] = <<>>

\* bdrv_requests_pending_all decides how aio_poll is called.
DrainPolls ==
  /\ ready = <<>> /\ drain = "start" /\ NothingThrottled
  /\ drain' = IF tracked = <<>> /\ \A w \in BOOLEAN : queue[w] = <<>> THEN "last" ELSE "poll"
  /\ UNCHANGED <<op, at, todo, trackVars, throttleVars, ready, dataVars, drains>>

\* aio_poll had nothing to do.
DrainEnds ==
  /\ ready = <<>> /\ drain = "last"
  /\ drain' = "none"
  /\ UNCHANGED <<op, at, todo, trackVars, throttleVars, ready, dataVars, drains>>

-----------------------------------------------------------------------------
Runs(r) == Admit(r) \/ Go(r)

Drain == DrainPolls \/ DrainEnds \/ \E w \in BOOLEAN : DrainStarts(w)

\* What the thread does of itself.  Operations may also fail, but need not.
ThreadStep ==
  \/ \E r \in Reqs : Runs(r) \/ Resume(r) \/ (at[r] = "landed" /\ End(r))
  \/ \E w \in BOOLEAN : TimerFires(w)
  \/ Drain

Next ==
  \/ \E r \in Reqs, o \in Ops : Submit(r, o)
  \/ \E r \in Reqs : Runs(r) \/ Effect(r) \/ Resume(r) \/ End(r)
  \/ \E w \in BOOLEAN : TimerFires(w)
  \/ SetIoLimits \/ DrainBegin \/ Drain

Spec == Init /\ [][Next]_vars

\* The driver does what it was given, and the thread goes on while it has something
\* to do: both are bounded by the requests made, so neither overlooks one for ever.
FairSpec ==
  /\ Spec
  /\ WF_vars(\E r \in Reqs : Effect(r))
  /\ WF_vars(ThreadStep)

-----------------------------------------------------------------------------
\* "Guest writes cannot interleave between them": what an unaligned write or a copy
\* on read stores around the bytes of the request itself is what is there, so it
\* undoes no other request.
OthersBytesUnchanged ==
  [][\A r \in Reqs : at[r] = "io" /\ at'[r] = "landed" =>
       \A b \in Bytes :
         disk'[b] # disk[b] => IsWrite(op[r]) /\ b \in Guest(op[r])]_vars

\* assert(!waited || !use_local_qiov) and assert(!waited || !req->serialising): a
\* request that has begun its read-modify-write cycle does not wait any more.
NoWaitInsideCycle ==
  \A r \in Reqs : at[r] = "waiting" /\ Serialising(op[r]) =>
    todo[r] \in IoSequences(op[r])

\* A throttled request has a timer that will let it go on.
ThrottledHasTimer ==
  \A w \in BOOLEAN : ready = <<>> /\ drain = "none" /\ queue[w] # <<>> => timer[w]

\* "Instead of producing a deadlock": requests that conflict do not wait for each
\* other for ever, and none stays throttled.
RequestsComplete == []<>(\A r \in Reqs : at[r] \in {"new", "done"})

\* bdrv_drain_all returns.
DrainReturns == (drain = "start") ~> (drain = "none")

\* "Wait for pending requests to complete across all BlockDriverStates".
DrainWaits ==
  [][drain = "last" /\ drain' = "none" => \A r \in Reqs : at[r] \in {"new", "done"}]_vars

=============================================================================
