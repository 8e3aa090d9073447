----------------------------- MODULE AioContext -----------------------------
(***************************************************************************)
(* The event loop of async.c and aio-posix.c: the bottom halves, the file  *)
(* descriptor handlers and aio_poll, which callbacks may call again.       *)
(*                                                                         *)
(* One thread, the owner, has acquired the context: it calls aio_poll, or  *)
(* is GLib's main loop, and all callbacks run in it.  Other threads call   *)
(* qemu_bh_schedule and aio_bh_new.  A step is what runs between two       *)
(* points where another thread or a callback can interfere.  The owner's   *)
(* nested calls of aio_poll are the frames of a stack; timers are not part *)
(* of this module.                                                         *)
(***************************************************************************)
EXTENDS Integers, Sequences, SequencesExt

CONSTANTS
  BHs,          \* QEMUBHs that can be allocated
  Fds,          \* file descriptors other than the context's notifier
  Nodes,        \* AioHandlers that can be allocated for Fds
  NotifierNode, \* the AioHandler of ctx->notifier
  Kinds,        \* the halves of a handler: a subset of {"in", "out"}
  Others,       \* threads other than the owner
  Null,         \* the null pointer
  MaxDepth,     \* bound: how deep calls of aio_poll nest
  Loops         \* what the owner's outermost loop calls: a subset of
                \* {"aio_poll", "glib"}

ASSUME KindsAssumption == Kinds \subseteq {"in", "out"}
ASSUME NullAssumption == Null \notin BHs \cup Nodes \cup {NotifierNode}
ASSUME NotifierAssumption == NotifierNode \notin Nodes
ASSUME DepthAssumption == MaxDepth \in Nat

VARIABLES
  firstBh,      \* the list that starts at ctx->first_bh
  scheduled, idle, deleted,     \* these fields, for each QEMUBH
  walkingBh,    \* ctx->walking_bh
  handlers,     \* ctx->aio_handlers
  fd, events,   \* node->pfd.fd and node->pfd.events; io_read is set if events has
                \* "in", io_write if it has "out"
  gone,         \* the nodes with node->deleted set
  revents,      \* node->pfd.revents
  walking,      \* ctx->walking_handlers
  notifier,     \* ctx->notifier is set
  ready,        \* the descriptors that poll() would report
  stack,        \* the calls of aio_poll in progress, innermost last
  gpoll,        \* what GLib's main loop sleeps for: "no" (it does not sleep),
                \* "ever", or "while" (it has a timeout)
  opc, obh      \* where each other thread is in qemu_bh_schedule, and its bh

bhVars == <<firstBh, scheduled, idle, deleted, walkingBh>>
ioVars == <<handlers, fd, events, gone, revents, walking, ready>>
otherVars == <<opc, obh>>
vars == <<bhVars, ioVars, otherVars, notifier, stack, gpoll>>

\* A call of aio_poll: where it is, the list element it goes to next, the bottom
\* half whose callback runs, the halves of the handler it has yet to run, which of
\* its two calls of aio_dispatch it is in or before, and its local variables.
Frames ==
  [pc : {"bh", "bhcb", "disp", "iocb", "poll"},
   at : BHs \cup Nodes \cup {NotifierNode, Null},
   bh : BHs \cup {Null},
   todo : SUBSET Kinds,
   round : {1, 2},
   blocking : BOOLEAN,
   progress : BOOLEAN]

AllNodes == Nodes \cup {NotifierNode}

TypeOK ==
  /\ firstBh \in Seq(BHs)
  /\ scheduled \in [BHs -> BOOLEAN] /\ idle \in [BHs -> BOOLEAN]
  /\ deleted \in [BHs -> BOOLEAN]
  /\ walkingBh \in Nat /\ walking \in Nat
  /\ handlers \in Seq(AllNodes)
  /\ fd \in [AllNodes -> Fds \cup {Null}]
  /\ events \in [AllNodes -> SUBSET {"in", "out"}]
  /\ gone \subseteq AllNodes
  /\ revents \in [AllNodes -> SUBSET {"in", "out"}]
  /\ notifier \in BOOLEAN
  /\ ready \subseteq Fds \X Kinds
  /\ stack \in Seq(Frames)
  /\ gpoll \in {"no", "ever", "while"}
  /\ opc \in [Others -> {"out", "idle", "set", "notify"}]
  /\ obh \in [Others -> BHs \cup {Null}]

\* aio_context_new: the notifier's handler is the first one registered.
Init ==
  /\ firstBh = <<>>
  /\ scheduled = [b \in BHs |-> FALSE]
  /\ idle = [b \in BHs |-> FALSE]
  /\ deleted = [b \in BHs |-> FALSE]
  /\ walkingBh = 0
  /\ handlers = <<NotifierNode>>
  /\ fd = [n \in AllNodes |-> Null]
  /\ events = [n \in AllNodes |-> IF n = NotifierNode THEN {"in"} ELSE {}]
  /\ gone = {}
  /\ revents = [n \in AllNodes |-> {}]
  /\ walking = 0
  /\ notifier = TRUE
  /\ ready = {}
  /\ stack = <<>>
  /\ gpoll = "no"
  /\ opc = [o \in Others |-> "out"]
  /\ obh = [o \in Others |-> Null]

-----------------------------------------------------------------------------
First(list) == IF list = <<>> THEN Null ELSE Head(list)

\* QLIST_NEXT and bh->next.
After(list, x) ==
  LET i == CHOOSE i \in DOMAIN list : list[i] = x
  IN  IF i = Len(list) THEN Null ELSE list[i + 1]

Without(list, x) == SelectSeq(list, LAMBDA y : y # x)

Top == stack[Len(stack)]

\* The innermost call goes on with the given frame.
Go(frame) == stack' = [stack EXCEPT ![Len(stack)] = frame]

\* The owner runs code of its own or a callback, and may call anything.
OwnerFree ==
  /\ gpoll = "no"
  /\ stack # <<>> => Top.pc \in {"bhcb", "iocb"}

\* Mutant of AioNotify: the notifier is not set.
AioNotifyNobody == UNCHANGED notifier

\* aio_notify.
AioNotify == notifier' = TRUE

\* Mutant of Outermost: every aio_bh_poll frees, nested ones too.
OutermostAlways == TRUE

\* Mutant of Outermost: walking_bh is looked at before it is lowered.
OutermostNever == walkingBh = 0

\* The aio_bh_poll that ends is the only one in progress.
Outermost == walkingBh = 1


\* node->pfd.revents = 0, in aio_dispatch.
Taken(n) == [revents EXCEPT ![n] = {}]

\* A bottom half somebody may still use.
Usable(b) == b \in Range(firstBh) /\ ~deleted[b]

-----------------------------------------------------------------------------
(* Bottom halves: the calls of the owner.                                  *)

\* aio_bh_new, by the owner or by another thread.
BhNew(b) ==
  /\ b \notin Range(firstBh)
  /\ OwnerFree \/ Others # {}
  /\ firstBh' = <<b>> \o firstBh
  /\ scheduled' = [scheduled EXCEPT ![b] = FALSE]
  /\ idle' = [idle EXCEPT ![b] = FALSE]
  /\ deleted' = [deleted EXCEPT ![b] = FALSE]
  /\ UNCHANGED <<walkingBh, ioVars, otherVars, notifier, stack, gpoll>>

\* qemu_bh_schedule by the owner.
BhSchedule(b) ==
  /\ OwnerFree /\ Usable(b)
  /\ ~scheduled[b]
  /\ idle' = [idle EXCEPT ![b] = FALSE]
  /\ scheduled' = [scheduled EXCEPT ![b] = TRUE]
  /\ AioNotify
  /\ UNCHANGED <<firstBh, deleted, walkingBh, ioVars, otherVars, stack, gpoll>>

\* qemu_bh_schedule_idle.
BhScheduleIdle(b) ==
  /\ OwnerFree /\ Usable(b)
  /\ ~scheduled[b]
  /\ idle' = [idle EXCEPT ![b] = TRUE]
  /\ scheduled' = [scheduled EXCEPT ![b] = TRUE]
  /\ UNCHANGED <<firstBh, deleted, walkingBh, ioVars, otherVars, notifier, stack, gpoll>>

\* qemu_bh_cancel.
BhCancel(b) ==
  /\ OwnerFree /\ Usable(b)
  /\ scheduled[b]
  /\ scheduled' = [scheduled EXCEPT ![b] = FALSE]
  /\ UNCHANGED <<firstBh, idle, deleted, walkingBh, ioVars, otherVars,
                 notifier, stack, gpoll>>

\* qemu_bh_delete. Whoever deletes a bottom half knows that nobody is scheduling
\* it; the callback of a bottom half that runs once knows that it was scheduled.
BhDelete(b) ==
  /\ OwnerFree /\ Usable(b)
  /\ \A o \in Others :
       obh[o] = b => opc[o] = "notify" /\ ~scheduled[b] /\ stack # <<>> /\ Top.bh = b
  /\ scheduled' = [scheduled EXCEPT ![b] = FALSE]
  /\ deleted' = [deleted EXCEPT ![b] = TRUE]
  /\ UNCHANGED <<firstBh, idle, walkingBh, ioVars, otherVars, notifier, stack, gpoll>>

-----------------------------------------------------------------------------
(* qemu_bh_schedule by another thread, one access of bh after the other.   *)

OtherChecks(o, b) ==
  /\ opc[o] = "out" /\ Usable(b)
  /\ ~scheduled[b]
  /\ opc' = [opc EXCEPT ![o] = "idle"]
  /\ obh' = [obh EXCEPT ![o] = b]
  /\ UNCHANGED <<bhVars, ioVars, notifier, stack, gpoll>>

\* bh->idle = 0
OtherClearsIdle(o) ==
  /\ opc[o] = "idle"
  /\ idle' = [idle EXCEPT ![obh[o]] = FALSE]
  /\ opc' = [opc EXCEPT ![o] = "set"]
  /\ UNCHANGED <<firstBh, scheduled, deleted, walkingBh, ioVars, obh, notifier, stack, gpoll>>

\* bh->scheduled = 1
OtherSets(o) ==
  /\ opc[o] = "set"
  /\ scheduled' = [scheduled EXCEPT ![obh[o]] = TRUE]
  /\ opc' = [opc EXCEPT ![o] = "notify"]
  /\ UNCHANGED <<firstBh, idle, deleted, walkingBh, ioVars, obh, notifier, stack, gpoll>>

\* aio_notify(bh->ctx)
OtherNotifies(o) ==
  /\ opc[o] = "notify"
  /\ AioNotify
  /\ opc' = [opc EXCEPT ![o] = "out"]
  /\ obh' = [obh EXCEPT ![o] = Null]
  /\ UNCHANGED <<bhVars, ioVars, stack, gpoll>>

-----------------------------------------------------------------------------
(* File descriptor handlers.                                               *)

\* The node that find_aio_handler finds for f, if any.
Found(f) == {n \in Range(handlers) : fd[n] = f /\ n \notin gone}

\* aio_set_fd_handler with handlers for ks, for a descriptor that has none: a new
\* node becomes the first of the list.
SetHandler(f, ks, n) ==
  /\ OwnerFree
  /\ Found(f) = {} /\ n \notin Range(handlers)
  /\ handlers' = <<n>> \o handlers
  /\ fd' = [fd EXCEPT ![n] = f]
  /\ events' = [events EXCEPT ![n] = ks]
  /\ revents' = [revents EXCEPT ![n] = {}]
  /\ AioNotify
  /\ UNCHANGED <<bhVars, gone, walking, ready, otherVars, stack, gpoll>>

\* aio_set_fd_handler with handlers for ks, for a descriptor that has some.
UpdateHandler(f, ks) ==
  /\ OwnerFree
  /\ \E n \in Found(f) : events' = [events EXCEPT ![n] = ks]
  /\ AioNotify
  /\ UNCHANGED <<bhVars, handlers, fd, gone, revents, walking, ready, otherVars, stack, gpoll>>

\* The node is unlinked and freed.
FreeNode(n) ==
  /\ handlers' = Without(handlers, n)
  /\ fd' = [fd EXCEPT ![n] = Null]
  /\ events' = [events EXCEPT ![n] = {}]
  /\ gone' = gone \ {n}

\* aio_set_fd_handler without handlers: the node, if there is one, is freed, unless
\* some aio_dispatch is running a handler.
RemoveHandler(f) ==
  /\ OwnerFree
  /\ \/ Found(f) = {} /\ UNCHANGED <<handlers, fd, events, gone, revents>>
     \/ \E n \in Found(f) :
          /\ revents' = [revents EXCEPT ![n] = {}]
          /\ IF walking > 0
             THEN gone' = gone \cup {n} /\ UNCHANGED <<handlers, fd, events>>
             ELSE FreeNode(n)
  /\ AioNotify
  /\ UNCHANGED <<bhVars, walking, ready, otherVars, stack, gpoll>>

\* A descriptor becomes readable or writable.
FdReady(f, k) ==
  /\ <<f, k>> \notin ready
  /\ ready' = ready \cup {<<f, k>>}
  /\ UNCHANGED <<bhVars, handlers, fd, events, gone, revents, walking, otherVars,
                 notifier, stack, gpoll>>

\* What poll() reports for a node's descriptor.
Reported(n) ==
  IF n = NotifierNode
  THEN IF notifier THEN {"in"} ELSE {}
  ELSE {k \in events[n] : <<fd[n], k>> \in ready}

\* The nodes that are polled.
Polled == {n \in Range(handlers) : n \notin gone}

SomethingReady == \E n \in Polled : Reported(n) # {}

-----------------------------------------------------------------------------
(* aio_poll.                                                               *)

\* aio_poll is called: aio_bh_poll starts.
AioPoll(blocking) ==
  /\ OwnerFree /\ Len(stack) < MaxDepth
  /\ stack = <<>> => "aio_poll" \in Loops
  /\ walkingBh' = walkingBh + 1
  /\ stack' = Append(stack, [pc |-> "bh", at |-> First(firstBh), bh |-> Null, todo |-> {},
                             round |-> 1, blocking |-> blocking, progress |-> FALSE])
  /\ UNCHANGED <<firstBh, scheduled, idle, deleted, ioVars, otherVars, notifier, gpoll>>

\* One turn of the loop of aio_bh_poll; the callback, if any, runs next.
BhStep ==
  /\ stack # <<>> /\ Top.pc = "bh" /\ Top.at # Null
  /\ LET b == Top.at
         next == After(firstBh, b)
     IN  IF ~deleted[b] /\ scheduled[b]
         THEN /\ scheduled' = [scheduled EXCEPT ![b] = FALSE]
              /\ idle' = [idle EXCEPT ![b] = FALSE]
              /\ Go([Top EXCEPT !.pc = "bhcb", !.at = next, !.bh = b,
                                !.progress = @ \/ ~idle[b]])
         ELSE Go([Top EXCEPT !.at = next]) /\ UNCHANGED <<scheduled, idle>>
  /\ UNCHANGED <<firstBh, deleted, walkingBh, ioVars, otherVars, notifier, gpoll>>

\* The callback of a bottom half returns.
BhReturn ==
  /\ OwnerFree /\ stack # <<>> /\ Top.pc = "bhcb"
  /\ Go([Top EXCEPT !.pc = "bh", !.bh = Null])
  /\ UNCHANGED <<bhVars, ioVars, otherVars, notifier, gpoll>>

\* aio_bh_poll ends; the outermost one frees what was deleted. aio_dispatch
\* starts, and aio_poll will not block if a bottom half has run.
BhEnd ==
  /\ stack # <<>> /\ Top.pc = "bh" /\ Top.at = Null
  /\ walkingBh' = walkingBh - 1
  /\ firstBh' = IF Outermost THEN SelectSeq(firstBh, LAMBDA b : ~deleted[b]) ELSE firstBh
  /\ Go([Top EXCEPT !.pc = "disp", !.at = First(handlers), !.blocking = @ /\ ~Top.progress])
  /\ UNCHANGED <<scheduled, idle, deleted, ioVars, otherVars, notifier, gpoll>>

\* The end of a turn of aio_dispatch's loop: go to the next node, free this one
\* if it is deleted and no other aio_dispatch is running a handler.
Advance(n, w) ==
  /\ walking' = w - 1
  /\ IF w = 1 /\ n \in gone THEN FreeNode(n) ELSE UNCHANGED <<handlers, fd, events, gone>>

\* A turn of aio_dispatch's loop for a node with nothing to run, or for the
\* notifier, which is cleared without counting as progress.
DispatchPass ==
  /\ stack # <<>> /\ Top.pc = "disp" /\ Top.at # Null
  /\ LET n == Top.at IN
     /\ n = NotifierNode \/ n \in gone \/ revents[n] \cap events[n] = {}
     /\ revents' = Taken(n)
     /\ notifier' = (notifier /\ ~(n = NotifierNode /\ "in" \in revents[n]))
     /\ Advance(n, walking + 1)
     /\ Go([Top EXCEPT !.at = After(handlers, n)])
  /\ UNCHANGED <<bhVars, ready, otherVars, gpoll>>

\* A turn of aio_dispatch's loop up to the first handler it calls, io_read before
\* io_write. The handler deals with what made its descriptor ready.
DispatchCall ==
  /\ stack # <<>> /\ Top.pc = "disp" /\ Top.at \in Nodes
  /\ LET n == Top.at
         pending == revents[n] \cap events[n]
         half == IF "in" \in pending THEN "in" ELSE "out"
     IN
     /\ n \notin gone /\ pending # {}
     /\ walking' = walking + 1
     /\ revents' = Taken(n)
     /\ ready' = ready \ {<<fd[n], half>>}
     /\ Go([Top EXCEPT !.pc = "iocb", !.todo = pending \ {half}, !.progress = TRUE])
  /\ UNCHANGED <<bhVars, handlers, fd, events, gone, otherVars, notifier, gpoll>>

\* io_read or io_write returns: io_write is still to be called, or the turn ends.
HandlerReturn ==
  /\ OwnerFree /\ stack # <<>> /\ Top.pc = "iocb"
  /\ LET n == Top.at IN
     IF Top.todo \cap events[n] # {} /\ n \notin gone
     THEN /\ ready' = ready \ {<<fd[n], "out">>}
          /\ Go([Top EXCEPT !.todo = {}])
          /\ UNCHANGED <<handlers, fd, events, gone, walking>>
     ELSE /\ Advance(n, walking)
          /\ Go([Top EXCEPT !.pc = "disp", !.at = After(handlers, n), !.todo = {}])
          /\ UNCHANGED ready
  /\ UNCHANGED <<bhVars, revents, otherVars, notifier, gpoll>>

\* aio_dispatch ends. The first time aio_poll returns if it made progress and is
\* not to block, and polls otherwise; the second time it returns.
DispatchEnd ==
  /\ stack # <<>> /\ Top.pc = "disp" /\ Top.at = Null
  /\ IF Top.round = 2 \/ (Top.progress /\ ~Top.blocking)
     THEN stack' = Front(stack)
     ELSE Go([Top EXCEPT !.pc = "poll"])
  /\ UNCHANGED <<bhVars, ioVars, otherVars, notifier, gpoll>>

\* qemu_poll_ns returns; what is ready is noted in the nodes and dispatched.
PollReturns ==
  /\ stack # <<>> /\ Top.pc = "poll"
  /\ Top.blocking => SomethingReady
  /\ revents' = [n \in AllNodes |->
                   IF n \in Polled /\ SomethingReady THEN Reported(n) ELSE revents[n]]
  /\ Go([Top EXCEPT !.pc = "disp", !.at = First(handlers), !.round = 2])
  /\ UNCHANGED <<bhVars, handlers, fd, events, gone, walking, ready, otherVars, notifier, gpoll>>

-----------------------------------------------------------------------------
(* GLib's main loop.                                                       *)

Runnable(b) == b \in Range(firstBh) /\ ~deleted[b] /\ scheduled[b]

\* Mutant of GTimeout: idle bottom halves do not bound the sleep.
GTimeoutForgetsIdle == IF \E b \in BHs : Runnable(b) /\ ~idle[b] THEN "while" ELSE "ever"

\* The timeout that aio_ctx_prepare asks for: 0 or 10ms, or none.
GTimeout == IF \E b \in BHs : Runnable(b) THEN "while" ELSE "ever"

\* aio_ctx_prepare, then GLib sleeps for as long as it says.
GPrepare ==
  /\ "glib" \in Loops /\ OwnerFree /\ stack = <<>>
  /\ gpoll' = GTimeout
  /\ UNCHANGED <<bhVars, ioVars, otherVars, notifier, stack>>

\* GLib's poll() returns; aio_ctx_check, and aio_ctx_dispatch if it says so.
GDispatch ==
  /\ gpoll # "no"
  /\ gpoll = "ever" => SomethingReady
  /\ gpoll' = "no"
  /\ revents' = [n \in AllNodes |-> IF n \in Polled THEN Reported(n) ELSE revents[n]]
  /\ IF SomethingReady \/ \E b \in BHs : Runnable(b)
     THEN /\ walkingBh' = walkingBh + 1
          /\ stack' = <<[pc |-> "bh", at |-> First(firstBh), bh |-> Null, todo |-> {},
                         round |-> 1, blocking |-> FALSE, progress |-> FALSE]>>
     ELSE UNCHANGED <<walkingBh, stack>>
  /\ UNCHANGED <<firstBh, scheduled, idle, deleted, handlers, fd, events, gone, walking,
                 ready, otherVars, notifier>>

-----------------------------------------------------------------------------
OwnerStep ==
  \/ BhStep \/ BhReturn \/ BhEnd
  \/ DispatchPass \/ DispatchCall \/ HandlerReturn \/ DispatchEnd \/ PollReturns
  \/ GDispatch

Next ==
  \/ \E b \in BHs : \/ BhNew(b) \/ BhSchedule(b) \/ BhScheduleIdle(b)
                    \/ BhCancel(b) \/ BhDelete(b)
                    \/ \E o \in Others : OtherChecks(o, b)
  \/ \E o \in Others : OtherClearsIdle(o) \/ OtherSets(o) \/ OtherNotifies(o)
  \/ \E f \in Fds, ks \in SUBSET Kinds \ {{}} :
       UpdateHandler(f, ks) \/ \E n \in Nodes : SetHandler(f, ks, n)
  \/ \E f \in Fds : RemoveHandler(f) \/ \E k \in Kinds : FdReady(f, k)
  \/ \E blocking \in BOOLEAN : AioPoll(blocking)
  \/ GPrepare
  \/ OwnerStep

Spec == Init /\ [][Next]_vars

\* The owner runs, its callbacks return, and its outermost loop goes on polling.
FairSpec ==
  /\ Spec
  /\ WF_vars(OwnerStep)
  /\ SF_vars(BhReturn) /\ SF_vars(HandlerReturn)
  /\ SF_vars(stack = <<>> /\ AioPoll(TRUE)) /\ SF_vars(GPrepare)
  /\ \A o \in Others : WF_vars(OtherClearsIdle(o) \/ OtherSets(o) \/ OtherNotifies(o))

-----------------------------------------------------------------------------
\* No call of aio_poll, however nested, goes on at a bottom half or a handler that
\* has been freed: walking_bh and walking_handlers keep alive what the calls
\* further out will come back to.
WalksStayInLists ==
  \A i \in DOMAIN stack :
    /\ stack[i].pc \in {"bh", "bhcb"} => stack[i].at \in Range(firstBh) \cup {Null}
    /\ stack[i].pc \in {"disp", "iocb"} => stack[i].at \in Range(handlers) \cup {Null}


\* A thread that sleeps for good has nothing to do: if a bottom half is
\* scheduled, the notifier is set or a thread inside qemu_bh_schedule will set it.
SleepsWithoutWork ==
  (gpoll = "ever" \/ (stack # <<>> /\ Top.pc = "poll" /\ Top.blocking))
    => \A b \in BHs : Runnable(b) /\ ~idle[b]
          => notifier \/ \E o \in Others : opc[o] # "out"

\* "Bottom halves are lightweight callbacks whose invocation is guaranteed to be
\* wait-free, thread-safe and signal-safe": a thread that has set bh->scheduled reads
\* bh->ctx next, and the bottom half has not been freed in between.
NotifyReadsLiveBh == \A o \in Others : opc[o] = "notify" => obh[o] \in Range(firstBh)

\* "Scheduling a bottom half interrupts the main loop and causes the execution of
\* the callback": it runs, unless it is cancelled or deleted first. And "idle bottom
\* halves will be polled at least every 10ms": whatever is scheduled when GLib goes to
\* sleep runs, idle or not.
BottomHalvesRun ==
  \A b \in BHs :
    /\ (Runnable(b) /\ ~idle[b]) ~> (~Runnable(b) \/ idle[b])
    /\ (gpoll # "no" /\ Runnable(b)) ~> ~Runnable(b)

\* What qemu_bh_delete marks during a walk is freed when the walks are over.
DeletedFreed ==
  \A b \in BHs : (deleted[b] /\ walkingBh > 0) ~> b \notin Range(firstBh)

=============================================================================
