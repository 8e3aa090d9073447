------------------------------- MODULE Timers -------------------------------
(***************************************************************************)
(* The timer lists of one clock in qemu-timer.c.  Each list is run by the  *)
(* thread it is named after: it computes its deadline, sleeps in poll(),   *)
(* handles events, then calls timerlist_run_timers.  Timers are armed and  *)
(* deleted by callbacks and event handlers of any thread, and the main     *)
(* thread's handlers also disable and enable the clock, which waits on the *)
(* QemuEvent timers_done_ev of every list (qemu-thread-posix.c).           *)
(*                                                                         *)
(* clock->enabled is an ordinary variable and qemu_event_wait starts with  *)
(* a load, so on x86 the load may come before the other threads see the    *)
(* store of qemu_clock_enable, which is in a store buffer until Drain.     *)
(* Locked instructions, locks and system calls of the main thread wait for *)
(* the store.                                                              *)
(***************************************************************************)
EXTENDS Integers, Sequences

CONSTANTS
  Lists,      \* the timer lists, and the threads that run them
  main,       \* the main loop's
  Timers,
  ListOf,     \* ts->timer_list
  MaxTime,    \* bound: time stops here, and no timer is set for later
  MaxMods,    \* bound: how often timers are armed or deleted
  MaxSwitches,\* bound: how often the clock is disabled
  Null

ASSUME TimersAssumption ==
  /\ main \in Lists /\ Null \notin Lists \cup Timers
  /\ ListOf \in [Timers -> Lists]
  /\ MaxTime \in Nat /\ MaxMods \in Nat /\ MaxSwitches \in Nat

VARIABLES
  now,                \* the clock
  enabled,            \* clock->enabled as the other threads see it
  buffered,           \* main's store of false has not reached them
  overtaken,          \* the lists that main has found done before the store did
  active, expire,     \* timer_list->active_timers, ts->expire_time
  event,              \* the value of timer_list->timers_done_ev
  notified,           \* what notify_cb sets, and poll() returns for
  pc,                 \* where each thread is
  until,              \* when its poll() times out, -1 for never
  current,            \* current_time in timerlist_run_timers
  rearm,              \* the list it is about to notify, or Null
  ctl, left,          \* where main is in qemu_clock_enable; the lists still to do
  mods, switches

clockVars == <<enabled, buffered, overtaken, ctl, left, switches>>
timerVars == <<active, expire, mods, rearm>>
runVars == <<until, current>>
vars == <<now, clockVars, timerVars, event, notified, pc, runVars>>

\* timerlist_new has made the lists, and setting up a context has notified it.
Init ==
  /\ now = 0
  /\ enabled = TRUE /\ buffered = FALSE /\ overtaken = {}
  /\ active = [l \in Lists |-> <<>>]
  /\ expire = [t \in Timers |-> -1]
  /\ event = [l \in Lists |-> "free"]
  /\ notified = [l \in Lists |-> TRUE]
  /\ pc = [l \in Lists |-> "deadline"]
  /\ until = [l \in Lists |-> -1]
  /\ current = [l \in Lists |-> 0]
  /\ rearm = [l \in Lists |-> Null]
  /\ ctl = "none" /\ left = {}
  /\ mods = 0 /\ switches = 0

\* clock->enabled as thread l reads it: a thread sees its own stores.
Sees(l) == enabled /\ ~(l = main /\ buffered)

Goes(l, from, to) == pc[l] = from /\ pc' = [pc EXCEPT ![l] = to]

\* The thread is not inside qemu_clock_enable or timerlist_rearm. What main does next
\* after qemu_clock_enable, taking a list's lock or resetting the event of its own
\* list, waits for its store.
Free(l) == rearm[l] = Null /\ (l = main => ctl = "none" /\ ~buffered)

\* An event handler or a timer callback, which may use timers.
InHandler(l) == Free(l) /\ pc[l] \in {"dispatch", "callback"}

\* Of the lists still to do, the one the loop is at.
AtList == CHOOSE l \in left : TRUE

Tick ==
  /\ now < MaxTime
  /\ now' = now + 1
  /\ UNCHANGED <<clockVars, timerVars, event, notified, pc, runVars>>

-----------------------------------------------------------------------------
(* Arming and deleting timers.                                             *)

\* timer_del_locked.
Without(s, t) ==
  IF \E i \in DOMAIN s : s[i] = t
  THEN LET i == CHOOSE i \in DOMAIN s : s[i] = t
       IN  SubSeq(s, 1, i - 1) \o SubSeq(s, i + 1, Len(s))
  ELSE s

\* Mutant of Position: the new timer goes in front of the ones before its time.
PositionFirst(s, at, i) == i = 1

\* The loop of timer_mod_ns_locked stops at i: behind the timers that are due no later.
Position(s, at, i) ==
  /\ \A j \in 1 .. i - 1 : expire[s[j]] <= at
  /\ i \in DOMAIN s => expire[s[i]] > at

Inserted(s, i, t) == SubSeq(s, 1, i - 1) \o <<t>> \o SubSeq(s, i, Len(s))

\* timer_mod_ns by thread l, up to the notification, which the first of the list needs.
Mod(l, t, at) ==
  /\ InHandler(l) /\ mods < MaxMods
  /\ LET s == Without(active[ListOf[t]], t)
     IN  \E i \in 1 .. Len(s) + 1 :
           /\ Position(s, at, i)
           /\ active' = [active EXCEPT ![ListOf[t]] = Inserted(s, i, t)]
           /\ rearm' = [rearm EXCEPT ![l] = IF i = 1 THEN ListOf[t] ELSE Null]
  /\ expire' = [expire EXCEPT ![t] = at]
  /\ mods' = mods + 1
  /\ UNCHANGED <<now, clockVars, event, notified, pc, runVars>>

\* timer_mod_anticipate_ns.
ModAnticipate(l, t, at) ==
  /\ expire[t] = -1 \/ expire[t] > at
  /\ Mod(l, t, at)

\* timer_del.
Del(l, t) ==
  /\ InHandler(l) /\ mods < MaxMods
  /\ active' = [active EXCEPT ![ListOf[t]] = Without(@, t)]
  /\ expire' = [expire EXCEPT ![t] = -1]
  /\ mods' = mods + 1
  /\ UNCHANGED <<now, clockVars, rearm, event, notified, pc, runVars>>

\* timerlist_rearm, timerlist_notify.
Rearm(l) ==
  /\ rearm[l] # Null
  /\ notified' = [notified EXCEPT ![rearm[l]] = TRUE]
  /\ rearm' = [rearm EXCEPT ![l] = Null]
  /\ UNCHANGED <<now, clockVars, active, expire, mods, event, pc, runVars>>

-----------------------------------------------------------------------------
(* A thread's loop: the deadline, the sleep, timerlist_run_timers.         *)

\* timerlist_deadline_ns looks at the clock ...
DeadlineEnabled(l) ==
  /\ Goes(l, "deadline", IF Sees(l) THEN "head" ELSE "sleep")
  /\ until' = [until EXCEPT ![l] = -1]
  /\ UNCHANGED <<now, clockVars, timerVars, event, notified, current>>

\* ... then at the list.
DeadlineHead(l) ==
  /\ Goes(l, "head", "sleep")
  /\ until' = [until EXCEPT ![l] = IF active[l] = <<>> THEN -1 ELSE expire[Head(active[l])]]
  /\ UNCHANGED <<now, clockVars, timerVars, event, notified, current>>

\* poll() returns for a notification or at the deadline ...
PollReturns(l) ==
  /\ notified[l] \/ until[l] \in 0..now
  /\ Goes(l, "sleep", "dispatch")
  /\ notified' = [notified EXCEPT ![l] = FALSE]
  /\ until' = [until EXCEPT ![l] = -1]
  /\ UNCHANGED <<now, clockVars, timerVars, event, current>>

\* ... or for some other descriptor.
PollOther(l) ==
  /\ ~notified[l]
  /\ Goes(l, "sleep", "dispatch")
  /\ until' = [until EXCEPT ![l] = -1]
  /\ UNCHANGED <<now, clockVars, timerVars, event, notified, current>>

\* Mutant of EventReset: the event is left set for the run.
EventResetNot(l) == event

\* qemu_event_reset. A set event stays so until the atomic_or: this thread alone
\* resets it, and a waiter does not touch it.
EventReset(l) == [event EXCEPT ![l] = IF @ = "set" THEN "free" ELSE @]

\* timerlist_run_timers is called.
RunReset(l) ==
  /\ Free(l)
  /\ Goes(l, "dispatch", "enabled")
  /\ event' = EventReset(l)
  /\ UNCHANGED <<now, clockVars, timerVars, notified, runVars>>

RunEnabled(l) ==
  /\ Goes(l, "enabled", IF Sees(l) THEN "run" ELSE "set")
  /\ current' = [current EXCEPT ![l] = IF Sees(l) THEN now ELSE 0]
  /\ UNCHANGED <<now, clockVars, timerVars, event, notified, until>>

\* Mutant of Expired: compares as timerlist_expired does.
ExpiredBefore(l) == active[l] # <<>> /\ expire[Head(active[l])] < current[l]

\* timer_expired_ns of the head of the list.
Expired(l) == active[l] # <<>> /\ expire[Head(active[l])] <= current[l]

\* The head has expired: it is removed and its callback is entered.
RunTimer(l) ==
  /\ Expired(l)
  /\ Goes(l, "run", "callback")
  /\ active' = [active EXCEPT ![l] = Tail(@)]
  /\ expire' = [expire EXCEPT ![Head(active[l])] = -1]
  /\ UNCHANGED <<now, clockVars, mods, rearm, event, notified, runVars>>

CallbackReturns(l) ==
  /\ Free(l)
  /\ Goes(l, "callback", "run")
  /\ UNCHANGED <<now, clockVars, timerVars, event, notified, runVars>>

RunEnds(l) ==
  /\ ~Expired(l)
  /\ Goes(l, "run", "set")
  /\ current' = [current EXCEPT ![l] = 0]
  /\ UNCHANGED <<now, clockVars, timerVars, event, notified, until>>

\* qemu_event_set: the exchange ...
EventSet(l) ==
  /\ Goes(l, "set", IF event[l] = "busy" THEN "wake" ELSE "deadline")
  /\ event' = [event EXCEPT ![l] = "set"]
  /\ UNCHANGED <<now, clockVars, timerVars, notified, runVars>>

\* ... and futex_wake.
EventWake(l) ==
  /\ Goes(l, "wake", "deadline")
  /\ ctl' = IF ctl = "asleep" /\ l = AtList THEN "woken" ELSE ctl
  /\ UNCHANGED <<now, enabled, buffered, overtaken, left, switches, timerVars, event, notified, runVars>>

-----------------------------------------------------------------------------
(* qemu_clock_enable, in an event handler of the main thread.              *)

\* The loop begins with the next list or ends.
NextList(begin) ==
  /\ left' = left \ {AtList}
  /\ ctl' = IF left' = {} THEN "none" ELSE begin

Disable ==
  /\ Free(main) /\ pc[main] = "dispatch"
  /\ Sees(main) /\ switches < MaxSwitches
  /\ buffered' = TRUE /\ overtaken' = {}
  /\ ctl' = "read" /\ left' = Lists
  /\ switches' = switches + 1
  /\ UNCHANGED <<now, enabled, timerVars, event, notified, pc, runVars>>

\* The other threads see the store.
Drain ==
  /\ buffered
  /\ buffered' = FALSE /\ enabled' = FALSE
  /\ UNCHANGED <<now, overtaken, ctl, left, switches, timerVars, event, notified, pc, runVars>>

\* qemu_event_wait: the first load ...
WaitRead ==
  /\ ctl = "read"
  /\ IF event[AtList] = "set"
     THEN NextList("read") /\ overtaken' = IF buffered THEN overtaken \cup {AtList} ELSE overtaken
     ELSE /\ ctl' = IF event[AtList] = "free" THEN "cas" ELSE "futex"
          /\ UNCHANGED <<left, overtaken>>
  /\ UNCHANGED <<now, enabled, buffered, switches, timerVars, event, notified, pc, runVars>>

\* ... the compare-and-swap ...
WaitCas ==
  /\ ctl = "cas" /\ ~buffered
  /\ IF event[AtList] = "set"
     THEN NextList("read") /\ UNCHANGED event
     ELSE /\ event' = [event EXCEPT ![AtList] = "busy"]
          /\ ctl' = "futex"
          /\ UNCHANGED left
  /\ UNCHANGED <<now, enabled, buffered, overtaken, switches, timerVars, notified, pc, runVars>>

\* Mutant of FutexSleeps: futex_wait does not compare.
FutexSleepsAlways == TRUE

\* futex_wait sleeps if the value is still EV_BUSY.
FutexSleeps == event[AtList] = "busy"

\* ... and futex_wait, which is not repeated.
WaitFutex ==
  /\ ctl = "futex" /\ ~buffered
  /\ IF FutexSleeps
     THEN ctl' = "asleep" /\ UNCHANGED left
     ELSE NextList("read")
  /\ UNCHANGED <<now, enabled, buffered, overtaken, switches, timerVars, event, notified, pc, runVars>>

WaitWoken ==
  /\ ctl = "woken"
  /\ NextList("read")
  /\ UNCHANGED <<now, enabled, buffered, overtaken, switches, timerVars, event, notified, pc, runVars>>

Enable ==
  /\ Free(main) /\ pc[main] = "dispatch"
  /\ ~Sees(main)
  /\ enabled' = TRUE
  /\ overtaken' = {}
  /\ ctl' = "notify" /\ left' = Lists
  /\ UNCHANGED <<now, buffered, switches, timerVars, event, notified, pc, runVars>>

\* qemu_clock_notify.
EnableNotify ==
  /\ ctl = "notify"
  /\ notified' = [notified EXCEPT ![AtList] = TRUE]
  /\ NextList("notify")
  /\ UNCHANGED <<now, enabled, buffered, overtaken, switches, timerVars, event, pc, runVars>>

-----------------------------------------------------------------------------
Wait == WaitRead \/ WaitCas \/ WaitFutex \/ WaitWoken

Run(l) ==
  \/ DeadlineEnabled(l) \/ DeadlineHead(l) \/ PollReturns(l)
  \/ RunReset(l) \/ RunEnabled(l) \/ RunTimer(l) \/ CallbackReturns(l) \/ RunEnds(l)
  \/ EventSet(l) \/ EventWake(l) \/ Rearm(l)

UseTimer(l, t) ==
  \/ \E at \in 0..MaxTime : Mod(l, t, at) \/ ModAnticipate(l, t, at)
  \/ Del(l, t)

Next ==
  \/ Tick \/ Disable \/ Enable \/ Drain \/ Wait \/ EnableNotify
  \/ \E l \in Lists : Run(l) \/ PollOther(l)
  \/ \E l \in Lists, t \in Timers : UseTimer(l, t)

Spec == Init /\ [][Next]_vars

\* Time passes, stores become visible, and every thread that can go on does.
FairSpec ==
  /\ Spec
  /\ WF_vars(Tick) /\ WF_vars(Drain) /\ WF_vars(Wait) /\ WF_vars(EnableNotify)
  /\ \A l \in Lists : WF_vars(Run(l))

-----------------------------------------------------------------------------
\* Timer callbacks of the list are being run.
InRun(l) == pc[l] \in {"run", "callback"}

\* "Disabling the clock will wait for related timerlists to stop executing
\* qemu_run_timers": from the return of qemu_clock_enable(false) until the clock is
\* enabled again no timer callback runs.
QuietWhenDisabled == ctl = "none" /\ ~Sees(main) => \A l \in Lists : ~InRun(l)

\* qemu_event_wait is about to return for the list it is at.
Returning == ctl = "woken" \/ (ctl \in {"read", "cas", "futex"} /\ event[AtList] = "set")

\* What the code does keep of it: qemu_event_wait does not return for a list in the
\* middle of a run, and after qemu_clock_enable(false) no timer callback runs in a list
\* whose event was read once the store of clock->enabled was visible.
WaitStopsRuns ==
  /\ Returning => ~InRun(AtList)
  /\ ctl = "none" /\ ~Sees(main) => \A l \in Lists \ overtaken : ~InRun(l)

\* "The caller should notice the change and there is no race condition": a thread
\* asleep in poll() while the clock is enabled wakes up in time for every armed timer
\* of its list, not only the head's, or has been or is about to be notified.
DeadlineNoticed ==
  \A t \in Timers : LET l == ListOf[t] IN
    pc[l] = "sleep" /\ enabled /\ expire[t] # -1 =>
      \/ until[l] \in 0..expire[t]
      \/ notified[l] \/ \E m \in Lists : rearm[m] = l
      \/ ctl = "notify" /\ l \in left

\* A timer that is armed is run, deleted or held up by a disabled clock.
ExpiredRuns == \A t \in Timers : (expire[t] # -1) ~> (expire[t] = -1 \/ ~enabled)

\* "This functions should not be used from the callback of a timer that is based on
\* @clock. Doing so would cause a deadlock": outside a callback,
\* qemu_clock_enable(false) returns.
DisableReturns == (ctl = "read") ~> (ctl = "none")

\* The same once the main loop has run its timers: the event of its list is set then,
\* and no wakeup of qemu_event_wait is lost.
DisableReturnsLater == (ctl = "read" /\ event[main] = "set") ~> (ctl = "none")

=============================================================================
