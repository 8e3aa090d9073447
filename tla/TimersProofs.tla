---------------------------- MODULE TimersProofs ----------------------------
(***************************************************************************)
(* Two properties of the timer lists, for any number of lists and timers:  *)
(*                                                                         *)
(*   - qemu_clock_enable(false) waits for a run that is in progress, and   *)
(*     when it has returned no timer callback runs in the lists whose      *)
(*     event it read after its store became visible (QuietInv);            *)
(*                                                                         *)
(*   - a thread does not sleep past a timer of its list (NoticeInv).  Its  *)
(*     deadline is that of the head, so this needs that timer_mod_ns and   *)
(*     timer_del keep every list sorted and free of duplicates; With says  *)
(*     that a list is another one with a timer put in, and the lemmas show *)
(*     that both operations are of that form.                              *)
(***************************************************************************)
EXTENDS Timers, TLAPS

ProofTypeOK ==
  /\ enabled \in BOOLEAN /\ buffered \in BOOLEAN
  /\ event \in [Lists -> {"set", "free", "busy"}]
  /\ pc \in [Lists -> {"deadline", "head", "sleep", "dispatch", "enabled", "run",
                       "callback", "set", "wake"}]
  /\ ctl \in {"none", "read", "cas", "futex", "asleep", "woken", "notify"}
  /\ left \subseteq Lists
  /\ ctl = "none" <=> left = {}

\* While the clock is being disabled its store is visible, or qemu_clock_enable has
\* done no more than load events: it has left behind the overtaken lists only.
StoreFirst ==
  /\ buffered => enabled /\ ctl \in {"none", "read", "cas"} /\ Lists \ left \subseteq overtaken
  /\ ctl \in {"read", "cas"} => buffered \/ ~enabled
  /\ ctl \in {"futex", "asleep", "woken"} => ~enabled
  /\ ctl = "notify" => enabled

\* EV_BUSY is the mark of the one waiter, until the exchange of qemu_event_set.
BusyIsWaitedFor ==
  /\ \A l \in Lists : event[l] = "busy" => ctl \in {"futex", "asleep"} /\ l = AtList
  /\ \A l \in Lists : pc[l] = "wake" => event[l] = "set"

\* The event of a list is not set while timerlist_run_timers is at work on it.
ResetDuringRun ==
  \A l \in Lists : pc[l] \in {"enabled", "run", "callback", "set"} => event[l] # "set"

\* The lists that have been waited for are quiet, but for the overtaken ones, and so is
\* the one waited for as soon as its event has changed from EV_BUSY.
WaitedIsQuiet ==
  /\ ~enabled => \A l \in Lists \ (left \cup overtaken) : ~InRun(l)
  /\ ctl \in {"futex", "asleep"} /\ event[AtList] # "busy" => ~InRun(AtList)
  /\ ctl = "woken" => ~InRun(AtList)

QuietInv == ProofTypeOK /\ StoreFirst /\ BusyIsWaitedFor /\ ResetDuringRun /\ WaitedIsQuiet

LEMMA AtListIsLeft == ASSUME ProofTypeOK, ctl # "none" PROVE AtList \in left /\ AtList \in Lists
  BY DEF ProofTypeOK, AtList

LEMMA QuietInit == Init => QuietInv
  BY Zenon DEF Init, QuietInv, ProofTypeOK, StoreFirst, BusyIsWaitedFor, ResetDuringRun, WaitedIsQuiet, InRun

\* What timer users, the passing of time and a thread outside timerlist_run_timers do
\* does not matter.
LEMMA QuietOtherSteps ==
  ASSUME QuietInv, UNCHANGED <<enabled, buffered, overtaken, ctl, left, event, pc>>
  PROVE  QuietInv'
  BY DEF QuietInv, ProofTypeOK, StoreFirst, BusyIsWaitedFor, ResetDuringRun, WaitedIsQuiet, InRun, AtList

\* A step of a thread that leaves the event alone and does not begin a run.
LEMMA QuietMoves ==
  ASSUME QuietInv, UNCHANGED <<enabled, buffered, overtaken, ctl, left, event>>,
         NEW l \in Lists,
         NEW to \in {"deadline", "head", "sleep", "dispatch", "enabled", "run", "callback", "set"},
         pc' = [pc EXCEPT ![l] = to],
         to \in {"enabled", "run", "callback", "set"} => event[l] # "set",
         to \in {"run", "callback"} => enabled \/ InRun(l)
  PROVE  QuietInv'
<1>1. AtList' = AtList
  BY DEF AtList
<1>2. ProofTypeOK' /\ StoreFirst' /\ BusyIsWaitedFor'
  BY <1>1 DEF QuietInv, ProofTypeOK, StoreFirst, BusyIsWaitedFor
<1>3. ResetDuringRun'
  BY DEF QuietInv, ProofTypeOK, ResetDuringRun
<1>4. \A m \in Lists : InRun(m)' => InRun(m) \/ enabled
  BY DEF QuietInv, ProofTypeOK, InRun
<1>5. WaitedIsQuiet'
  <2>1. ctl # "none" => AtList \in Lists
    BY AtListIsLeft DEF QuietInv
  <2>2. ctl \in {"futex", "asleep", "woken"} => ~enabled
    BY DEF QuietInv, StoreFirst
  <2>3. QED
    BY <1>1, <1>4, <2>1, <2>2 DEF QuietInv, WaitedIsQuiet
<1>6. QED
  BY <1>2, <1>3, <1>5 DEF QuietInv

\* timerlist_run_timers resets the event before the run and sets it after it.
LEMMA QuietEvent ==
  ASSUME QuietInv, TimersAssumption, NEW l \in Lists, RunReset(l) \/ EventSet(l)
  PROVE  QuietInv'
<1> USE DEF Goes, clockVars
<1>1. UNCHANGED <<enabled, buffered, overtaken, ctl, left, AtList>>
  BY DEF RunReset, EventSet, AtList
<1>2. ProofTypeOK' /\ StoreFirst' /\ ResetDuringRun'
  <2>1. CASE RunReset(l)
    BY <2>1 DEF RunReset, EventReset, QuietInv, ProofTypeOK, StoreFirst, ResetDuringRun
  <2>2. CASE EventSet(l)
    BY <2>2 DEF EventSet, QuietInv, ProofTypeOK, StoreFirst, ResetDuringRun
  <2>3. QED
    BY <2>1, <2>2
<1>3. ~InRun(l)' /\ \A m \in Lists \ {l} : event'[m] = event[m] /\ pc'[m] = pc[m]
  BY DEF RunReset, EventReset, EventSet, QuietInv, ProofTypeOK, InRun
<1>4. (event'[l] = "busy" => event[l] = "busy") /\ (pc'[l] = "wake" => event'[l] = "set")
  BY DEF RunReset, EventReset, EventSet, QuietInv, ProofTypeOK
<1>5. BusyIsWaitedFor'
  BY <1>1, <1>3, <1>4 DEF QuietInv, BusyIsWaitedFor
<1>6. WaitedIsQuiet'
  <2>1. ctl # "none" => AtList \in Lists
    BY AtListIsLeft DEF QuietInv
  <2>2. QED
    BY <1>1, <1>3, <2>1 DEF QuietInv, WaitedIsQuiet, InRun
<1>7. QED
  BY <1>2, <1>5, <1>6 DEF QuietInv

\* The wakeup is that of the list waited for, whose thread is past its run.
LEMMA QuietWake ==
  ASSUME QuietInv, NEW l \in Lists, EventWake(l)
  PROVE  QuietInv'
<1> USE DEF EventWake, Goes
<1>1. UNCHANGED <<enabled, left, overtaken, event, AtList>>
  BY DEF AtList
<1>2. ctl' \in {ctl, "woken"} /\ (ctl' # ctl => ctl = "asleep" /\ l = AtList) /\ event[l] = "set"
  BY DEF QuietInv, BusyIsWaitedFor
<1>3. ProofTypeOK' /\ StoreFirst' /\ ResetDuringRun'
  BY <1>2 DEF QuietInv, ProofTypeOK, StoreFirst, ResetDuringRun
<1>4. \A m \in Lists : pc'[m] = "wake" => pc[m] = "wake"
  BY DEF QuietInv, ProofTypeOK
<1>5. BusyIsWaitedFor'
  BY <1>1, <1>2, <1>4 DEF QuietInv, BusyIsWaitedFor
<1>6. \A m \in Lists : InRun(m)' => InRun(m) /\ m # l
  BY DEF QuietInv, ProofTypeOK, InRun
<1>7. ctl # "none" => AtList \in Lists
  BY AtListIsLeft DEF QuietInv
<1>8. WaitedIsQuiet'
  BY <1>1, <1>2, <1>6, <1>7 DEF QuietInv, WaitedIsQuiet
<1>9. QED
  BY <1>3, <1>5, <1>8 DEF QuietInv

LEMMA QuietRun ==
  ASSUME QuietInv, TimersAssumption, NEW l \in Lists, Run(l) \/ PollOther(l)
  PROVE  QuietInv'
<1> USE DEF Goes, clockVars
<1>1. CASE DeadlineEnabled(l)
  BY <1>1, QuietMoves, Zenon DEF DeadlineEnabled
<1>2. CASE DeadlineHead(l)
  BY <1>2, QuietMoves, Zenon DEF DeadlineHead
<1>3. CASE PollReturns(l) \/ PollOther(l)
  BY <1>3, QuietMoves DEF PollReturns, PollOther
<1>4. CASE RunEnabled(l)
  <2>1. event[l] # "set"
    BY <1>4 DEF RunEnabled, QuietInv, ResetDuringRun
  <2>2. QED
    BY <1>4, <2>1, QuietMoves, Zenon DEF RunEnabled, Sees
<1>5. CASE RunTimer(l) \/ CallbackReturns(l)
  <2>1. event[l] # "set" /\ InRun(l)
    BY <1>5, SMTT(30) DEF RunTimer, CallbackReturns, QuietInv, ResetDuringRun, InRun
  <2>2. QED
    BY <1>5, <2>1, QuietMoves DEF RunTimer, CallbackReturns
<1>6. CASE RunEnds(l)
  <2>1. event[l] # "set"
    BY <1>6 DEF RunEnds, QuietInv, ResetDuringRun
  <2>2. QED
    BY <1>6, <2>1, QuietMoves, Zenon DEF RunEnds
<1>7. CASE Rearm(l)
  BY <1>7, QuietOtherSteps DEF Rearm
<1>8. QED
  BY <1>1, <1>2, <1>3, <1>4, <1>5, <1>6, <1>7, QuietEvent, QuietWake, SMTT(30) DEF Run

\* The loop of qemu_clock_enable leaves a list behind when it is quiet or overtaken.
LEMMA QuietNextList ==
  ASSUME QuietInv, NEW begin \in {"read", "notify"}, NextList(begin), ctl # "none",
         event[AtList] # "busy", UNCHANGED <<enabled, buffered, event, pc>>,
         overtaken \subseteq overtaken', buffered => AtList \in overtaken' /\ ctl = "read",
         begin = "read" => (buffered \/ ~enabled) /\ ~InRun(AtList),
         begin = "notify" => enabled /\ ctl = "notify"
  PROVE  QuietInv'
<1> USE DEF NextList
<1>1. AtList \in left /\ AtList \in Lists
  BY AtListIsLeft DEF QuietInv
<1>2. ctl' \in {"none", begin} /\ left' = left \ {AtList} /\ (ctl' = "none" <=> left' = {})
  OBVIOUS
<1>3. ProofTypeOK' /\ ResetDuringRun'
  BY <1>2 DEF QuietInv, ProofTypeOK, ResetDuringRun
<1>4. StoreFirst'
  BY <1>1, <1>2 DEF QuietInv, StoreFirst
<1>5. BusyIsWaitedFor'
  BY <1>1, <1>2 DEF QuietInv, BusyIsWaitedFor
<1>6. WaitedIsQuiet'
  BY <1>1, <1>2 DEF QuietInv, StoreFirst, WaitedIsQuiet, InRun
<1>7. QED
  BY <1>3, <1>4, <1>5, <1>6 DEF QuietInv

\* The other ways on for qemu_event_wait, which stays at its list.
LEMMA QuietGoesOn ==
  ASSUME QuietInv, ctl # "none", ctl' \in {"cas", "futex", "asleep"},
         UNCHANGED <<enabled, buffered, overtaken, left, pc>>,
         event[AtList] # "set",
         event' = event \/ event' = [event EXCEPT ![AtList] = "busy"],
         ctl' = "cas" => ctl = "read" /\ event' = event,
         ctl' # "cas" => ~enabled /\ event'[AtList] = "busy"
  PROVE  QuietInv'
<1>1. AtList \in left /\ AtList \in Lists /\ AtList' = AtList
  BY AtListIsLeft DEF QuietInv, AtList
<1>2. \A l \in Lists : event'[l] = event[l] \/ (l = AtList /\ ctl' # "cas" /\ event'[l] = "busy")
  BY <1>1 DEF QuietInv, ProofTypeOK
<1>3. ProofTypeOK' /\ StoreFirst'
  BY <1>1 DEF QuietInv, ProofTypeOK, StoreFirst
<1>4. ResetDuringRun'
  BY <1>2 DEF QuietInv, ResetDuringRun
<1>5. BusyIsWaitedFor'
  BY <1>1, <1>2 DEF QuietInv, BusyIsWaitedFor
<1>6. WaitedIsQuiet'
  BY <1>1 DEF QuietInv, WaitedIsQuiet, InRun
<1> QED
  BY <1>3, <1>4, <1>5, <1>6 DEF QuietInv

LEMMA QuietWait ==
  ASSUME QuietInv, Wait
  PROVE  QuietInv'
<1>1. ctl # "none" /\ (buffered \/ ~enabled)
  BY DEF Wait, WaitRead, WaitCas, WaitFutex, WaitWoken, QuietInv, StoreFirst
<1>2. AtList \in Lists
  BY <1>1, AtListIsLeft DEF QuietInv
<1>3. event[AtList] = "set" => ~InRun(AtList)
  BY <1>2 DEF QuietInv, ResetDuringRun, InRun
<1>4. CASE WaitRead
  <2>1. ctl = "read" /\ event[AtList] # "busy" /\ UNCHANGED <<enabled, buffered, event, pc>>
    BY <1>2, <1>4 DEF WaitRead, QuietInv, BusyIsWaitedFor
  <2>2. CASE event[AtList] = "set"
    <3>1. NextList("read") /\ overtaken' = IF buffered THEN overtaken \cup {AtList} ELSE overtaken
      BY <1>4, <2>2 DEF WaitRead
    <3>2. QED
      BY <1>1, <1>3, <2>1, <2>2, <3>1, QuietNextList
  <2>3. CASE event[AtList] # "set"
    <3>1. event[AtList] = "free"
      BY <1>2, <2>1, <2>3 DEF QuietInv, ProofTypeOK
    <3>2. ctl' = "cas" /\ UNCHANGED <<left, overtaken>>
      BY <1>4, <2>3, <3>1 DEF WaitRead
    <3>3. QED
      BY <2>1, <2>3, <3>2, QuietGoesOn
  <2>4. QED
    BY <2>2, <2>3
<1>5. CASE WaitCas
  <2>1. ~buffered /\ ~enabled /\ ctl = "cas" /\ UNCHANGED <<enabled, buffered, overtaken, pc>>
    BY <1>1, <1>5 DEF WaitCas
  <2>2. CASE event[AtList] = "set"
    <3>1. NextList("read") /\ event' = event
      BY <1>5, <2>2 DEF WaitCas
    <3>2. QED
      BY <1>3, <2>1, <2>2, <3>1, QuietNextList
  <2>3. CASE event[AtList] # "set"
    <3>1. /\ ctl' = "futex" /\ event' = [event EXCEPT ![AtList] = "busy"] /\ left' = left
      BY <1>5, <2>3 DEF WaitCas
    <3>2. event'[AtList] = "busy"
      BY <1>2, <3>1 DEF QuietInv, ProofTypeOK
    <3>3. QED
      BY <2>1, <2>3, <3>1, <3>2, QuietGoesOn
  <2>4. QED
    BY <2>2, <2>3
<1>6. CASE WaitFutex
  <2>1. ~buffered /\ ~enabled /\ ctl = "futex" /\ UNCHANGED <<enabled, buffered, overtaken, event, pc>>
    BY <1>1, <1>6 DEF WaitFutex
  <2>2. CASE event[AtList] = "busy"
    <3>1. ctl' = "asleep" /\ left' = left
      BY <1>6, <2>2 DEF WaitFutex, FutexSleeps
    <3>2. QED
      BY <2>1, <2>2, <3>1, QuietGoesOn
  <2>3. CASE event[AtList] # "busy"
    <3>1. ~InRun(AtList) /\ NextList("read")
      BY <1>6, <2>1, <2>3 DEF WaitFutex, FutexSleeps, QuietInv, WaitedIsQuiet
    <3>2. QED
      BY <2>1, <2>3, <3>1, QuietNextList
  <2>4. QED
    BY <2>2, <2>3
<1>7. CASE WaitWoken
  <2>1. /\ ctl = "woken" /\ NextList("read") /\ ~InRun(AtList)
        /\ UNCHANGED <<enabled, buffered, overtaken, event, pc>>
    BY <1>7 DEF WaitWoken, QuietInv, WaitedIsQuiet
  <2>2. ~buffered /\ event[AtList] # "busy"
    BY <1>2, <2>1 DEF QuietInv, StoreFirst, BusyIsWaitedFor
  <2>3. QED
    BY <1>1, <2>1, <2>2, QuietNextList
<1>8. QED
  BY <1>4, <1>5, <1>6, <1>7, Zenon DEF Wait

\* The stores of qemu_clock_enable itself, and the notifications.
LEMMA QuietSwitch ==
  ASSUME QuietInv, TimersAssumption, Disable \/ Drain \/ Enable \/ EnableNotify
  PROVE  QuietInv'
<1>1. Lists # {}
  BY DEF TimersAssumption
<1>2. CASE Disable
  <2>1. ctl = "none" /\ enabled /\ ctl' = "read" /\ left' = Lists /\ UNCHANGED <<enabled, event, pc>>
    BY <1>2 DEF Disable, Free, Sees
  <2>2. ProofTypeOK' /\ StoreFirst' /\ ResetDuringRun'
    BY <1>1, <1>2, <2>1 DEF Disable, QuietInv, ProofTypeOK, StoreFirst, ResetDuringRun
  <2>3. BusyIsWaitedFor'
    BY <2>1 DEF QuietInv, BusyIsWaitedFor
  <2>4. WaitedIsQuiet'
    BY <2>1 DEF WaitedIsQuiet, InRun
  <2>5. QED
    BY <2>2, <2>3, <2>4 DEF QuietInv
<1>3. CASE Drain
  <2>1. /\ ctl \in {"none", "read", "cas"} /\ Lists \ left \subseteq overtaken
        /\ ~buffered' /\ ~enabled' /\ UNCHANGED <<overtaken, ctl, left, event, pc, AtList>>
        /\ buffered' \in BOOLEAN /\ enabled' \in BOOLEAN
    BY <1>3, Zenon DEF Drain, QuietInv, StoreFirst, AtList
  <2>2. ProofTypeOK' /\ StoreFirst' /\ ResetDuringRun'
    BY <2>1 DEF QuietInv, ProofTypeOK, StoreFirst, ResetDuringRun
  <2>3. BusyIsWaitedFor'
    BY <2>1 DEF QuietInv, BusyIsWaitedFor
  <2>4. WaitedIsQuiet'
    BY <2>1 DEF WaitedIsQuiet, InRun
  <2>5. QED
    BY <2>2, <2>3, <2>4 DEF QuietInv
<1>4. CASE Enable
  <2>1. /\ ctl = "none" /\ ~buffered /\ ctl' = "notify" /\ left' = Lists /\ enabled'
        /\ enabled' \in BOOLEAN /\ UNCHANGED <<buffered, event, pc>>
    BY <1>4 DEF Enable, Free
  <2>2. ProofTypeOK' /\ StoreFirst' /\ ResetDuringRun'
    BY <1>1, <2>1 DEF QuietInv, ProofTypeOK, StoreFirst, ResetDuringRun
  <2>3. BusyIsWaitedFor'
    BY <2>1 DEF QuietInv, BusyIsWaitedFor
  <2>4. WaitedIsQuiet'
    BY <2>1 DEF WaitedIsQuiet, InRun
  <2>5. QED
    BY <2>2, <2>3, <2>4 DEF QuietInv
<1>5. CASE EnableNotify
  <2>1. /\ ctl = "notify" /\ enabled /\ ~buffered /\ NextList("notify")
        /\ UNCHANGED <<enabled, buffered, overtaken, event, pc>>
    BY <1>5 DEF EnableNotify, QuietInv, StoreFirst
  <2>2. event[AtList] # "busy"
    BY <2>1, AtListIsLeft DEF QuietInv, BusyIsWaitedFor
  <2>3. QED
    BY <2>1, <2>2, QuietNextList
<1>6. QED
  BY <1>2, <1>3, <1>4, <1>5, Zenon

LEMMA QuietNext ==
  ASSUME QuietInv, TimersAssumption, [Next]_vars
  PROVE  QuietInv'
<1>1. CASE Tick
  BY <1>1, QuietOtherSteps DEF Tick, clockVars
<1>2. CASE Disable \/ Drain \/ Enable \/ EnableNotify
  BY <1>2, QuietSwitch
<1>3. CASE Wait
  BY <1>3, QuietWait
<1>4. CASE \E l \in Lists : Run(l) \/ PollOther(l)
  BY <1>4, QuietRun
<1>5. CASE \E l \in Lists, t \in Timers : UseTimer(l, t)
  <2>1. UNCHANGED <<enabled, buffered, overtaken, ctl, left, event, pc>>
    BY <1>5 DEF UseTimer, Mod, ModAnticipate, Del, clockVars
  <2>2. QED
    BY <2>1, QuietOtherSteps
<1>6. CASE UNCHANGED vars
  BY <1>6, QuietOtherSteps DEF vars, clockVars
<1>7. QED
  BY <1>1, <1>2, <1>3, <1>4, <1>5, <1>6, SMTT(30) DEF Next

\* qemu_event_wait does not return in the middle of a run of the list waited for, and
\* after qemu_clock_enable(false) no timer callback runs in a list whose event was read
\* once the store of clock->enabled was visible, whatever the number of timer lists and
\* timers and whatever the order of stores and loads.
THEOREM WaitsStopRuns == Spec => []WaitStopsRuns
<1>1. QuietInv => WaitStopsRuns
  <2> SUFFICES ASSUME QuietInv PROVE WaitStopsRuns
    OBVIOUS
  <2>2. ASSUME Returning PROVE ~InRun(AtList)
    <3>1. AtList \in Lists
      BY <2>2, AtListIsLeft DEF Returning, QuietInv
    <3>2. QED
      BY <2>2, <3>1 DEF Returning, QuietInv, ResetDuringRun, WaitedIsQuiet, InRun
  <2>3. ASSUME ctl = "none", ~Sees(main), NEW l \in Lists \ overtaken PROVE ~InRun(l)
    <3>1. left = {} /\ ~buffered /\ ~enabled
      BY <2>3 DEF QuietInv, ProofTypeOK, StoreFirst, Sees
    <3>2. QED
      BY <3>1 DEF QuietInv, WaitedIsQuiet
  <2>4. QED
    BY <2>2, <2>3, Zenon DEF WaitStopsRuns
<1>2. QuietInv /\ [Next]_vars => QuietInv'
  BY QuietNext, TimersAssumption
<1>3. QED
  BY QuietInit, <1>1, <1>2, PTL DEF Spec

-----------------------------------------------------------------------------
(* The lists of timers.                                                    *)

Elements(s) == {s[i] : i \in DOMAIN s}

\* No timer is listed twice, none is due before the one in front of it.
Sorted(s, x) ==
  /\ \A i \in DOMAIN s : x[s[i]] >= 0
  /\ \A i, j \in DOMAIN s : i < j => s[i] # s[j] /\ x[s[i]] <= x[s[j]]

\* The place of what was i-th when something has been put in k-th place.
Past(k, i) == IF i < k THEN i ELSE i + 1

\* w is s with t in k-th place.
With(w, s, k, t) ==
  /\ s \in Seq(Timers) /\ w \in Seq(Timers) /\ Len(w) = Len(s) + 1
  /\ k \in 1 .. Len(s) + 1 /\ w[k] = t
  /\ \A i \in 1 .. Len(s) : w[Past(k, i)] = s[i]

\* t is due no earlier than the first k - 1 of s and no later than the others.
Belongs(s, x, k, t) ==
  /\ x[t] >= 0
  /\ \A i \in DOMAIN s : (i < k => x[s[i]] <= x[t]) /\ (i >= k => x[t] <= x[s[i]])

LEMMA Places ==
  ASSUME NEW n \in Nat, NEW k \in 1 .. n + 1
  PROVE  /\ \A i \in 1 .. n : Past(k, i) \in 1 .. n + 1 /\ Past(k, i) # k
         /\ \A i, j \in 1 .. n : i < j => Past(k, i) < Past(k, j)
         /\ \A i, j \in 1 .. n : Past(k, i) < Past(k, j) => i < j
         /\ \A i \in 1 .. n : (Past(k, i) < k => i < k) /\ (k < Past(k, i) => i >= k)
         /\ \A j \in 1 .. n + 1 : j # k => \E i \in 1 .. n : Past(k, i) = j
<1>1. ASSUME NEW j \in 1 .. n + 1, j # k PROVE \E i \in 1 .. n : Past(k, i) = j
  <2>1. CASE j < k
    BY <1>1, <2>1 DEF Past
  <2>2. CASE j > k
    <3>1. j - 1 \in 1 .. n /\ Past(k, j - 1) = j
      BY <1>1, <2>2 DEF Past
    <3> QED
      BY <3>1
  <2> QED
    BY <1>1, <2>1, <2>2
<1> QED
  BY <1>1 DEF Past

\* The list with the timer and the list without it.
LEMMA WithAndWithout ==
  ASSUME NEW w, NEW s, NEW k, NEW t, With(w, s, k, t)
  PROVE  /\ Elements(w) = Elements(s) \cup {t}
         /\ \A x : Sorted(w, x) => Sorted(s, x) /\ t \notin Elements(s)
         /\ \A x : Sorted(s, x) /\ t \notin Elements(s) /\ Belongs(s, x, k, t) => Sorted(w, x)
<1>1. /\ Len(s) \in Nat /\ DOMAIN s = 1 .. Len(s) /\ DOMAIN w = 1 .. Len(s) + 1
      /\ k \in 1 .. Len(s) + 1 /\ k \in DOMAIN w
  BY DEF With
<1>2. /\ \A i \in DOMAIN s : Past(k, i) \in DOMAIN w /\ Past(k, i) # k /\ w[Past(k, i)] = s[i]
      /\ \A i, j \in DOMAIN s : i < j => Past(k, i) < Past(k, j)
      /\ \A i, j \in DOMAIN s : Past(k, i) < Past(k, j) => i < j
      /\ \A i \in DOMAIN s : (Past(k, i) < k => i < k) /\ (k < Past(k, i) => i >= k)
      /\ \A j \in DOMAIN w : j # k => \E i \in DOMAIN s : Past(k, i) = j
  <2>1. /\ \A i \in 1 .. Len(s) : Past(k, i) \in 1 .. Len(s) + 1 /\ Past(k, i) # k
        /\ \A i, j \in 1 .. Len(s) : i < j => Past(k, i) < Past(k, j)
        /\ \A i, j \in 1 .. Len(s) : Past(k, i) < Past(k, j) => i < j
        /\ \A i \in 1 .. Len(s) : (Past(k, i) < k => i < k) /\ (k < Past(k, i) => i >= k)
        /\ \A j \in 1 .. Len(s) + 1 : j # k => \E i \in 1 .. Len(s) : Past(k, i) = j
    BY <1>1, Places, Zenon
  <2>2. \A i \in 1 .. Len(s) : w[Past(k, i)] = s[i]
    BY Zenon DEF With
  <2> QED
    BY <1>1, <2>1, <2>2, Zenon
<1>3. w[k] = t
  BY Zenon DEF With
<1>4. Elements(w) = Elements(s) \cup {t}
  <2>1. ASSUME NEW j \in DOMAIN w PROVE w[j] \in Elements(s) \cup {t}
    BY <1>2, <1>3, Zenon DEF Elements
  <2>2. Elements(s) \subseteq Elements(w) /\ t \in Elements(w)
    BY <1>1, <1>2, <1>3, ZenonT(60) DEF Elements
  <2> QED
    BY <2>1, <2>2, Zenon DEF Elements
<1>5. ASSUME NEW x, Sorted(w, x) PROVE Sorted(s, x) /\ t \notin Elements(s)
  <2>1. Sorted(s, x)
    BY <1>2, <1>5, ZenonT(60) DEF Sorted
  <2>2. ASSUME NEW i \in DOMAIN s PROVE s[i] # t
    <3>1. Past(k, i) < k \/ k < Past(k, i)
      BY <1>1, <1>2
    <3> QED
      BY <1>1, <1>2, <1>3, <1>5, <3>1, Zenon DEF Sorted
  <2> QED
    BY <2>1, <2>2, Zenon DEF Elements
<1>6. ASSUME NEW x, Sorted(s, x), t \notin Elements(s), Belongs(s, x, k, t) PROVE Sorted(w, x)
  <2>1. \A j \in DOMAIN w : x[w[j]] >= 0
    BY <1>2, <1>3, <1>6, ZenonT(60) DEF Sorted, Belongs
  <2>2. ASSUME NEW p \in DOMAIN w, NEW q \in DOMAIN w, p < q
        PROVE  w[p] # w[q] /\ x[w[p]] <= x[w[q]]
    <3>1. CASE p = k
      <4>1. q # k
        BY <1>1, <2>2, <3>1
      <4>2. PICK j \in DOMAIN s : Past(k, j) = q
        BY <1>2, <4>1, Zenon
      <4> QED
        BY <1>2, <1>3, <1>6, <2>2, <3>1, <4>2, Zenon DEF Elements, Belongs
    <3>2. CASE q = k
      <4>1. p # k
        BY <1>1, <2>2, <3>2
      <4>2. PICK i \in DOMAIN s : Past(k, i) = p
        BY <1>2, <4>1, Zenon
      <4> QED
        BY <1>2, <1>3, <1>6, <2>2, <3>2, <4>2, Zenon DEF Elements, Belongs
    <3>3. CASE p # k /\ q # k
      <4>1. PICK i \in DOMAIN s, j \in DOMAIN s : Past(k, i) = p /\ Past(k, j) = q
        BY <1>2, <3>3, Zenon
      <4>2. i < j /\ w[p] = s[i] /\ w[q] = s[j]
        BY <1>2, <2>2, <4>1, Zenon
      <4> QED
        BY <1>6, <4>2, Zenon DEF Sorted
    <3> QED
      BY <3>1, <3>2, <3>3, Zenon
  <2> QED
    BY <2>1, <2>2, Zenon DEF Sorted
<1> QED
  BY <1>4, <1>5, <1>6, Zenon

LEMMA Joined ==
  ASSUME NEW u \in Seq(Timers), NEW v \in Seq(Timers)
  PROVE  /\ u \o v \in Seq(Timers) /\ Len(u \o v) = Len(u) + Len(v)
         /\ \A x \in 1 .. Len(u) + Len(v) :
              (u \o v)[x] = IF x <= Len(u) THEN u[x] ELSE v[x - Len(u)]
<1>1. u \o v \in Seq(Timers) /\ Len(u \o v) = Len(u) + Len(v)
  OBVIOUS
<1>2. ASSUME NEW x \in 1 .. Len(u) + Len(v)
      PROVE  (u \o v)[x] = IF x <= Len(u) THEN u[x] ELSE v[x - Len(u)]
  OBVIOUS
<1> QED
  BY <1>1, <1>2, Zenon

\* What timer_del_locked leaves.
LEMMA Deletes ==
  ASSUME NEW t \in Timers, NEW s \in Seq(Timers)
  PROVE  \/ Without(s, t) = s /\ t \notin Elements(s)
         \/ \E k \in DOMAIN s : With(s, Without(s, t), k, t)
<1>1. CASE ~ \E i \in DOMAIN s : s[i] = t
  BY <1>1, Zenon DEF Without, Elements
<1>2. CASE \E i \in DOMAIN s : s[i] = t
  <2>1. PICK k \in DOMAIN s :
          s[k] = t /\ Without(s, t) = SubSeq(s, 1, k - 1) \o SubSeq(s, k + 1, Len(s))
    BY <1>2, Zenon DEF Without
  <2> DEFINE u == SubSeq(s, 1, k - 1)
             v == SubSeq(s, k + 1, Len(s))
             r == u \o v
  <2>2. Len(s) \in Nat /\ k \in 1 .. Len(s) /\ DOMAIN s = 1 .. Len(s)
    OBVIOUS
  <2>3. u \in Seq(Timers) /\ Len(u) = k - 1 /\ \A i \in 1 .. k - 1 : u[i] = s[i]
    BY <2>2
  <2>4. v \in Seq(Timers) /\ Len(v) = Len(s) - k /\ \A i \in 1 .. Len(s) - k : v[i] = s[k + i]
    BY <2>2, SMTT(30)
  <2> HIDE DEF u, v
  <2>5. r \in Seq(Timers) /\ Len(r) = Len(u) + Len(v)
    BY <2>3, <2>4, Joined, Zenon
  <2>6. \A i \in 1 .. Len(u) + Len(v) : r[i] = IF i <= Len(u) THEN u[i] ELSE v[i - Len(u)]
    BY <2>3, <2>4, Joined, Zenon
  <2> HIDE DEF r
  <2>7. Len(s) = Len(r) + 1 /\ Len(r) \in Nat
    <3>1. Len(u) = k - 1 /\ Len(v) = Len(s) - k
      BY <2>3, <2>4, Zenon
    <3>2. Len(r) = (k - 1) + (Len(s) - k)
      BY <2>5, <3>1, Zenon
    <3> QED
      BY <2>2, <3>2
  <2>8. ASSUME NEW i \in 1 .. Len(r) PROVE s[Past(k, i)] = r[i]
    <3>1. r[i] = IF i <= Len(u) THEN u[i] ELSE v[i - Len(u)]
      BY <2>5, <2>6, Zenon
    <3>2. CASE i < k
      <4>1. i <= Len(u) /\ i \in 1 .. k - 1
        BY <2>2, <2>3, <2>7, <3>2
      <4> QED
        BY <2>3, <3>1, <3>2, <4>1, Zenon DEF Past
    <3>3. CASE ~(i < k)
      <4>1. ~(i <= Len(u)) /\ i - Len(u) \in 1 .. Len(s) - k /\ k + (i - Len(u)) = i + 1
        BY <2>2, <2>3, <2>7, <3>3
      <4> QED
        BY <2>4, <3>1, <3>3, <4>1, Zenon DEF Past
    <3> QED
      BY <3>2, <3>3, Zenon
  <2>9. k \in 1 .. Len(r) + 1
    BY <2>2, <2>7
  <2>10. With(s, r, k, t)
    BY <2>1, <2>5, <2>7, <2>8, <2>9, Zenon DEF With
  <2> QED
    BY <2>1, <2>10, Zenon DEF r, u, v
<1> QED
  BY <1>1, <1>2, Zenon

\* What timer_mod_ns_locked makes of it.
LEMMA Inserts ==
  ASSUME NEW t \in Timers, NEW s \in Seq(Timers), NEW k \in 1 .. Len(s) + 1
  PROVE  With(Inserted(s, k, t), s, k, t)
<1> DEFINE u == SubSeq(s, 1, k - 1)
           v == SubSeq(s, k, Len(s))
           h == u \o <<t>>
           w == h \o v
<1>1. Inserted(s, k, t) = w
  BY Zenon DEF Inserted
<1>2. Len(s) \in Nat /\ k \in Nat /\ k >= 1 /\ k <= Len(s) + 1
  OBVIOUS
<1>3. u \in Seq(Timers) /\ Len(u) = k - 1 /\ \A i \in 1 .. k - 1 : u[i] = s[i]
  BY <1>2
<1>4. v \in Seq(Timers) /\ Len(v) = Len(s) - k + 1 /\ \A i \in 1 .. Len(v) : v[i] = s[k + i - 1]
  BY <1>2, SMTT(30)
<1> HIDE DEF u, v
<1>5. h \in Seq(Timers) /\ Len(h) = k /\ h[k] = t /\ \A i \in 1 .. k - 1 : h[i] = u[i]
  BY <1>2, <1>3
<1> HIDE DEF h
<1>6. w \in Seq(Timers) /\ Len(w) = Len(h) + Len(v)
  BY <1>4, <1>5, Joined, Zenon
<1>7. \A i \in 1 .. Len(h) + Len(v) : w[i] = IF i <= Len(h) THEN h[i] ELSE v[i - Len(h)]
  BY <1>4, <1>5, Joined, Zenon
<1> HIDE DEF w
<1>8. Len(w) = Len(s) + 1 /\ w[k] = t
  BY <1>2, <1>4, <1>5, <1>6, <1>7
<1>9. ASSUME NEW i \in 1 .. Len(s) PROVE w[Past(k, i)] = s[i]
  <2>1. CASE i < k
    <3>1. i \in 1 .. Len(h) + Len(v) /\ i <= Len(h) /\ i \in 1 .. k - 1
      BY <1>2, <1>4, <1>5, <2>1
    <3> QED
      BY <1>3, <1>5, <1>7, <2>1, <3>1, Zenon DEF Past
  <2>2. CASE ~(i < k)
    <3>1. PICK p \in Nat : p = i + 1
      OBVIOUS
    <3>2. /\ p \in 1 .. Len(h) + Len(v) /\ ~(p <= Len(h))
          /\ p - Len(h) \in 1 .. Len(v) /\ k + (p - Len(h)) - 1 = i
      BY <1>2, <1>4, <1>5, <2>2, <3>1
    <3>3. Past(k, i) = p
      BY <2>2, <3>1, Zenon DEF Past
    <3>4. w[p] = v[p - Len(h)]
      BY <1>7, <3>2, Zenon
    <3>5. v[p - Len(h)] = s[k + (p - Len(h)) - 1]
      BY <1>4, <3>2, Zenon
    <3> QED
      BY <3>2, <3>3, <3>4, <3>5, Zenon
  <2> QED
    BY <2>1, <2>2, Zenon
<1> QED
  BY <1>1, <1>6, <1>8, <1>9, Zenon DEF With

LEMMA SortedSame ==
  ASSUME NEW s \in Seq(Timers), NEW x, NEW y, Sorted(s, x), \A t \in Elements(s) : y[t] = x[t]
  PROVE  Sorted(s, y)
  BY Zenon DEF Sorted, Elements

LEMMA DeleteKeeps ==
  ASSUME NEW t \in Timers, NEW s \in Seq(Timers), NEW x, Sorted(s, x)
  PROVE  /\ Without(s, t) \in Seq(Timers) /\ Sorted(Without(s, t), x)
         /\ t \notin Elements(Without(s, t)) /\ Elements(Without(s, t)) = Elements(s) \ {t}
<1>1. CASE Without(s, t) = s /\ t \notin Elements(s)
  BY <1>1, Zenon
<1>2. ASSUME NEW k \in DOMAIN s, With(s, Without(s, t), k, t)
      PROVE  /\ Without(s, t) \in Seq(Timers) /\ Sorted(Without(s, t), x)
             /\ t \notin Elements(Without(s, t)) /\ Elements(Without(s, t)) = Elements(s) \ {t}
  <2>1. /\ Elements(s) = Elements(Without(s, t)) \cup {t}
        /\ Sorted(Without(s, t), x) /\ t \notin Elements(Without(s, t))
    BY <1>2, WithAndWithout, Zenon
  <2> QED
    BY <1>2, <2>1, Zenon DEF With
<1> QED
  BY <1>1, <1>2, Deletes, Zenon

LEMMA InsertKeeps ==
  ASSUME NEW t \in Timers, NEW s \in Seq(Timers), t \notin Elements(s),
         expire \in [Timers -> Int], Sorted(s, expire), NEW at \in Nat,
         NEW k \in 1 .. Len(s) + 1, Position(s, at, k)
  PROVE  /\ Inserted(s, k, t) \in Seq(Timers)
         /\ Sorted(Inserted(s, k, t), [expire EXCEPT ![t] = at])
         /\ Elements(Inserted(s, k, t)) = Elements(s) \cup {t}
<1> DEFINE x == [expire EXCEPT ![t] = at]
<1>1. x[t] = at /\ \A u \in Elements(s) : x[u] = expire[u] /\ expire[u] \in Int
  BY DEF Elements
<1> HIDE DEF x
<1>2. Sorted(s, x)
  BY <1>1, SortedSame, Zenon
<1>3. DOMAIN s = 1 .. Len(s) /\ Len(s) \in Nat /\ k \in Nat
  OBVIOUS
<1>4. ASSUME NEW i \in DOMAIN s, i < k PROVE x[s[i]] <= x[t]
  <2>1. i \in 1 .. k - 1
    BY <1>3, <1>4
  <2> QED
    BY <1>1, <2>1, Zenon DEF Position, Elements
<1>5. ASSUME NEW i \in DOMAIN s, i >= k PROVE x[t] <= x[s[i]]
  <2>1. k \in DOMAIN s /\ (k < i \/ k = i)
    BY <1>3, <1>5
  <2>2. expire[s[k]] > at /\ (k = i \/ expire[s[k]] <= expire[s[i]])
    BY <2>1, Zenon DEF Position, Sorted
  <2>3. expire[s[k]] \in Int /\ expire[s[i]] \in Int /\ x[s[i]] = expire[s[i]]
    BY <1>1, <2>1, Zenon DEF Elements
  <2>4. at <= expire[s[i]]
    BY <2>2, <2>3
  <2> QED
    BY <1>1, <2>3, <2>4, Zenon
<1>6. Belongs(s, x, k, t)
  <2>1. x[t] >= 0
    BY <1>1
  <2> QED
    BY <1>4, <1>5, <2>1, Zenon DEF Belongs
<1>7. With(Inserted(s, k, t), s, k, t)
  BY Inserts, Zenon
<1>8. Sorted(Inserted(s, k, t), x) /\ Elements(Inserted(s, k, t)) = Elements(s) \cup {t}
  BY <1>2, <1>6, <1>7, WithAndWithout, Zenon
<1> QED
  BY <1>7, <1>8, Zenon DEF With, x

LEMMA HeadLeaves ==
  ASSUME NEW s \in Seq(Timers), s # <<>>, NEW x, Sorted(s, x)
  PROVE  /\ Head(s) \in Elements(s) /\ Head(s) \in Timers
         /\ Tail(s) \in Seq(Timers) /\ Sorted(Tail(s), x)
         /\ Head(s) \notin Elements(Tail(s)) /\ Elements(s) = Elements(Tail(s)) \cup {Head(s)}
         /\ \A t \in Elements(s) : t = Head(s) \/ x[Head(s)] <= x[t]
<1>1. With(s, Tail(s), 1, Head(s))
  <2>1. /\ Tail(s) \in Seq(Timers) /\ Len(s) = Len(Tail(s)) + 1
        /\ 1 \in 1 .. Len(Tail(s)) + 1 /\ s[1] = Head(s)
    OBVIOUS
  <2>2. \A i \in 1 .. Len(Tail(s)) : s[Past(1, i)] = Tail(s)[i]
    BY DEF Past
  <2> QED
    BY <2>1, <2>2, Zenon DEF With
<1>2. Head(s) \in Timers /\ Head(s) \in Elements(s)
  BY DEF Elements
<1>3. ASSUME NEW t \in Elements(s) PROVE t = Head(s) \/ x[Head(s)] <= x[t]
  <2>1. PICK i \in DOMAIN s : t = s[i]
    BY Zenon DEF Elements
  <2>2. 1 \in DOMAIN s /\ s[1] = Head(s) /\ (i = 1 \/ 1 < i)
    OBVIOUS
  <2> QED
    BY <2>1, <2>2, Zenon DEF Sorted
<1> QED
  BY <1>1, <1>2, <1>3, WithAndWithout, ZenonT(60) DEF With

-----------------------------------------------------------------------------
(* The deadline a thread sleeps for.                                       *)

NoticeTypeOK ==
  /\ active \in [Lists -> Seq(Timers)] /\ expire \in [Timers -> Int]
  /\ until \in [Lists -> Int] /\ notified \in [Lists -> BOOLEAN]
  /\ rearm \in [Lists -> Lists \cup {Null}]

\* Every list holds the timers that are armed for it, in order.
ListsKept ==
  /\ \A l \in Lists : Sorted(active[l], expire) /\ \A t \in Elements(active[l]) : ListOf[t] = l
  /\ \A t \in Timers : expire[t] # -1 => t \in Elements(active[ListOf[t]])

\* qemu_clock_enable keeps the main thread in a handler.
MainWaits == ctl # "none" \/ buffered => pc[main] = "dispatch"

NoticeInv == QuietInv /\ NoticeTypeOK /\ ListsKept /\ MainWaits /\ DeadlineNoticed

LEMMA NoticeInit == Init => NoticeInv
<1> SUFFICES ASSUME Init PROVE NoticeInv
  OBVIOUS
<1>1. NoticeTypeOK
  BY DEF Init, NoticeTypeOK
<1>2. ListsKept
  <2>0. Elements(<<>>) = {}
    BY DEF Elements
  <2>1. \A l \in Lists : active[l] = <<>> /\ Elements(active[l]) = {}
    BY <2>0, Zenon DEF Init
  <2>2. Sorted(<<>>, expire)
    BY DEF Sorted
  <2>3. \A t \in Timers : expire[t] = -1
    BY Zenon DEF Init
  <2> QED
    BY <2>1, <2>2, <2>3, Zenon DEF ListsKept
<1>3. MainWaits /\ DeadlineNoticed
  <2>1. ctl = "none" /\ ~buffered /\ \A t \in Timers : expire[t] = -1
    BY Zenon DEF Init
  <2> QED
    BY <2>1, Zenon DEF MainWaits, DeadlineNoticed
<1> QED
  BY <1>1, <1>2, <1>3, QuietInit, Zenon DEF NoticeInv

\* One list changes, by one timer.
LEMMA ListChanges ==
  ASSUME NoticeTypeOK, ListsKept, TimersAssumption,
         NEW t \in Timers, NEW w \in Seq(Timers), NEW v \in Int,
         active' = [active EXCEPT ![ListOf[t]] = w], expire' = [expire EXCEPT ![t] = v],
         Sorted(w, expire'), t \in Elements(w) <=> v # -1,
         \A u \in Timers \ {t} : u \in Elements(w) <=> u \in Elements(active[ListOf[t]])
  PROVE  /\ active' \in [Lists -> Seq(Timers)] /\ expire' \in [Timers -> Int]
         /\ ListsKept'
<1>1. ListOf[t] \in Lists /\ \A u \in Timers : ListOf[u] \in Lists
  BY DEF TimersAssumption
<1>2. active' \in [Lists -> Seq(Timers)] /\ expire' \in [Timers -> Int]
  BY DEF NoticeTypeOK
<1>3. /\ active'[ListOf[t]] = w /\ \A l \in Lists : l # ListOf[t] => active'[l] = active[l]
      /\ expire'[t] = v /\ \A u \in Timers : u # t => expire'[u] = expire[u]
  BY <1>1 DEF NoticeTypeOK
<1>4. \A l \in Lists : Elements(active[l]) \subseteq Timers
  BY DEF NoticeTypeOK, Elements
<1>5. Elements(w) \subseteq Timers
  BY DEF Elements
<1>6. ASSUME NEW l \in Lists, l # ListOf[t] PROVE Sorted(active'[l], expire')
  <2>1. active[l] \in Seq(Timers) /\ Sorted(active[l], expire)
    BY DEF NoticeTypeOK, ListsKept
  <2>2. \A u \in Elements(active[l]) : expire'[u] = expire[u]
    BY <1>3, <1>4, <1>6, Zenon DEF ListsKept
  <2>3. Sorted(active[l], expire')
    BY <2>1, <2>2, SortedSame, Zenon
  <2>4. active'[l] = active[l]
    BY <1>3, <1>6, Zenon
  <2> QED
    BY <2>3, <2>4, Zenon
<1>7. ASSUME NEW l \in Lists, NEW u \in Elements(active'[l]) PROVE ListOf[u] = l
  <2>1. CASE l # ListOf[t]
    <3>1. active'[l] = active[l]
      BY <1>3, <2>1, Zenon
    <3>2. u \in Elements(active[l])
      BY <3>1, Zenon
    <3> QED
      BY <3>2, Zenon DEF ListsKept
  <2>2. CASE l = ListOf[t] /\ u # t
    <3>1. active'[l] = w
      BY <1>3, <2>2, Zenon
    <3>2. u \in Elements(w)
      BY <3>1, Zenon
    <3>3. u \in Elements(active[l])
      BY <1>5, <2>2, <3>2, Zenon
    <3> QED
      BY <3>3, Zenon DEF ListsKept
  <2> QED
    BY <2>1, <2>2, Zenon
<1>8. ASSUME NEW u \in Timers, expire'[u] # -1 PROVE u \in Elements(active'[ListOf[u]])
  BY <1>1, <1>3, <1>8, Zenon DEF ListsKept
<1>9. ASSUME NEW l \in Lists PROVE Sorted(active'[l], expire')
  <2>1. CASE l = ListOf[t]
    <3>1. active'[l] = w
      BY <1>3, <2>1, Zenon
    <3> QED
      BY <3>1, Zenon
  <2> QED
    BY <1>6, <2>1, Zenon
<1>10. (\A l \in Lists : Sorted(active[l], expire))'
  BY <1>9, Zenon DEF Sorted
<1> QED
  BY <1>2, <1>7, <1>8, <1>10, Zenon DEF ListsKept, Elements

LEMMA ModLists ==
  ASSUME NoticeInv, TimersAssumption, NEW l \in Lists, NEW t \in Timers, NEW at \in 0 .. MaxTime,
         Mod(l, t, at)
  PROVE  NoticeTypeOK' /\ ListsKept'
<1> DEFINE s == Without(active[ListOf[t]], t)
<1>1. /\ ListOf[t] \in Lists /\ active[ListOf[t]] \in Seq(Timers)
      /\ expire \in [Timers -> Int] /\ Sorted(active[ListOf[t]], expire)
  BY DEF TimersAssumption, NoticeInv, NoticeTypeOK, ListsKept
<1>2. /\ s \in Seq(Timers) /\ Sorted(s, expire) /\ t \notin Elements(s)
      /\ Elements(s) = Elements(active[ListOf[t]]) \ {t}
  BY <1>1, DeleteKeeps, Zenon
<1>3. PICK i \in 1 .. Len(s) + 1 :
         /\ Position(s, at, i)
         /\ active' = [active EXCEPT ![ListOf[t]] = Inserted(s, i, t)]
         /\ rearm' = [rearm EXCEPT ![l] = IF i = 1 THEN ListOf[t] ELSE Null]
  BY Zenon DEF Mod
<1>4. expire' = [expire EXCEPT ![t] = at] /\ UNCHANGED <<until, notified>>
  BY Zenon DEF Mod, runVars
<1>5. at \in Nat /\ at \in Int /\ at # -1
  BY DEF TimersAssumption
<1> HIDE DEF s
<1>6. /\ Inserted(s, i, t) \in Seq(Timers)
      /\ Sorted(Inserted(s, i, t), [expire EXCEPT ![t] = at])
      /\ Elements(Inserted(s, i, t)) = Elements(s) \cup {t}
  BY <1>1, <1>2, <1>3, <1>5, InsertKeeps, Zenon
<1>7. Sorted(Inserted(s, i, t), expire')
  BY <1>4, <1>6, Zenon
<1>8. \A u \in Timers \ {t} : u \in Elements(Inserted(s, i, t)) <=> u \in Elements(active[ListOf[t]])
  BY <1>2, <1>6, Zenon
<1>9. t \in Elements(Inserted(s, i, t)) <=> at # -1
  BY <1>5, <1>6, Zenon
<1>10. NoticeTypeOK /\ ListsKept
  BY Zenon DEF NoticeInv
<1>11. active' \in [Lists -> Seq(Timers)] /\ expire' \in [Timers -> Int] /\ ListsKept'
  BY <1>3, <1>4, <1>5, <1>6, <1>7, <1>8, <1>9, <1>10, ListChanges, Zenon
<1>12. rearm' \in [Lists -> Lists \cup {Null}]
  <2>1. rearm \in [Lists -> Lists \cup {Null}]
    BY <1>10, Zenon DEF NoticeTypeOK
  <2> QED
    BY <1>1, <1>3, <2>1
<1> QED
  BY <1>4, <1>10, <1>11, <1>12, Zenon DEF NoticeTypeOK

LEMMA DelLists ==
  ASSUME NoticeInv, TimersAssumption, NEW l \in Lists, NEW t \in Timers, Del(l, t)
  PROVE  NoticeTypeOK' /\ ListsKept'
<1> DEFINE s == Without(active[ListOf[t]], t)
<1>1. /\ ListOf[t] \in Lists /\ active[ListOf[t]] \in Seq(Timers)
      /\ expire \in [Timers -> Int] /\ Sorted(active[ListOf[t]], expire)
  BY DEF TimersAssumption, NoticeInv, NoticeTypeOK, ListsKept
<1>2. /\ s \in Seq(Timers) /\ Sorted(s, expire) /\ t \notin Elements(s)
      /\ Elements(s) = Elements(active[ListOf[t]]) \ {t}
  BY <1>1, DeleteKeeps, Zenon
<1>3. /\ active' = [active EXCEPT ![ListOf[t]] = s]
      /\ expire' = [expire EXCEPT ![t] = -1] /\ UNCHANGED <<until, notified, rearm>>
  BY DEF Del, runVars
<1> HIDE DEF s
<1>4. \A u \in Elements(s) : u \in Timers /\ u # t
  BY <1>2 DEF Elements
<1>5. \A u \in Elements(s) : expire'[u] = expire[u]
  BY <1>1, <1>3, <1>4, Zenon
<1>6. Sorted(s, expire')
  BY <1>2, <1>5, SortedSame, Zenon
<1>7. \A u \in Timers \ {t} : u \in Elements(s) <=> u \in Elements(active[ListOf[t]])
  BY <1>2, Zenon
<1>8. t \in Elements(s) <=> -1 # -1
  BY <1>2, Zenon
<1>9. NoticeTypeOK /\ ListsKept /\ -1 \in Int
  BY DEF NoticeInv
<1>10. active' \in [Lists -> Seq(Timers)] /\ expire' \in [Timers -> Int] /\ ListsKept'
  BY <1>2, <1>3, <1>6, <1>7, <1>8, <1>9, ListChanges, Zenon
<1> QED
  BY <1>3, <1>9, <1>10, Zenon DEF NoticeTypeOK

LEMMA RunTimerLists ==
  ASSUME NoticeInv, TimersAssumption, NEW l \in Lists, RunTimer(l)
  PROVE  NoticeTypeOK' /\ ListsKept'
<1> DEFINE s == Tail(active[l])
           t == Head(active[l])
<1>1. /\ active[l] \in Seq(Timers) /\ active[l] # <<>>
      /\ expire \in [Timers -> Int] /\ Sorted(active[l], expire)
  BY Zenon DEF NoticeInv, NoticeTypeOK, ListsKept, RunTimer, Expired
<1>2. /\ t \in Elements(active[l]) /\ t \in Timers
      /\ s \in Seq(Timers) /\ Sorted(s, expire)
      /\ t \notin Elements(s) /\ Elements(active[l]) = Elements(s) \cup {t}
  BY <1>1, HeadLeaves, Zenon
<1>3. /\ active' = [active EXCEPT ![l] = s]
      /\ expire' = [expire EXCEPT ![t] = -1] /\ UNCHANGED <<until, notified, rearm>>
  BY DEF RunTimer, runVars
<1> HIDE DEF s, t
<1>4. \A u \in Elements(s) : u \in Timers /\ u # t
  BY <1>2 DEF Elements
<1>5. \A u \in Elements(s) : expire'[u] = expire[u]
  BY <1>1, <1>3, <1>4, Zenon
<1>6. Sorted(s, expire')
  BY <1>2, <1>5, SortedSame, Zenon
<1>7. ListOf[t] = l
  BY <1>2, Zenon DEF NoticeInv, ListsKept
<1>8. \A u \in Timers \ {t} : u \in Elements(s) <=> u \in Elements(active[ListOf[t]])
  BY <1>2, <1>7, Zenon
<1>9. t \in Elements(s) <=> -1 # -1
  BY <1>2, Zenon
<1>10. NoticeTypeOK /\ ListsKept /\ -1 \in Int
  BY DEF NoticeInv
<1>11. active' \in [Lists -> Seq(Timers)] /\ expire' \in [Timers -> Int] /\ ListsKept'
  BY <1>2, <1>3, <1>6, <1>7, <1>8, <1>9, <1>10, ListChanges, Zenon
<1> QED
  BY <1>3, <1>10, <1>11, Zenon DEF NoticeTypeOK

\* A step that begins no sleep, arms no timer, does not enable the clock and drops no
\* notification of a thread that goes on sleeping.
LEMMA NoticeKept ==
  ASSUME DeadlineNoticed, TimersAssumption,
         enabled' => enabled,
         \A t \in Timers : expire'[t] = -1 \/ expire'[t] = expire[t],
         \A l \in Lists : pc'[l] = "sleep" =>
            /\ pc[l] = "sleep" /\ until'[l] = until[l]
            /\ notified[l] => notified'[l]
            /\ \A m \in Lists : rearm[m] = l => rearm'[m] = l \/ notified'[l]
            /\ ctl = "notify" /\ l \in left => (ctl' = "notify" /\ l \in left') \/ notified'[l]
  PROVE  DeadlineNoticed'
<1> SUFFICES ASSUME NEW t \in Timers, pc'[ListOf[t]] = "sleep", enabled', expire'[t] # -1
             PROVE  \/ until'[ListOf[t]] \in 0 .. expire'[t]
                    \/ notified'[ListOf[t]] \/ \E m \in Lists : rearm'[m] = ListOf[t]
                    \/ ctl' = "notify" /\ ListOf[t] \in left'
  BY Zenon DEF DeadlineNoticed
<1>1. ListOf[t] \in Lists /\ expire'[t] = expire[t]
  BY DEF TimersAssumption
<1>2. \/ until[ListOf[t]] \in 0 .. expire[t]
      \/ notified[ListOf[t]] \/ \E m \in Lists : rearm[m] = ListOf[t]
      \/ ctl = "notify" /\ ListOf[t] \in left
  BY <1>1, Zenon DEF DeadlineNoticed
<1> QED
  BY <1>1, <1>2, Zenon

\* timer_mod_ns: the new head is about to be announced, and behind a head that is due
\* no later the thread wakes up in time already.
LEMMA NoticeMod ==
  ASSUME NoticeInv, TimersAssumption, NEW l \in Lists, NEW t \in Timers, NEW at \in 0 .. MaxTime,
         Mod(l, t, at)
  PROVE  DeadlineNoticed'
<1> DEFINE s == Without(active[ListOf[t]], t)
<1>1. /\ ListOf[t] \in Lists /\ active[ListOf[t]] \in Seq(Timers)
      /\ expire \in [Timers -> Int] /\ Sorted(active[ListOf[t]], expire)
      /\ rearm \in [Lists -> Lists \cup {Null}]
  BY DEF TimersAssumption, NoticeInv, NoticeTypeOK, ListsKept
<1>2. /\ s \in Seq(Timers) /\ Sorted(s, expire) /\ t \notin Elements(s)
      /\ Elements(s) = Elements(active[ListOf[t]]) \ {t}
  BY <1>1, DeleteKeeps, Zenon
<1>3. PICK i \in 1 .. Len(s) + 1 :
         /\ Position(s, at, i)
         /\ rearm' = [rearm EXCEPT ![l] = IF i = 1 THEN ListOf[t] ELSE Null]
  BY Zenon DEF Mod
<1>4. /\ expire' = [expire EXCEPT ![t] = at] /\ rearm[l] = Null
      /\ UNCHANGED <<enabled, ctl, left, pc, until, notified>>
  BY Zenon DEF Mod, InHandler, Free, clockVars, runVars
<1>5. Null \notin Lists /\ \A u \in Timers : ListOf[u] \in Lists
  BY DEF TimersAssumption
<1> HIDE DEF s
<1>6. expire'[t] = at /\ \A u \in Timers : u # t => expire'[u] = expire[u]
  BY <1>1, <1>4, Zenon
<1>7. \A m \in Lists : m # l => rearm'[m] = rearm[m]
  BY <1>1, <1>3, Zenon
<1>8. ASSUME NEW u \in Timers, u # t, pc[ListOf[u]] = "sleep", enabled, expire[u] # -1
      PROVE  \/ until[ListOf[u]] \in 0 .. expire[u]
             \/ notified[ListOf[u]] \/ \E m \in Lists : rearm'[m] = ListOf[u]
             \/ ctl = "notify" /\ ListOf[u] \in left
  <2>1. \/ until[ListOf[u]] \in 0 .. expire[u]
        \/ notified[ListOf[u]] \/ \E m \in Lists : rearm[m] = ListOf[u]
        \/ ctl = "notify" /\ ListOf[u] \in left
    BY <1>8, Zenon DEF NoticeInv, DeadlineNoticed
  <2> QED
    BY <1>4, <1>5, <1>7, <2>1, Zenon
<1>9. ASSUME pc[ListOf[t]] = "sleep", enabled, i # 1
      PROVE  \/ until[ListOf[t]] \in 0 .. at
             \/ notified[ListOf[t]] \/ \E m \in Lists : rearm'[m] = ListOf[t]
             \/ ctl = "notify" /\ ListOf[t] \in left
  <2>1. 1 \in 1 .. i - 1 /\ 1 \in DOMAIN s
    BY <1>2, <1>3, <1>9
  <2>2. PICK u : u = s[1]
    BY Zenon
  <2>3. u \in Elements(s) /\ expire[u] <= at /\ expire[u] >= 0
    BY <1>2, <1>3, <2>1, <2>2, Zenon DEF Elements, Position, Sorted
  <2>4. u \in Timers
    BY <1>2, <2>1, <2>2
  <2>5. u # t /\ ListOf[u] = ListOf[t]
    BY <1>1, <1>2, <2>3, Zenon DEF NoticeInv, ListsKept
  <2>6. expire[u] \in Int /\ at \in Int
    BY <1>1, <2>4 DEF TimersAssumption
  <2>7. expire[u] # -1 /\ \A x \in 0 .. expire[u] : x \in 0 .. at
    BY <2>3, <2>6
  <2> QED
    BY <1>8, <1>9, <2>4, <2>5, <2>7, Zenon
<1>10. i = 1 => rearm'[l] = ListOf[t]
  BY <1>1, <1>3, Zenon
<1> SUFFICES ASSUME NEW u \in Timers, pc'[ListOf[u]] = "sleep", enabled', expire'[u] # -1
             PROVE  \/ until'[ListOf[u]] \in 0 .. expire'[u]
                    \/ notified'[ListOf[u]] \/ \E m \in Lists : rearm'[m] = ListOf[u]
                    \/ ctl' = "notify" /\ ListOf[u] \in left'
  BY Zenon DEF DeadlineNoticed
<1>11. CASE u # t
  BY <1>4, <1>6, <1>8, <1>11, Zenon
<1>12. CASE u = t
  BY <1>4, <1>6, <1>9, <1>10, <1>12, Zenon
<1> QED
  BY <1>11, <1>12, Zenon

\* timerlist_deadline_ns: the head is the first to be due.
LEMMA NoticeDeadline ==
  ASSUME NoticeInv, TimersAssumption, NEW l \in Lists, DeadlineEnabled(l) \/ DeadlineHead(l)
  PROVE  DeadlineNoticed'
<1>1. /\ UNCHANGED <<enabled, ctl, left, notified, rearm, active, expire>>
      /\ \A m \in Lists : m # l => pc'[m] = pc[m] /\ until'[m] = until[m]
  <2>1. pc \in [Lists -> {"deadline", "head", "sleep", "dispatch", "enabled", "run",
                          "callback", "set", "wake"}] /\ until \in [Lists -> Int]
    BY Zenon DEF NoticeInv, QuietInv, ProofTypeOK, NoticeTypeOK
  <2> QED
    BY <2>1, Zenon DEF DeadlineEnabled, DeadlineHead, Goes, clockVars, timerVars
<1>2. ASSUME DeadlineEnabled(l), enabled PROVE pc'[l] # "sleep"
  <2>1. pc[l] = "deadline" /\ pc' = [pc EXCEPT ![l] = IF Sees(l) THEN "head" ELSE "sleep"]
    BY <1>2, Zenon DEF DeadlineEnabled, Goes
  <2>2. buffered => pc[main] = "dispatch"
    BY Zenon DEF NoticeInv, QuietInv, StoreFirst, BusyIsWaitedFor, MainWaits
  <2>3. Sees(l)
    BY <1>2, <2>1, <2>2, Zenon DEF Sees
  <2> QED
    BY <2>1, <2>3 DEF NoticeInv, QuietInv, ProofTypeOK
<1>3. ASSUME NEW t \in Timers, ListOf[t] = l, DeadlineHead(l), expire[t] # -1
      PROVE  until'[l] \in 0 .. expire[t]
  <2>1. active[l] \in Seq(Timers) /\ Sorted(active[l], expire) /\ t \in Elements(active[l])
    BY <1>3, Zenon DEF NoticeInv, NoticeTypeOK, ListsKept
  <2>2. active[l] # <<>>
    BY <2>1 DEF Elements
  <2>3. /\ Head(active[l]) \in Timers /\ Head(active[l]) \in Elements(active[l])
        /\ t = Head(active[l]) \/ expire[Head(active[l])] <= expire[t]
    BY <2>1, <2>2, HeadLeaves, Zenon
  <2>4. PICK e : e = expire[Head(active[l])]
    BY Zenon
  <2>5. e >= 0 /\ (e = expire[t] \/ e <= expire[t]) /\ e \in Int /\ expire[t] \in Int
    <3>1. expire[Head(active[l])] >= 0
      BY <2>1, <2>3, Zenon DEF Sorted, Elements
    <3>2. expire[Head(active[l])] \in Int /\ expire[t] \in Int
      BY <2>3, Zenon DEF NoticeInv, NoticeTypeOK
    <3> QED
      BY <2>3, <2>4, <3>1, <3>2, Zenon
  <2>6. until'[l] = e
    BY <1>3, <2>2, <2>4, Zenon DEF DeadlineHead, NoticeInv, NoticeTypeOK
  <2>7. e \in 0 .. expire[t]
    BY <2>5
  <2> QED
    BY <2>6, <2>7, Zenon
<1> SUFFICES ASSUME NEW t \in Timers, pc'[ListOf[t]] = "sleep", enabled', expire'[t] # -1
             PROVE  \/ until'[ListOf[t]] \in 0 .. expire'[t]
                    \/ notified'[ListOf[t]] \/ \E m \in Lists : rearm'[m] = ListOf[t]
                    \/ ctl' = "notify" /\ ListOf[t] \in left'
  BY Zenon DEF DeadlineNoticed
<1>4. CASE ListOf[t] = l
  BY <1>1, <1>2, <1>3, <1>4, Zenon
<1>5. CASE ListOf[t] # l
  <2>1. ListOf[t] \in Lists
    BY DEF TimersAssumption
  <2> QED
    BY <1>1, <1>5, <2>1, Zenon DEF NoticeInv, DeadlineNoticed
<1> QED
  BY <1>4, <1>5, Zenon

\* A thread that goes from one place to another, where the other is not the sleep.
LEMMA NoticeMoves ==
  ASSUME NoticeInv, TimersAssumption, NEW l \in Lists, NEW from, NEW to, to # "sleep",
         Goes(l, from, to), from = "dispatch" /\ l = main => ctl = "none" /\ ~buffered,
         UNCHANGED <<enabled, buffered, left, rearm>>, ctl # "asleep" => ctl' = ctl, ctl' # "none" => ctl # "none",
         \A t \in Timers : expire'[t] = -1 \/ expire'[t] = expire[t],
         \A m \in Lists : m # l => until'[m] = until[m] /\ notified'[m] = notified[m]
  PROVE  MainWaits' /\ DeadlineNoticed'
<1>1. pc'[l] = to /\ pc[l] = from /\ \A m \in Lists : m # l => pc'[m] = pc[m]
  BY Zenon DEF NoticeInv, QuietInv, ProofTypeOK, Goes
<1>2. main \in Lists
  BY DEF TimersAssumption
<1>3. MainWaits'
  BY <1>1, <1>2, Zenon DEF NoticeInv, MainWaits
<1>4. ctl = "notify" => ctl' = "notify"
  OBVIOUS
<1>5. DeadlineNoticed
  BY Zenon DEF NoticeInv
<1>6. ASSUME NEW m \in Lists, pc'[m] = "sleep"
      PROVE  m # l /\ pc[m] = "sleep" /\ until'[m] = until[m] /\ notified'[m] = notified[m]
  BY <1>1, <1>6, Zenon
<1>7. DeadlineNoticed'
  BY <1>4, <1>5, <1>6, NoticeKept, Zenon
<1> QED
  BY <1>3, <1>7, Zenon

\* qemu_clock_enable and the passing of time: no thread moves.
LEMMA NoticeStays ==
  ASSUME NoticeInv, TimersAssumption, UNCHANGED <<pc, until, rearm, expire>>,
         enabled' => enabled,
         ctl' # "none" \/ buffered' => ctl # "none" \/ buffered \/ pc[main] = "dispatch",
         \A l \in Lists : /\ notified[l] => notified'[l]
                          /\ ctl = "notify" /\ l \in left =>
                                (ctl' = "notify" /\ l \in left') \/ notified'[l]
  PROVE  MainWaits' /\ DeadlineNoticed'
<1>1. DeadlineNoticed
  BY Zenon DEF NoticeInv
<1>2. MainWaits'
  BY Zenon DEF NoticeInv, MainWaits
<1>3. DeadlineNoticed'
  BY <1>1, NoticeKept, Zenon
<1> QED
  BY <1>2, <1>3, Zenon

LEMMA NoticeControl ==
  ASSUME NoticeInv, TimersAssumption, Tick \/ Disable \/ Drain \/ Wait \/ EnableNotify \/ UNCHANGED vars
  PROVE  MainWaits' /\ DeadlineNoticed'
<1>1. CASE Tick \/ UNCHANGED vars
  <2>1. UNCHANGED <<enabled, buffered, ctl, left, notified, pc, until, rearm, expire>>
    BY <1>1, Zenon DEF Tick, vars, clockVars, timerVars, runVars
  <2> QED
    BY <2>1, NoticeStays, Zenon
<1>2. CASE Disable
  BY <1>2, NoticeStays, Zenon DEF Disable, Free, timerVars, runVars
<1>3. CASE Drain
  BY <1>3, NoticeStays, Zenon DEF Drain, timerVars, runVars
<1>4. CASE Wait
  <2>1. ctl # "notify" /\ ctl # "none"
    BY <1>4 DEF Wait, WaitRead, WaitCas, WaitFutex, WaitWoken
  <2>2. UNCHANGED <<pc, until, rearm, expire, enabled, buffered, notified>>
    BY <1>4, Zenon DEF Wait, WaitRead, WaitCas, WaitFutex, WaitWoken, timerVars, runVars
  <2> QED
    BY <2>1, <2>2, NoticeStays, Zenon
<1>5. CASE EnableNotify
  <2>1. /\ ctl = "notify" /\ left' = left \ {AtList}
        /\ ctl' = IF left' = {} THEN "none" ELSE "notify"
        /\ notified' = [notified EXCEPT ![AtList] = TRUE]
        /\ UNCHANGED <<pc, until, rearm, expire, enabled, buffered>>
    BY <1>5, Zenon DEF EnableNotify, NextList, timerVars, runVars
  <2>2. notified \in [Lists -> BOOLEAN]
    BY Zenon DEF NoticeInv, NoticeTypeOK
  <2>3. ASSUME NEW l \in Lists
        PROVE  /\ notified[l] => notified'[l]
               /\ l \in left => (ctl' = "notify" /\ l \in left') \/ notified'[l]
    <3>1. CASE l = AtList
      BY <2>1, <2>2, <3>1, Zenon
    <3>2. CASE l # AtList
      BY <2>1, <2>2, <3>2, Zenon
    <3> QED
      BY <3>1, <3>2, Zenon
  <2>4. ctl # "none"
    BY <2>1
  <2> QED
    BY <2>1, <2>3, <2>4, NoticeStays, Zenon
<1> QED
  BY <1>1, <1>2, <1>3, <1>4, <1>5, Zenon

LEMMA NoticeEnable ==
  ASSUME NoticeInv, TimersAssumption, Enable
  PROVE  MainWaits' /\ DeadlineNoticed'
<1>1. ctl' = "notify" /\ left' = Lists /\ pc'[main] = "dispatch"
  BY Zenon DEF Enable
<1>2. \A t \in Timers : ListOf[t] \in Lists
  BY DEF TimersAssumption
<1> QED
  BY <1>1, <1>2, Zenon DEF MainWaits, DeadlineNoticed

LEMMA NoticeRearm ==
  ASSUME NoticeInv, TimersAssumption, NEW l \in Lists, Rearm(l)
  PROVE  MainWaits' /\ DeadlineNoticed'
<1>1. /\ notified' = [notified EXCEPT ![rearm[l]] = TRUE]
      /\ rearm' = [rearm EXCEPT ![l] = Null]
      /\ UNCHANGED <<pc, until, expire, enabled, buffered, ctl, left>>
  BY Zenon DEF Rearm, clockVars, runVars
<1>2. /\ notified \in [Lists -> BOOLEAN] /\ rearm \in [Lists -> Lists \cup {Null}]
      /\ DeadlineNoticed /\ MainWaits
  BY Zenon DEF NoticeInv, NoticeTypeOK
<1>3. ASSUME NEW m \in Lists PROVE notified[m] => notified'[m]
  BY <1>1, <1>2, Zenon
<1>4. ASSUME NEW m \in Lists, NEW k \in Lists, rearm[k] = m PROVE rearm'[k] = m \/ notified'[m]
  <2>1. CASE k = l
    BY <1>1, <1>2, <1>4, <2>1, Zenon
  <2>2. CASE k # l
    BY <1>1, <1>2, <1>4, <2>2, Zenon
  <2> QED
    BY <2>1, <2>2, Zenon
<1>5. MainWaits'
  BY <1>1, <1>2, Zenon DEF MainWaits
<1>6. DeadlineNoticed'
  BY <1>1, <1>2, <1>3, <1>4, NoticeKept, Zenon
<1> QED
  BY <1>5, <1>6, Zenon

LEMMA NoticeLoop ==
  ASSUME NoticeInv, TimersAssumption, NEW l \in Lists, Run(l) \/ PollOther(l)
  PROVE  MainWaits' /\ DeadlineNoticed'
<1>1. /\ notified \in [Lists -> BOOLEAN] /\ until \in [Lists -> Int]
      /\ expire \in [Timers -> Int] /\ DeadlineNoticed
  BY Zenon DEF NoticeInv, NoticeTypeOK
<1>2. CASE DeadlineEnabled(l) \/ DeadlineHead(l)
  <2>1. DeadlineNoticed'
    BY <1>2, NoticeDeadline, Zenon
  <2>2. pc[l] \in {"deadline", "head"} /\ UNCHANGED <<ctl, buffered>>
    BY <1>2, Zenon DEF DeadlineEnabled, DeadlineHead, Goes, clockVars
  <2>3. \A m \in Lists : m # l => pc'[m] = pc[m]
    BY <1>2, Zenon DEF DeadlineEnabled, DeadlineHead, Goes, NoticeInv, QuietInv, ProofTypeOK
  <2>4. main \in Lists
    BY DEF TimersAssumption
  <2>5. MainWaits'
    BY <2>2, <2>3, <2>4 DEF MainWaits, NoticeInv
  <2> QED
    BY <2>1, <2>5, Zenon
<1>3. CASE PollReturns(l) \/ PollOther(l)
  <2>1. /\ Goes(l, "sleep", "dispatch") /\ UNCHANGED <<enabled, buffered, left, rearm, ctl, expire>>
        /\ \A m \in Lists : m # l => until'[m] = until[m] /\ notified'[m] = notified[m]
    BY <1>1, <1>3, Zenon DEF PollReturns, PollOther, clockVars, timerVars
  <2>2. "dispatch" # "sleep"
    OBVIOUS
  <2> QED
    BY <2>1, <2>2, NoticeMoves, Zenon
<1>4. CASE RunReset(l) \/ CallbackReturns(l) \/ RunEnds(l)
  <2>1. UNCHANGED <<enabled, buffered, left, rearm, ctl, expire, until, notified>>
    BY <1>4, Zenon DEF RunReset, CallbackReturns, RunEnds, clockVars, timerVars, runVars
  <2>2. PICK from \in {"dispatch", "callback", "run"}, to \in {"enabled", "run", "set"} :
           Goes(l, from, to) /\ (from = "dispatch" => Free(l))
    BY <1>4 DEF RunReset, CallbackReturns, RunEnds
  <2>3. to # "sleep" /\ (from = "dispatch" /\ l = main => ctl = "none" /\ ~buffered)
    BY <2>2 DEF Free
  <2> QED
    BY <2>1, <2>2, <2>3, NoticeMoves, Zenon
<1>5. CASE RunEnabled(l) \/ EventSet(l)
  <2>1. UNCHANGED <<enabled, buffered, left, rearm, ctl, expire, until, notified>>
    BY <1>5, Zenon DEF RunEnabled, EventSet, clockVars, timerVars, runVars
  <2>2. PICK from \in {"enabled", "set"}, to \in {"run", "set", "wake", "deadline"} : Goes(l, from, to)
    BY <1>5 DEF RunEnabled, EventSet
  <2>3. to # "sleep" /\ from # "dispatch"
    BY <2>2
  <2> QED
    BY <2>1, <2>2, <2>3, NoticeMoves, Zenon
<1>6. CASE EventWake(l)
  <2>1. /\ UNCHANGED <<enabled, buffered, left, rearm, expire, until, notified>>
        /\ ctl' = (IF ctl = "asleep" /\ l = AtList THEN "woken" ELSE ctl)
        /\ Goes(l, "wake", "deadline")
    BY <1>6, Zenon DEF EventWake, timerVars, runVars
  <2>2. "deadline" # "sleep" /\ "wake" # "dispatch" /\ "asleep" # "none"
    OBVIOUS
  <2>3. (ctl # "asleep" => ctl' = ctl) /\ (ctl' # "none" => ctl # "none")
    BY <2>1, <2>2, Zenon
  <2> QED
    BY <2>1, <2>2, <2>3, NoticeMoves, Zenon
<1>7. CASE RunTimer(l)
  <2>1. /\ UNCHANGED <<enabled, buffered, left, rearm, ctl, until, notified>>
        /\ Goes(l, "run", "callback")
        /\ expire' = [expire EXCEPT ![Head(active[l])] = -1]
    BY <1>7, Zenon DEF RunTimer, clockVars, runVars
  <2>2. \A t \in Timers : expire'[t] = -1 \/ expire'[t] = expire[t]
    BY <1>1, <2>1, Zenon
  <2>3. "callback" # "sleep" /\ "run" # "dispatch"
    OBVIOUS
  <2> QED
    BY <2>1, <2>2, <2>3, NoticeMoves, Zenon
<1> QED
  BY <1>2, <1>3, <1>4, <1>5, <1>6, <1>7, NoticeRearm, Zenon DEF Run

LEMMA NoticeUse ==
  ASSUME NoticeInv, TimersAssumption, NEW l \in Lists, NEW t \in Timers, UseTimer(l, t)
  PROVE  NoticeTypeOK' /\ ListsKept' /\ MainWaits' /\ DeadlineNoticed'
<1>1. UNCHANGED <<pc, ctl, buffered>>
  BY Zenon DEF UseTimer, Mod, ModAnticipate, Del, clockVars
<1>2. MainWaits'
  BY <1>1, Zenon DEF NoticeInv, MainWaits
<1>3. ASSUME NEW at \in 0 .. MaxTime, Mod(l, t, at) PROVE NoticeTypeOK' /\ ListsKept' /\ DeadlineNoticed'
  BY <1>3, ModLists, NoticeMod, Zenon
<1>4. ASSUME Del(l, t) PROVE NoticeTypeOK' /\ ListsKept' /\ DeadlineNoticed'
  <2>1. /\ expire' = [expire EXCEPT ![t] = -1]
        /\ UNCHANGED <<enabled, ctl, left, pc, until, notified, rearm>>
    BY <1>4, Zenon DEF Del, clockVars, runVars
  <2>2. expire \in [Timers -> Int] /\ DeadlineNoticed
    BY Zenon DEF NoticeInv, NoticeTypeOK
  <2>3. \A u \in Timers : expire'[u] = -1 \/ expire'[u] = expire[u]
    BY <2>1, <2>2, Zenon
  <2>4. DeadlineNoticed'
    BY <2>1, <2>2, <2>3, NoticeKept, Zenon
  <2> QED
    BY <1>4, <2>4, DelLists, Zenon
<1> QED
  BY <1>2, <1>3, <1>4, Zenon DEF UseTimer, ModAnticipate

\* Every other step leaves the lists alone.
LEMMA ListsStay ==
  ASSUME NoticeInv, TimersAssumption,
         \/ Tick \/ Disable \/ Drain \/ Wait \/ EnableNotify \/ Enable \/ UNCHANGED vars
         \/ \E l \in Lists : Run(l) \/ PollOther(l)
  PROVE  NoticeTypeOK' /\ ListsKept'
<1>0. ASSUME UNCHANGED <<active, expire>> PROVE ListsKept'
  <2>1. ListsKept' <=> ListsKept
    BY <1>0, SMT DEF ListsKept, Sorted, Elements
  <2> QED
    BY <2>1, Zenon DEF NoticeInv
<1>1. NoticeTypeOK /\ ListsKept
  BY Zenon DEF NoticeInv
<1>2. ASSUME UNCHANGED <<active, expire, rearm>>, until' \in [Lists -> Int], notified' \in [Lists -> BOOLEAN]
      PROVE  NoticeTypeOK' /\ ListsKept'
  BY <1>0, <1>1, <1>2, Zenon DEF NoticeTypeOK
<1>3. CASE Tick \/ Disable \/ Drain \/ Wait \/ Enable \/ UNCHANGED vars
  <2>1. UNCHANGED <<active, expire, rearm, until, notified>>
    BY <1>3, Zenon DEF Tick, Disable, Drain, Wait, WaitRead, WaitCas, WaitFutex, WaitWoken, Enable,
                       vars, timerVars, runVars
  <2> QED
    BY <1>1, <1>2, <2>1, Zenon DEF NoticeTypeOK
<1>4. CASE EnableNotify
  <2>1. UNCHANGED <<active, expire, rearm, until>> /\ notified' = [notified EXCEPT ![AtList] = TRUE]
    BY <1>4, Zenon DEF EnableNotify, timerVars, runVars
  <2>2. notified' \in [Lists -> BOOLEAN]
    BY <1>1, <2>1, Zenon DEF NoticeTypeOK
  <2> QED
    BY <1>1, <1>2, <2>1, <2>2, Zenon DEF NoticeTypeOK
<1>5. ASSUME NEW l \in Lists, Run(l) \/ PollOther(l) PROVE NoticeTypeOK' /\ ListsKept'
  <2>1. CASE RunReset(l) \/ RunEnabled(l) \/ CallbackReturns(l) \/ RunEnds(l) \/ EventSet(l) \/ EventWake(l)
    <3>1. UNCHANGED <<active, expire, rearm, until, notified>>
      BY <2>1, Zenon DEF RunReset, RunEnabled, CallbackReturns, RunEnds, EventSet, EventWake,
                         timerVars, runVars
    <3> QED
      BY <1>1, <1>2, <3>1, Zenon DEF NoticeTypeOK
  <2>2. CASE DeadlineEnabled(l) \/ PollReturns(l) \/ PollOther(l)
    <3>1. UNCHANGED <<active, expire, rearm>> /\ until' = [until EXCEPT ![l] = -1]
      BY <2>2, Zenon DEF DeadlineEnabled, PollReturns, PollOther, timerVars
    <3>2. until' \in [Lists -> Int]
      BY <1>1, <3>1 DEF NoticeTypeOK
    <3>3. notified' = notified \/ notified' = [notified EXCEPT ![l] = FALSE]
      BY <2>2, Zenon DEF DeadlineEnabled, PollReturns, PollOther
    <3>4. notified' \in [Lists -> BOOLEAN]
      BY <1>1, <3>3, Zenon DEF NoticeTypeOK
    <3> QED
      BY <1>2, <3>1, <3>2, <3>4, Zenon
  <2>3. CASE DeadlineHead(l)
    <3>1. PICK e : e = IF active[l] = <<>> THEN -1 ELSE expire[Head(active[l])]
      BY Zenon
    <3>2. UNCHANGED <<active, expire, rearm, notified>> /\ until' = [until EXCEPT ![l] = e]
      BY <2>3, <3>1, Zenon DEF DeadlineHead, timerVars
    <3>3. active[l] # <<>> => Head(active[l]) \in Timers
      BY <1>1 DEF NoticeTypeOK
    <3>4. e \in Int
      BY <1>1, <3>1, <3>3 DEF NoticeTypeOK
    <3>5. until' \in [Lists -> Int]
      BY <1>1, <3>2, <3>4, Zenon DEF NoticeTypeOK
    <3> QED
      BY <1>1, <1>2, <3>2, <3>5, Zenon DEF NoticeTypeOK
  <2>4. CASE Rearm(l)
    <3>1. /\ notified' = [notified EXCEPT ![rearm[l]] = TRUE]
          /\ rearm' = [rearm EXCEPT ![l] = Null] /\ UNCHANGED <<active, expire, until>>
      BY <2>4, Zenon DEF Rearm, runVars
    <3>2. notified' \in [Lists -> BOOLEAN] /\ rearm' \in [Lists -> Lists \cup {Null}]
      BY <1>1, <3>1, Zenon DEF NoticeTypeOK
    <3> QED
      BY <1>0, <1>1, <3>1, <3>2, Zenon DEF NoticeTypeOK
  <2> QED
    BY <1>5, <2>1, <2>2, <2>3, <2>4, RunTimerLists, Zenon DEF Run
<1> QED
  BY <1>3, <1>4, <1>5, Zenon

LEMMA NoticeNext ==
  ASSUME NoticeInv, TimersAssumption, [Next]_vars
  PROVE  NoticeInv'
<1>1. QuietInv'
  BY QuietNext, Zenon DEF NoticeInv
<1>2. NoticeTypeOK' /\ ListsKept' /\ MainWaits' /\ DeadlineNoticed'
  BY ListsStay, NoticeControl, NoticeEnable, NoticeLoop, NoticeUse, Zenon DEF Next
<1> QED
  BY <1>1, <1>2, Zenon DEF NoticeInv

\* A thread asleep in poll() while the clock is enabled wakes up in time for every timer
\* that is armed on its list, or has been or is about to be notified, whatever the
\* number of timer lists and timers and whichever threads arm and delete them. The
\* deadline is that of the head of the list: no timer of the list is due before it.
THEOREM DeadlinesNoticed ==
  Spec => []DeadlineNoticed
<1>1. NoticeInv => DeadlineNoticed
  BY Zenon DEF NoticeInv
<1>2. NoticeInv /\ [Next]_vars => NoticeInv'
  BY NoticeNext, TimersAssumption
<1>3. QED
  BY NoticeInit, <1>1, <1>2, PTL DEF Spec

=============================================================================
