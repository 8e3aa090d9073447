----------------------------- MODULE Coroutine ------------------------------
(***************************************************************************)
(* Coroutines and coroutine queues: qemu-coroutine.c, the switch of        *)
(* coroutine-ucontext.c, and the CoQueue of qemu-coroutine-lock.c.         *)
(*                                                                         *)
(* One thread switches between its leader and the coroutines.  Each has a  *)
(* C stack of its own, of which the model keeps the calls of               *)
(* coroutine_swap: a coroutine that is not running is suspended inside the *)
(* innermost one, and on being resumed first runs the rest of it.  Whoever *)
(* has no such call in progress runs the program's own code, which may     *)
(* call any operation; the modules that use coroutines restrict that.      *)
(***************************************************************************)
EXTENDS Integers, Sequences, Functions

CONSTANTS
  Cos,          \* the coroutines that can be allocated
  Leader,       \* the thread's leader
  Null,         \* the null pointer
  Queues,       \* the CoQueues
  PoolMaxSize,  \* POOL_MAX_SIZE (64 in the code)
  MaxStack      \* bound: nobody is marked for restart while the calls of
                \* coroutine_swap nest this deep on some stack

ASSUME LeaderAssumption == Leader \notin Cos /\ Null \notin Cos \cup {Leader}
ASSUME PoolAssumption == PoolMaxSize \in Nat /\ MaxStack \in Nat

VARIABLES
  current,      \* the running coroutine (or Leader)
  status,       \* "free", "pooled", "live", or "dead" (terminated, not deleted)
  caller,       \* co->caller
  wakeup,       \* co->co_queue_wakeup
  entries,      \* the entries of each CoQueue
  pool,         \* the free pool
  stack         \* the calls of coroutine_swap in progress on each stack, innermost first

coVars == <<current, status, caller, wakeup, entries, pool, stack>>

All == Cos \cup {Leader}

\* A call of coroutine_swap: its parameter to, whether qemu_coroutine_switch has
\* returned (the rest is run_restart and what follows), and what it returned.
Frames == [to : All, back : BOOLEAN, ret : {"YIELD", "TERMINATE"}]

TypeOK ==
  /\ current \in All
  /\ status \in [Cos -> {"free", "pooled", "live", "dead"}]
  /\ caller \in [All -> All \cup {Null}]
  /\ wakeup \in [All -> Seq(Cos)]
  /\ entries \in [Queues -> Seq(Cos)]
  /\ pool \in Seq(Cos) /\ Len(pool) <= PoolMaxSize
  /\ stack \in [All -> Seq(Frames)]

Init ==
  /\ current = Leader
  /\ status = [c \in Cos |-> "free"]
  /\ caller = [x \in All |-> Null]
  /\ wakeup = [x \in All |-> <<>>]
  /\ entries = [q \in Queues |-> <<>>]
  /\ pool = <<>>
  /\ stack = [x \in All |-> <<>>]

-----------------------------------------------------------------------------
(* Switching.                                                              *)

\* The program's own code runs on x's stack.
Running(x) == current = x /\ stack[x] = <<>>

\* x's stack when it is switched to: the innermost coroutine_swap goes on after
\* qemu_coroutine_switch. (A coroutine without one starts its entry function.)
Resumed(s, action) ==
  IF s = <<>> THEN <<>>
  ELSE <<[to |-> Head(s).to, back |-> TRUE, ret |-> action]>> \o Tail(s)

\* coroutine_swap(from, to) up to the switch, with from's stack being s.
Swap(from, to, s) ==
  /\ current' = to
  /\ stack' = [stack EXCEPT ![from] = <<[to |-> to, back |-> FALSE, ret |-> "YIELD"]>> \o s,
                            ![to] = Resumed(@, "YIELD")]

\* qemu_coroutine_enter, with x's stack being s.
EnterFrom(x, c, s) ==
  /\ caller' = [caller EXCEPT ![c] = x]
  /\ Swap(x, c, s)

\* Mutant of YieldFrom: self->caller is left as it is.
YieldFromKeepsCaller(c) ==
  /\ UNCHANGED caller
  /\ Swap(c, caller[c], stack[c])

\* qemu_coroutine_yield.
YieldFrom(c) ==
  /\ caller' = [caller EXCEPT ![c] = Null]
  /\ Swap(c, caller[c], stack[c])

\* The coroutines that have been entered and have neither yielded nor terminated.
Active(x) == x = Leader \/ caller[x] # Null

\* x waits in some queue or is marked for restart.
Queued(c) ==
  \/ \E q \in Queues : c \in Range(entries[q])
  \/ \E x \in All : c \in Range(wakeup[x])

-----------------------------------------------------------------------------
(* The operations.                                                         *)

\* qemu_coroutine_create: from the pool, or a new one.
Create(x, c) ==
  /\ Running(x)
  /\ IF pool # <<>> THEN c = Head(pool) ELSE status[c] = "free"
  /\ pool' = IF pool # <<>> THEN Tail(pool) ELSE pool
  /\ status' = [status EXCEPT ![c] = "live"]
  /\ wakeup' = [wakeup EXCEPT ![c] = <<>>]
  /\ UNCHANGED <<current, caller, entries, stack>>

\* qemu_coroutine_enter, of a coroutine that yielded without queueing itself or
\* that has not started.
Enter(x, c) ==
  /\ Running(x)
  /\ status[c] = "live" /\ ~Active(c) /\ ~Queued(c)
  /\ EnterFrom(x, c, stack[x])
  /\ UNCHANGED <<status, wakeup, entries, pool>>

\* qemu_coroutine_yield.
Yield(c) ==
  /\ c # Leader /\ Running(c)
  /\ YieldFrom(c)
  /\ UNCHANGED <<status, wakeup, entries, pool>>

\* The entry function returns: coroutine_trampoline switches to the caller.
Terminate(c) ==
  /\ c # Leader /\ Running(c)
  /\ status' = [status EXCEPT ![c] = "dead"]
  /\ current' = caller[c]
  /\ stack' = [stack EXCEPT ![caller[c]] = Resumed(@, "TERMINATE")]
  /\ UNCHANGED <<caller, wakeup, entries, pool>>

\* One turn of the loop of qemu_co_queue_run_restart, called by coroutine_swap
\* after the switch: the next marked coroutine is entered.
RunRestart(x) ==
  /\ current = x /\ stack[x] # <<>>
  /\ LET to == Head(stack[x]).to IN
     /\ wakeup[to] # <<>>
     /\ wakeup' = [wakeup EXCEPT ![to] = Tail(@)]
     /\ EnterFrom(x, Head(wakeup[to]), stack[x])
  /\ UNCHANGED <<status, entries, pool>>

\* pool_size < POOL_MAX_SIZE
PoolHasRoom == Len(pool) < PoolMaxSize

\* coroutine_delete: into the pool if there is room.
Delete(c) ==
  /\ caller' = [caller EXCEPT ![c] = Null]
  /\ IF PoolHasRoom
     THEN pool' = <<c>> \o pool /\ status' = [status EXCEPT ![c] = "pooled"]
     ELSE status' = [status EXCEPT ![c] = "free"] /\ UNCHANGED pool

\* Mutant of AllRestarted: the loop of qemu_co_queue_run_restart ends early.
AllRestartedEarly(to) == TRUE

\* The loop of qemu_co_queue_run_restart is over.
AllRestarted(to) == wakeup[to] = <<>>

\* The end of coroutine_swap: what terminated is deleted.
SwapEnd(x) ==
  /\ current = x /\ stack[x] # <<>>
  /\ LET f == Head(stack[x]) IN
     /\ AllRestarted(f.to)
     /\ stack' = [stack EXCEPT ![x] = Tail(@)]
     /\ IF f.ret = "TERMINATE" THEN Delete(f.to) ELSE UNCHANGED <<status, caller, pool>>
  /\ UNCHANGED <<current, wakeup, entries>>

\* qemu_co_queue_wait.
QueueWait(c, q) ==
  /\ c # Leader /\ Running(c)
  /\ entries' = [entries EXCEPT ![q] = Append(@, c)]
  /\ YieldFrom(c)
  /\ UNCHANGED <<status, wakeup, pool>>

\* Mutant of Mark: what is marked for restart stays in the queue.
MarkKeepsEntries(c, q, n) ==
  /\ \A x \in All : Len(stack[x]) < MaxStack
  /\ wakeup' = [wakeup EXCEPT ![c] = @ \o SubSeq(entries[q], 1, n)]
  /\ UNCHANGED entries

\* qemu_co_queue_do_restart, which marks the first n of the queue.
Mark(c, q, n) ==
  /\ \A x \in All : Len(stack[x]) < MaxStack
  /\ wakeup' = [wakeup EXCEPT ![c] = @ \o SubSeq(entries[q], 1, n)]
  /\ entries' = [entries EXCEPT ![q] = SubSeq(@, n + 1, Len(@))]

\* Mutant of HasWaiters: a waiter is seen only if it is not the only one.
HasTwoWaiters(q) == Len(entries[q]) > 1

\* The queue is not empty.
HasWaiters(q) == entries[q] # <<>>

\* Mutant of HowMany: single is taken to be true.
HowManyOne(q, single) == 1

\* How many qemu_co_queue_do_restart marks.
HowMany(q, single) == IF single THEN 1 ELSE Len(entries[q])

\* qemu_co_queue_next and qemu_co_queue_restart_all.
QueueNext(c, q) ==
  /\ c # Leader /\ Running(c)
  /\ HasWaiters(q)
  /\ Mark(c, q, HowMany(q, TRUE))
  /\ UNCHANGED <<current, status, caller, pool, stack>>

QueueRestartAll(c, q) ==
  /\ c # Leader /\ Running(c)
  /\ HasWaiters(q)
  /\ Mark(c, q, HowMany(q, FALSE))
  /\ UNCHANGED <<current, status, caller, pool, stack>>

\* qemu_co_enter_next.
EnterNext(x, q) ==
  /\ Running(x)
  /\ entries[q] # <<>>
  /\ entries' = [entries EXCEPT ![q] = Tail(@)]
  /\ EnterFrom(x, Head(entries[q]), stack[x])
  /\ UNCHANGED <<status, wakeup, pool>>

CoreStep == \E x \in All : RunRestart(x) \/ SwapEnd(x)

Next ==
  \/ CoreStep
  \/ \E x \in All, c \in Cos : Create(x, c) \/ Enter(x, c)
  \/ \E c \in Cos : Yield(c) \/ Terminate(c)
  \/ \E c \in Cos, q \in Queues : QueueWait(c, q) \/ QueueNext(c, q) \/ QueueRestartAll(c, q)
  \/ \E x \in All, q \in Queues : EnterNext(x, q)

Spec == Init /\ [][Next]_coVars

\* The thread runs, and a coroutine that runs again and again also yields.
FairSpec ==
  /\ Spec
  /\ WF_coVars(CoreStep)
  /\ \A c \in Cos : SF_coVars(Yield(c))

-----------------------------------------------------------------------------
\* Control returns to where it came from: a coroutine that has been entered is
\* what the innermost coroutine_swap of its caller has switched to, the running
\* one has been entered, and everybody else that is waiting to be returned to has
\* entered somebody. So the callers form a chain from the running coroutine to the
\* leader, and "Co-routine is yielding to no one" is never reached.
CallersWait ==
  /\ \A c \in Cos : status[c] = "live" /\ caller[c] # Null =>
       LET s == stack[caller[c]] IN s # <<>> /\ Head(s).to = c /\ ~Head(s).back
  /\ current # Leader => status[current] = "live" /\ caller[current] # Null
  /\ \A x \in All : x # current /\ Active(x) /\ (x \in Cos => status[x] = "live") =>
       \E c \in Cos : status[c] = "live" /\ caller[c] = x

\* A coroutine is in at most one queue or wake-up list (it has one co_queue_next),
\* once, and it is suspended there, so that neither qemu_co_queue_run_restart nor
\* qemu_co_enter_next meets "Co-routine re-entered recursively".
QueuedOnce ==
  /\ \A x \in All : IsInjective(wakeup[x])
  /\ \A q \in Queues : IsInjective(entries[q])
  /\ \A x, y \in All : x # y => Range(wakeup[x]) \cap Range(wakeup[y]) = {}
  /\ \A p, q \in Queues : p # q => Range(entries[p]) \cap Range(entries[q]) = {}
  /\ \A x \in All, q \in Queues : Range(wakeup[x]) \cap Range(entries[q]) = {}
  /\ \A c \in Cos : Queued(c) => status[c] = "live" /\ caller[c] = Null

\* Nothing marked for restart is forgotten: a coroutine is given back, to the pool
\* or to the heap, after everything it has marked has been entered.
GivenBackClean ==
  /\ TypeOK
  /\ \A c \in Cos : status[c] \in {"pooled", "free"} => wakeup[c] = <<>> /\ stack[c] = <<>>
  /\ Range(pool) = {c \in Cos : status[c] = "pooled"}
  /\ IsInjective(pool)

\* "Coroutines that should be woken up when we yield or terminate" (coroutine_int.h,
\* of co_queue_wakeup): the list that qemu_co_queue_run_restart reads in coroutine_swap
\* is that of a coroutine that has not been given back to the pool or the heap.
RestartReadsCoroutine ==
  stack[current] # <<>> =>
    LET to == Head(stack[current]).to IN to # Leader => status[to] \in {"live", "dead"}

\* Everything marked for restart is entered, if whoever runs goes on to yield,
\* terminate or return to its caller.
MarkedRuns ==
  \A c \in Cos : (\E x \in All : c \in Range(wakeup[x])) ~> (current = c)

=============================================================================
