-------------------------- MODULE ThreadPoolProofs --------------------------
(***************************************************************************)
(* Proofs about ThreadPool, for any set of elements and any number of      *)
(* workers, threads and nested callbacks.                                  *)
(***************************************************************************)
EXTENDS ThreadPoolElemProofs, FiniteSetTheorems

\* pending_cancellations is the number of calls of thread_pool_cancel asleep.
CancelCounted ==
  cancellations = IF mpc \in {"cancelAsleep", "cancelWoken"} THEN 1 ELSE 0

\* thread_pool_free has begun: nothing is listed and no thread is to be created.
StoppingClean ==
  /\ stopping <=> mpc \in {"freeAsleep", "freeWoken", "freed"}
  /\ stopping => all = <<>> /\ calls = <<>> /\ new = 0

\* The inductive invariant.
IInv ==
  /\ ThreadsAccountedFor /\ TokensMatchRequests /\ QueueHasThread
  /\ ElementsOwned /\ CompletionNoticed
  /\ CallsDone /\ BusyHasElem /\ ScanOnce /\ CancelCounted /\ StoppingClean

-----------------------------------------------------------------------------
(* Counting threads.                                                       *)

\* How many workers are at one of the places, if f says where they are.
Count(f, places) == Cardinality({v \in Workers : f[v] \in places})

\* 1 if x is one of the places.
Is(x, places) == IF x \in places THEN 1 ELSE 0

AliveAt == {"created", "wait", "token", "timeout", "busy", "done"}
IdleAt == {"wait", "token", "timeout"}
CreatedAt == {"created"}
TokenAt == {"token"}
NoneAt == {"none"}
PostAt == {"post"}

\* ThreadsAccountedFor and TokensMatchRequests.
CountInv ==
  /\ TypeOK
  /\ cur = new + Count(wpc, AliveAt)
  /\ idle = Count(wpc, IdleAt)
  /\ pending = Count(wpc, CreatedAt)
  /\ cur <= MaxThreads
  /\ mpc = "freed" => cur = 0
  /\ ~stopping => sem + Count(wpc, TokenAt) + Is(mpc, PostAt) = Len(requests)

LEMMA CountForm == (ThreadsAccountedFor /\ TokensMatchRequests) <=> CountInv
<1> SUFFICES ASSUME TypeOK
             PROVE  (ThreadsAccountedFor /\ TokensMatchRequests) <=> CountInv
  BY Zenon DEF ThreadsAccountedFor, CountInv
<1>1. Workers \ At("none") = {v \in Workers : wpc[v] \in AliveAt}
  BY Zenon DEF TypeOK, At, AliveAt, WorkerStates
<1>2. At("wait") \cup At("token") \cup At("timeout") = {v \in Workers : wpc[v] \in IdleAt}
  BY Zenon DEF At, IdleAt
<1>3. At("created") = {v \in Workers : wpc[v] \in CreatedAt}
  BY Zenon DEF At, CreatedAt
<1>4. At("token") = {v \in Workers : wpc[v] \in TokenAt}
  BY Zenon DEF At, TokenAt
<1> QED
  BY <1>1, <1>2, <1>3, <1>4, Zenon
  DEF ThreadsAccountedFor, TokensMatchRequests, CountInv, Count, Is, PostAt

\* A worker moves.
LEMMA Moves ==
  ASSUME NEW f \in [Workers -> WorkerStates], NEW w \in Workers, NEW x \in WorkerStates,
         NEW places, NEW g, g = [f EXCEPT ![w] = x]
  PROVE  /\ Count(f, places) \in Nat /\ Count(g, places) \in Nat
         /\ f[w] \in places => Count(f, places) > 0
         /\ Count(g, places) = Count(f, places) + Is(x, places) - Is(f[w], places)
<1> DEFINE S == {v \in Workers : f[v] \in places}
           T == {v \in Workers : g[v] \in places}
<1>1. IsFiniteSet(S) /\ IsFiniteSet(T) /\ S \subseteq Workers
  BY WorkersAssumption, FS_Subset, Zenon
<1>2. Cardinality(S) \in Nat /\ Cardinality(T) \in Nat
  BY <1>1, FS_CardinalityType, Zenon
<1>3. f[w] \in places => Cardinality(S) > 0
  <2>1. f[w] \in places => w \in S
    BY Zenon
  <2> QED
    BY <1>1, <1>2, <2>1, FS_EmptySet
<1>4. Count(f, places) = Cardinality(S) /\ Count(g, places) = Cardinality(T)
  BY Zenon DEF Count
<1>5. /\ (x \in places <=> f[w] \in places) => T = S
      /\ x \in places /\ f[w] \notin places => T = S \cup {w} /\ w \notin S
      /\ x \notin places /\ f[w] \in places => T = S \ {w} /\ w \in S
  BY Zenon
<1> HIDE DEF S, T
<1>6. CASE x \in places <=> f[w] \in places
  BY <1>2, <1>3, <1>4, <1>5, <1>6 DEF Is
<1>7. CASE x \in places /\ f[w] \notin places
  <2>1. Cardinality(T) = Cardinality(S) + 1
    BY <1>1, <1>5, <1>7, FS_AddElement, Zenon
  <2> QED
    BY <1>2, <1>3, <1>4, <1>7, <2>1 DEF Is
<1>8. CASE x \notin places /\ f[w] \in places
  <2>1. Cardinality(T) = Cardinality(S) - 1
    BY <1>1, <1>5, <1>8, FS_RemoveElement, Zenon
  <2> QED
    BY <1>2, <1>3, <1>4, <1>8, <2>1 DEF Is
<1> QED
  BY <1>6, <1>7, <1>8, Zenon

\* Nothing is left in the lists when the pool is freed.
LEMMA StoppingIdle == ASSUME IInv, stopping PROVE requests = <<>>
<1>1. \A e \in Elems : state[e] = "FREE"
  <2>1. Range(all) = {} /\ Range(calls) = {}
    BY DEF IInv, StoppingClean, Range
  <2> QED
    BY <2>1, Zenon DEF IInv, ElementsOwned
<1>2. \A e \in Elems : e \notin Range(requests)
  BY <1>1, Zenon DEF IInv, ElementsOwned
<1>3. requests \in Seq(Elems)
  BY Zenon DEF IInv, ThreadsAccountedFor, TypeOK
<1> QED
  BY <1>2, <1>3 DEF Range

\* The counts after worker w has gone from its place in f to x.
Moved(f, g, w, x) ==
  /\ Count(f, AliveAt) \in Nat /\ Count(f, IdleAt) \in Nat
  /\ Count(f, CreatedAt) \in Nat /\ Count(f, TokenAt) \in Nat
  /\ Count(g, AliveAt) \in Nat /\ Count(g, IdleAt) \in Nat
  /\ Count(g, CreatedAt) \in Nat /\ Count(g, TokenAt) \in Nat
  /\ Count(g, AliveAt) = Count(f, AliveAt) + Is(x, AliveAt) - Is(f[w], AliveAt)
  /\ Count(g, IdleAt) = Count(f, IdleAt) + Is(x, IdleAt) - Is(f[w], IdleAt)
  /\ Count(g, CreatedAt)
       = Count(f, CreatedAt) + Is(x, CreatedAt) - Is(f[w], CreatedAt)
  /\ Count(g, TokenAt) = Count(f, TokenAt) + Is(x, TokenAt) - Is(f[w], TokenAt)
  /\ f[w] # "none" => Count(f, AliveAt) > 0
  /\ f[w] \in IdleAt => Count(f, IdleAt) > 0
  /\ f[w] = "created" => Count(f, CreatedAt) > 0
  /\ f[w] = "token" => Count(f, TokenAt) > 0

LEMMA AllMoved ==
  ASSUME NEW f \in [Workers -> WorkerStates], NEW w \in Workers, NEW x \in WorkerStates,
         NEW g, g = [f EXCEPT ![w] = x]
  PROVE  g \in [Workers -> WorkerStates] /\ Moved(f, g, w, x)
<1>1. g \in [Workers -> WorkerStates]
  BY Zenon
<1>2. ASSUME NEW p
      PROVE  /\ Count(f, p) \in Nat /\ Count(g, p) \in Nat
             /\ f[w] \in p => Count(f, p) > 0
             /\ Count(g, p) = Count(f, p) + Is(x, p) - Is(f[w], p)
  BY Moves, ZenonT(60)
<1>3. f[w] # "none" => f[w] \in AliveAt
  BY Zenon DEF AliveAt, WorkerStates
<1>4. /\ f[w] = "created" => f[w] \in CreatedAt
      /\ f[w] = "token" => f[w] \in TokenAt
  BY Zenon DEF CreatedAt, TokenAt
<1>5. /\ f[w] # "none" => Count(f, AliveAt) > 0
      /\ f[w] \in IdleAt => Count(f, IdleAt) > 0
      /\ f[w] = "created" => Count(f, CreatedAt) > 0
      /\ f[w] = "token" => Count(f, TokenAt) > 0
  BY <1>2, <1>3, <1>4, Zenon
<1> QED
  BY <1>1, <1>2, <1>5, Zenon DEF Moved

\* The part of the invariant that the actions' effects on the counters concern.
SideInv == QueueHasThread /\ CancelCounted /\ StoppingClean

\* A worker that has run before goes to another place, or leaves.
WorkerGoes(w, x) ==
  /\ wpc[w] \notin {"none", "created"} /\ x # "created"
  /\ wpc' = [wpc EXCEPT ![w] = x]
  /\ cur' = cur - Is(x, NoneAt)
  /\ idle' = idle + Is(x, IdleAt) - Is(wpc[w], IdleAt)
  /\ mpc' = mpc \/ (mpc' \in {"freeWoken", "cancelWoken"} /\ mpc # "post")
  /\ ~stopping => sem' + Is(x, TokenAt) + Len(requests)
                    = sem + Is(wpc[w], TokenAt) + Len(requests')
  /\ state' \in [Elems -> {"FREE", "QUEUED", "ACTIVE", "DONE", "CANCELED"}]
  /\ requests' \in Seq(Elems) /\ sem' \in Nat /\ notifier' \in BOOLEAN
  /\ wreq' \in [Workers -> Elems \cup {NoElem}]
  /\ UNCHANGED <<hasCb, all, new, pending, bh, cancellations, stopping, calls, rest, target>>

LEMMA WorkerCounts ==
  ASSUME CountInv, NEW w \in Workers, NEW x \in WorkerStates, WorkerGoes(w, x)
  PROVE  CountInv' /\ mpc # "freed"
<1>1. wpc' \in [Workers -> WorkerStates] /\ Moved(wpc, wpc', w, x)
  BY AllMoved, Zenon DEF CountInv, TypeOK, WorkerGoes
<1>2. wpc[w] \in WorkerStates \ {"none", "created"} /\ x # "created"
  BY Zenon DEF CountInv, TypeOK, WorkerGoes
<1>3. /\ Is(x, AliveAt) = 1 - Is(x, NoneAt) /\ Is(wpc[w], AliveAt) = 1
      /\ Is(x, CreatedAt) = 0 /\ Is(wpc[w], CreatedAt) = 0
      /\ Is(x, NoneAt) \in {0, 1} /\ Is(x, IdleAt) \in {0, 1} /\ Is(x, TokenAt) \in {0, 1}
      /\ Is(wpc[w], IdleAt) \in {0, 1} /\ Is(wpc[w], TokenAt) \in {0, 1}
      /\ Is(mpc, PostAt) \in {0, 1}
  BY <1>2 DEF Is, AliveAt, NoneAt, CreatedAt, WorkerStates
<1>4. /\ Count(wpc', AliveAt) = Count(wpc, AliveAt) - Is(x, NoneAt)
      /\ Count(wpc, AliveAt) \in Nat /\ Count(wpc, AliveAt) > 0
      /\ Count(wpc', AliveAt) \in Nat
      /\ Count(wpc', CreatedAt) = Count(wpc, CreatedAt)
  BY <1>1, <1>2, <1>3 DEF Moved
<1>5. cur \in Nat /\ new \in Nat /\ cur > 0
  BY <1>4 DEF CountInv, TypeOK
<1>6. mpc # "freed" /\ mpc' # "freed"
  BY <1>5 DEF CountInv, WorkerGoes
<1>7. cur' = new' + Count(wpc', AliveAt) /\ cur' \in Nat /\ cur' <= MaxThreads
  BY <1>3, <1>4, <1>5, MaxThreadsAssumption DEF CountInv, WorkerGoes
<1>8. idle' = Count(wpc', IdleAt) /\ idle' \in Nat
  BY <1>1, Zenon DEF CountInv, WorkerGoes, Moved
<1>9. ~stopping' => sem' + Count(wpc', TokenAt) + Is(mpc', PostAt) = Len(requests')
  <2> SUFFICES ASSUME ~stopping
               PROVE  sem' + Count(wpc', TokenAt) + Is(mpc', PostAt) = Len(requests')
    BY Zenon DEF WorkerGoes
  <2>1. sem + Count(wpc, TokenAt) + Is(mpc, PostAt) = Len(requests) /\ sem \in Nat
    BY Zenon DEF CountInv, TypeOK
  <2>2. Is(mpc', PostAt) = Is(mpc, PostAt)
    BY Zenon DEF Is, PostAt, WorkerGoes
  <2>3. Len(requests) \in Nat /\ Len(requests') \in Nat /\ sem' \in Nat
    <3>1. requests \in Seq(Elems) /\ requests' \in Seq(Elems) /\ sem' \in Nat
      BY Zenon DEF CountInv, TypeOK, WorkerGoes
    <3> QED
      BY <3>1
  <2>4. sem' + Is(x, TokenAt) + Len(requests) = sem + Is(wpc[w], TokenAt) + Len(requests')
    BY Zenon DEF WorkerGoes
  <2>5. /\ Count(wpc', TokenAt) = Count(wpc, TokenAt) + Is(x, TokenAt) - Is(wpc[w], TokenAt)
        /\ Count(wpc, TokenAt) \in Nat
    BY <1>1, Zenon DEF Moved
  <2>6. PICK a \in Nat, b \in Nat, d \in Nat :
          a = Is(x, TokenAt) /\ b = Is(wpc[w], TokenAt) /\ d = Is(mpc, PostAt)
    BY <1>3, Zenon
  <2>7. PICK l \in Nat, m \in Nat, c \in Nat :
          l = Len(requests) /\ m = Len(requests') /\ c = Count(wpc, TokenAt)
    BY <2>3, <2>5, Zenon
  <2>8. PICK t \in Nat, u \in Nat : t = sem /\ u = sem'
    BY <2>1, <2>3, Zenon
  <2>9. t + c + d = l /\ u + a + l = t + b + m
    BY <2>1, <2>4, <2>6, <2>7, <2>8, Zenon
  <2>10. u + (c + a - b) + d = m
    BY <2>9
  <2> QED
    BY <2>2, <2>5, <2>6, <2>7, <2>8, <2>10, Zenon
<1>10. TypeOK'
  BY <1>1, <1>7, <1>8, Zenon DEF CountInv, TypeOK, MainStates, WorkerGoes
<1>11. pending' = Count(wpc', CreatedAt)
  BY <1>4, Zenon DEF CountInv, WorkerGoes
<1> QED
  BY <1>6, <1>7, <1>8, <1>9, <1>10, <1>11, Zenon DEF CountInv

LEMMA SideSame ==
  ASSUME IInv, mpc # "freed",
         mpc' = mpc \/ (mpc = "freeAsleep" /\ mpc' = "freeWoken")
           \/ (mpc = "cancelAsleep" /\ mpc' = "cancelWoken"),
         requests' # <<>> => cur' > 0,
         UNCHANGED <<all, new, pending, bh, cancellations, stopping, calls>>
  PROVE  SideInv'
BY Zenon DEF IInv, SideInv, QueueHasThread, CancelCounted, StoppingClean

LEMMA SemCounts ==
  ASSUME IInv, NEW w \in Workers, SemAcquired(w) \/ SemTimeout(w) PROVE CountInv' /\ SideInv'
<1>1. CountInv
  BY CountForm, Zenon DEF IInv
<1> DEFINE x == IF SemAcquired(w) THEN "token" ELSE "timeout"
<1>2. /\ wpc[w] = "wait" /\ wpc' = [wpc EXCEPT ![w] = x]
      /\ sem' = sem - Is(x, TokenAt) /\ sem' \in Nat
      /\ UNCHANGED <<elemVars, countVars, wreq, mainVars, notifier, bh, cancellations, stopping>>
  BY <1>1 DEF SemAcquired, SemTimeout, TakeToken, Is, TokenAt, CountInv, TypeOK
<1>3. /\ x \in WorkerStates /\ x # "created" /\ Is(x, NoneAt) = 0
      /\ Is(x, IdleAt) = 1 /\ Is(wpc[w], IdleAt) = 1
      /\ Is(x, TokenAt) \in Nat /\ Is(wpc[w], TokenAt) = 0
  BY <1>2, Zenon DEF WorkerStates, Is, IdleAt, TokenAt, NoneAt
<1> HIDE DEF x
<1>4. cur' = cur - 0 /\ idle' = idle + 1 - 1
  BY <1>1, <1>2 DEF countVars, CountInv, TypeOK
<1>5. sem' + Is(x, TokenAt) + Len(requests) = sem + 0 + Len(requests')
  <2>1. requests \in Seq(Elems) /\ requests' = requests /\ sem \in Nat
    BY <1>1, <1>2, Zenon DEF elemVars, CountInv, TypeOK
  <2> QED
    BY <1>2, <1>3, <2>1
<1>6. WorkerGoes(w, x)
  BY <1>1, <1>2, <1>3, <1>4, <1>5, Zenon
  DEF WorkerGoes, CountInv, TypeOK, elemVars, countVars, mainVars
<1>7. CountInv' /\ mpc # "freed"
  BY <1>1, <1>3, <1>6, WorkerCounts, Zenon
<1>8. SideInv'
  BY <1>2, <1>7, SideSame, Zenon DEF elemVars, countVars, mainVars, IInv, QueueHasThread
<1> QED
  BY <1>7, <1>8, Zenon

\* A worker that has taken a count of the semaphore finds a request.
LEMMA TokenHasRequest ==
  ASSUME CountInv, ~stopping, NEW w \in Workers, wpc[w] = "token"
  PROVE  requests # <<>>
<1>1. Count(wpc, TokenAt) \in Nat /\ Count(wpc, TokenAt) > 0
  <2>1. wpc[w] \in TokenAt /\ wpc \in [Workers -> WorkerStates]
    BY Zenon DEF TokenAt, CountInv, TypeOK
  <2>2. wpc = [wpc EXCEPT ![w] = wpc[w]] /\ wpc[w] \in WorkerStates
    BY <2>1, Zenon
  <2> QED
    BY <2>1, <2>2, Moves, Zenon
<1>2. sem + Count(wpc, TokenAt) + Is(mpc, PostAt) = Len(requests) /\ sem \in Nat
  BY Zenon DEF CountInv, TypeOK
<1>3. Is(mpc, PostAt) \in {0, 1}
  BY Zenon DEF Is
<1> QED
  BY <1>1, <1>2, <1>3

LEMMA DequeueCounts ==
  ASSUME IInv, NEW w \in Workers, Dequeue(w) PROVE CountInv' /\ SideInv'
<1>1. CountInv
  BY CountForm, Zenon DEF IInv
<1> DEFINE x == IF stopping THEN "none" ELSE "busy"
<1>2. /\ wpc[w] = "token" /\ wpc' = [wpc EXCEPT ![w] = x]
      /\ idle' = idle - 1 /\ cur' = cur - Is(x, NoneAt)
      /\ mpc' = mpc \/ (mpc = "freeAsleep" /\ mpc' = "freeWoken")
      /\ stopping => UNCHANGED <<state, requests, wreq>>
      /\ ~stopping => /\ wreq' = [wreq EXCEPT ![w] = Head(requests)]
                      /\ requests' = Tail(requests) /\ UNCHANGED cur
                      /\ state' = [state EXCEPT ![Head(requests)] = "ACTIVE"]
      /\ UNCHANGED <<hasCb, all, new, pending, calls, rest, target,
                     sem, notifier, bh, cancellations, stopping>>
  BY <1>1, SMTT(30) DEF Dequeue, Exit, Is, NoneAt, CountInv, TypeOK
<1>3. /\ x \in WorkerStates /\ x # "created"
      /\ Is(x, IdleAt) = 0 /\ Is(wpc[w], IdleAt) = 1
      /\ Is(x, TokenAt) = 0 /\ Is(wpc[w], TokenAt) = 1
  BY <1>2, Zenon DEF WorkerStates, Is, IdleAt, TokenAt
<1> HIDE DEF x
<1>4. ~stopping => /\ requests # <<>> /\ Head(requests) \in Elems
                   /\ Tail(requests) \in Seq(Elems) /\ Len(Tail(requests)) = Len(requests) - 1
  BY <1>1, <1>2, TokenHasRequest, SMTT(30) DEF CountInv, TypeOK
<1>5. /\ state' \in [Elems -> {"FREE", "QUEUED", "ACTIVE", "DONE", "CANCELED"}]
      /\ requests' \in Seq(Elems)
      /\ wreq' \in [Workers -> Elems \cup {NoElem}]
  <2>1. CASE stopping
    BY <1>1, <1>2, <2>1, Zenon DEF CountInv, TypeOK
  <2>2. CASE ~stopping
    <3>1. /\ requests' = Tail(requests) /\ wreq' = [wreq EXCEPT ![w] = Head(requests)]
          /\ state' = [state EXCEPT ![Head(requests)] = "ACTIVE"]
          /\ Head(requests) \in Elems /\ Tail(requests) \in Seq(Elems)
      BY <1>2, <1>4, <2>2, Zenon
    <3> QED
      BY <1>1, <3>1, Zenon DEF CountInv, TypeOK
  <2> QED
    BY <2>1, <2>2, Zenon
<1>6. idle' = idle + 0 - 1
  BY <1>1, <1>2 DEF CountInv, TypeOK
<1>7. ~stopping => sem' + 0 + Len(requests) = sem + 1 + Len(requests')
  <2> SUFFICES ASSUME ~stopping PROVE sem' + 0 + Len(requests) = sem + 1 + Len(requests')
    BY Zenon
  <2>1. Len(requests') = Len(requests) - 1 /\ sem' = sem
    BY <1>2, <1>4, Zenon
  <2>2. Len(requests) \in Nat /\ sem \in Nat
    BY <1>1 DEF CountInv, TypeOK
  <2> QED
    BY <2>1, <2>2
<1>8. WorkerGoes(w, x)
  BY <1>1, <1>2, <1>3, <1>5, <1>6, <1>7, ZenonT(60) DEF WorkerGoes, CountInv, TypeOK
<1>9. CountInv' /\ mpc # "freed"
  BY <1>1, <1>3, <1>8, WorkerCounts, Zenon
<1>10. requests' # <<>> => cur' > 0
  <2>1. CASE stopping
    BY <1>2, <2>1, StoppingIdle, Zenon
  <2>2. CASE ~stopping
    BY <1>2, <1>4, <2>2, Zenon DEF IInv, QueueHasThread
  <2> QED
    BY <2>1, <2>2, Zenon
<1>11. SideInv'
  BY <1>2, <1>9, <1>10, SideSame, Zenon
<1> QED
  BY <1>9, <1>11, Zenon

LEMMA TimedOutCounts ==
  ASSUME IInv, NEW w \in Workers, TimedOut(w) PROVE CountInv' /\ SideInv'
<1>1. CountInv
  BY CountForm, Zenon DEF IInv
<1> DEFINE x == IF WaitAgain THEN "wait" ELSE "none"
<1>2. /\ wpc[w] = "timeout" /\ wpc' = [wpc EXCEPT ![w] = x]
      /\ idle' = idle - Is(x, NoneAt) /\ cur' = cur - Is(x, NoneAt)
      /\ mpc' = mpc \/ (mpc = "freeAsleep" /\ mpc' = "freeWoken")
      /\ requests # <<>> => UNCHANGED cur
      /\ UNCHANGED <<elemVars, new, pending, wreq, calls, rest, target,
                     sem, notifier, bh, cancellations, stopping>>
  BY <1>1 DEF TimedOut, WaitAgain, Exit, Is, NoneAt, CountInv, TypeOK
<1>3. /\ x \in WorkerStates /\ x # "created"
      /\ Is(x, IdleAt) = 1 - Is(x, NoneAt) /\ Is(x, NoneAt) \in {0, 1}
      /\ Is(wpc[w], IdleAt) = 1
      /\ Is(x, TokenAt) = 0 /\ Is(wpc[w], TokenAt) = 0
  BY <1>2 DEF WorkerStates, Is, IdleAt, TokenAt, NoneAt
<1> HIDE DEF x
<1>4. idle' = idle + Is(x, IdleAt) - 1
  BY <1>1, <1>2, <1>3 DEF CountInv, TypeOK
<1>5. sem' + 0 + Len(requests) = sem + 0 + Len(requests')
  BY <1>1, <1>2, Zenon DEF CountInv, TypeOK, elemVars
<1>6. WorkerGoes(w, x)
  BY <1>1, <1>2, <1>3, <1>4, <1>5, Zenon DEF WorkerGoes, CountInv, TypeOK, elemVars
<1>7. CountInv' /\ mpc # "freed"
  BY <1>1, <1>3, <1>6, WorkerCounts, Zenon
<1>8. requests' # <<>> => cur' > 0
  BY <1>2, Zenon DEF IInv, QueueHasThread, elemVars
<1>9. SideInv'
  BY <1>2, <1>7, <1>8, SideSame, Zenon DEF elemVars
<1> QED
  BY <1>7, <1>9, Zenon

LEMMA FuncReturnsCounts ==
  ASSUME IInv, NEW w \in Workers, FuncReturns(w) PROVE CountInv' /\ SideInv'
<1>1. CountInv
  BY CountForm, Zenon DEF IInv
<1> DEFINE x == "done"
<1>2. /\ wpc[w] = "busy" /\ wpc' = [wpc EXCEPT ![w] = x]
      /\ state' = [state EXCEPT ![wreq[w]] = "DONE"]
      /\ UNCHANGED <<hasCb, all, requests, countVars, wreq, mainVars,
                     sem, notifier, bh, cancellations, stopping>>
  BY Zenon DEF FuncReturns
<1>3. /\ x \in WorkerStates /\ x # "created" /\ Is(x, NoneAt) = 0
      /\ Is(x, IdleAt) = 0 /\ Is(wpc[w], IdleAt) = 0
      /\ Is(x, TokenAt) = 0 /\ Is(wpc[w], TokenAt) = 0
  BY <1>2, Zenon DEF WorkerStates, Is, IdleAt, TokenAt, NoneAt
<1> HIDE DEF x
<1>4. state' \in [Elems -> {"FREE", "QUEUED", "ACTIVE", "DONE", "CANCELED"}]
  BY <1>1, <1>2, Zenon DEF CountInv, TypeOK
<1>5. cur' = cur - 0 /\ idle' = idle + 0 - 0
      /\ sem' + 0 + Len(requests) = sem + 0 + Len(requests')
  BY <1>1, <1>2 DEF CountInv, TypeOK, countVars
<1>6. WorkerGoes(w, x)
  BY <1>1, <1>2, <1>3, <1>4, <1>5, Zenon DEF WorkerGoes, CountInv, TypeOK, countVars, mainVars
<1>7. CountInv' /\ mpc # "freed"
  BY <1>1, <1>3, <1>6, WorkerCounts, Zenon
<1>8. SideInv'
  BY <1>2, <1>7, SideSame, Zenon DEF IInv, QueueHasThread, countVars, mainVars
<1> QED
  BY <1>7, <1>8, Zenon

LEMMA ReportCounts ==
  ASSUME IInv, NEW w \in Workers, Report(w) PROVE CountInv' /\ SideInv'
<1>1. CountInv
  BY CountForm, Zenon DEF IInv
<1>2. stopping => mpc \in {"freeAsleep", "freeWoken", "freed"}
  BY Zenon DEF IInv, StoppingClean
<1> DEFINE x == IF stopping THEN "none" ELSE "wait"
<1>3. /\ wpc[w] = "done" /\ wpc' = [wpc EXCEPT ![w] = x]
      /\ wreq' = [wreq EXCEPT ![w] = NoElem] /\ notifier' = TRUE
      /\ cur' = cur - Is(x, NoneAt) /\ idle' = idle + 1 - Is(x, NoneAt)
      /\ ~stopping => UNCHANGED cur
      /\ mpc' = mpc \/ (mpc = "freeAsleep" /\ mpc' = "freeWoken")
           \/ (mpc = "cancelAsleep" /\ mpc' = "cancelWoken")
      /\ UNCHANGED <<elemVars, new, pending, calls, rest, target,
                     sem, bh, cancellations, stopping>>
  BY <1>1, <1>2 DEF Report, Notify, LoopOrExit, Is, NoneAt, CountInv, TypeOK
<1>4. /\ x \in WorkerStates /\ x # "created"
      /\ Is(x, IdleAt) = 1 - Is(x, NoneAt) /\ Is(x, NoneAt) \in {0, 1}
      /\ Is(wpc[w], IdleAt) = 0
      /\ Is(x, TokenAt) = 0 /\ Is(wpc[w], TokenAt) = 0
  BY <1>3 DEF WorkerStates, Is, IdleAt, TokenAt, NoneAt
<1> HIDE DEF x
<1>5. idle' = idle + Is(x, IdleAt) - 0
  BY <1>1, <1>3, <1>4 DEF CountInv, TypeOK
<1>6. sem' + 0 + Len(requests) = sem + 0 + Len(requests')
  BY <1>1, <1>3, Zenon DEF CountInv, TypeOK, elemVars
<1>7. WorkerGoes(w, x)
  BY <1>1, <1>3, <1>4, <1>5, <1>6, Zenon DEF WorkerGoes, CountInv, TypeOK, elemVars
<1>8. CountInv' /\ mpc # "freed"
  BY <1>1, <1>4, <1>7, WorkerCounts, Zenon
<1>9. requests' # <<>> => cur' > 0
  <2>1. CASE stopping
    BY <1>3, <2>1, StoppingIdle, Zenon DEF elemVars
  <2>2. CASE ~stopping
    BY <1>3, <2>2, Zenon DEF IInv, QueueHasThread, elemVars
  <2> QED
    BY <2>1, <2>2, Zenon
<1>10. SideInv'
  BY <1>3, <1>8, <1>9, SideSame, Zenon DEF elemVars
<1> QED
  BY <1>8, <1>10, Zenon

\* The threads do_spawn_thread creates: one if there is a backlog.
LEMMA Spawns ==
  ASSUME CountInv, NEW spawned \in DoSpawnThread, NEW f,
         f = [v \in Workers |-> IF v \in spawned THEN "created" ELSE wpc[v]]
  PROVE  /\ f \in [Workers -> WorkerStates]
         /\ \A u \in Workers : wpc[u] # "none" => f[u] = wpc[u]
         /\ Cardinality(spawned) = IF new = 0 THEN 0 ELSE 1
         /\ Count(f, AliveAt) = Count(wpc, AliveAt) + Cardinality(spawned)
         /\ Count(f, IdleAt) = Count(wpc, IdleAt)
         /\ Count(f, CreatedAt) = Count(wpc, CreatedAt) + Cardinality(spawned)
         /\ Count(f, TokenAt) = Count(wpc, TokenAt)
         /\ Count(wpc, AliveAt) \in Nat /\ Count(wpc, IdleAt) \in Nat
         /\ Count(wpc, CreatedAt) \in Nat /\ Count(wpc, TokenAt) \in Nat
<1>1. wpc \in [Workers -> WorkerStates]
  BY Zenon DEF CountInv, TypeOK
<1>2. CASE new = 0
  <2>1. spawned = {} /\ Cardinality(spawned) = 0
    BY <1>2, FS_EmptySet, Zenon DEF DoSpawnThread
  <2>2. f = wpc
    BY <1>1, <2>1, Zenon
  <2>3. ASSUME NEW p PROVE Count(wpc, p) \in Nat
    BY <1>1, WorkersAssumption, FS_Subset, FS_CardinalityType, Zenon DEF Count
  <2> QED
    BY <1>1, <1>2, <2>1, <2>2, <2>3
<1>3. CASE new # 0
  <2>1. PICK v \in Workers : spawned = {v} /\ wpc[v] = "none"
    BY <1>3, Zenon DEF DoSpawnThread
  <2>2. Cardinality(spawned) = 1
    BY <2>1, FS_Singleton, Zenon
  <2>3. f = [wpc EXCEPT ![v] = "created"]
    BY <1>1, <2>1, Zenon
  <2>4. f \in [Workers -> WorkerStates] /\ Moved(wpc, f, v, "created")
    BY <1>1, <2>3, AllMoved, Zenon DEF WorkerStates
  <2>5. /\ Is("created", AliveAt) = 1 /\ Is(wpc[v], AliveAt) = 0
        /\ Is("created", IdleAt) = 0 /\ Is(wpc[v], IdleAt) = 0
        /\ Is("created", CreatedAt) = 1 /\ Is(wpc[v], CreatedAt) = 0
        /\ Is("created", TokenAt) = 0 /\ Is(wpc[v], TokenAt) = 0
    BY <2>1, Zenon DEF Is, AliveAt, IdleAt, CreatedAt, TokenAt
  <2>6. \A u \in Workers : wpc[u] # "none" => f[u] = wpc[u]
    BY <1>1, <2>1, <2>3, Zenon
  <2> QED
    BY <1>3, <2>2, <2>4, <2>5, <2>6 DEF Moved
<1> QED
  BY <1>2, <1>3, Zenon

LEMMA WorkerStartsCounts ==
  ASSUME IInv, NEW w \in Workers, WorkerStarts(w) PROVE CountInv' /\ SideInv'
<1>1. CountInv
  BY CountForm, Zenon DEF IInv
<1>2. wpc[w] = "created"
  BY Zenon DEF WorkerStarts
<1>3. PICK spawned \in DoSpawnThread :
        /\ new' = new - Cardinality(spawned)
        /\ pending' = pending - 1 + Cardinality(spawned)
        /\ LoopOrExit(w, [v \in Workers |-> IF v \in spawned THEN "created" ELSE wpc[v]])
  BY Zenon DEF WorkerStarts
<1>4. UNCHANGED <<elemVars, wreq, calls, rest, target, sem, notifier, bh, cancellations, stopping>>
  BY Zenon DEF WorkerStarts
<1> DEFINE f == [v \in Workers |-> IF v \in spawned THEN "created" ELSE wpc[v]]
           x == IF stopping THEN "none" ELSE "wait"
           k == Cardinality(spawned)
<1>5. /\ wpc' = [f EXCEPT ![w] = x]
      /\ cur' = cur - Is(x, NoneAt) /\ idle' = idle + Is(x, IdleAt)
      /\ ~stopping => UNCHANGED cur
      /\ mpc' = mpc \/ (mpc = "freeAsleep" /\ mpc' = "freeWoken")
  <2>1. cur \in Int /\ idle \in Int
    BY <1>1 DEF CountInv, TypeOK
  <2>2. CASE stopping
    BY <1>3, <2>1, <2>2 DEF LoopOrExit, Is, NoneAt, IdleAt
  <2>3. CASE ~stopping
    BY <1>3, <2>1, <2>3 DEF LoopOrExit, Is, NoneAt, IdleAt
  <2> QED
    BY <2>2, <2>3
<1>6. /\ f \in [Workers -> WorkerStates] /\ f[w] = "created"
      /\ k = IF new = 0 THEN 0 ELSE 1
      /\ Count(f, AliveAt) = Count(wpc, AliveAt) + k
      /\ Count(f, IdleAt) = Count(wpc, IdleAt)
      /\ Count(f, CreatedAt) = Count(wpc, CreatedAt) + k
      /\ Count(f, TokenAt) = Count(wpc, TokenAt)
      /\ Count(wpc, AliveAt) \in Nat /\ Count(wpc, IdleAt) \in Nat
      /\ Count(wpc, CreatedAt) \in Nat /\ Count(wpc, TokenAt) \in Nat
  BY <1>1, <1>2, Spawns, Zenon
<1>7. /\ x \in WorkerStates /\ Is(x, NoneAt) \in {0, 1} /\ Is(x, AliveAt) = 1 - Is(x, NoneAt)
      /\ Is(x, IdleAt) = 1 - Is(x, NoneAt) /\ Is(x, CreatedAt) = 0 /\ Is(x, TokenAt) = 0
  BY DEF WorkerStates, Is, NoneAt, AliveAt, IdleAt, CreatedAt, TokenAt
<1>8. /\ Is("created", AliveAt) = 1 /\ Is("created", IdleAt) = 0
      /\ Is("created", CreatedAt) = 1 /\ Is("created", TokenAt) = 0
  BY Zenon DEF Is, AliveAt, IdleAt, CreatedAt, TokenAt
<1>9. k \in {0, 1} /\ (new = 0 => k = 0) /\ (new # 0 => k = 1)
  BY <1>6, Zenon
<1> HIDE DEF f, x, k
<1>10. wpc' \in [Workers -> WorkerStates] /\ Moved(f, wpc', w, x)
  BY <1>5, <1>6, <1>7, AllMoved, Zenon
<1>11. PICK i \in {0, 1} : i = Is(x, NoneAt)
  BY <1>7, Zenon
<1>12. /\ Count(wpc', AliveAt) = Count(wpc, AliveAt) + k - i
       /\ Count(wpc', IdleAt) = Count(wpc, IdleAt) + 1 - i
       /\ Count(wpc', CreatedAt) = Count(wpc, CreatedAt) + k - 1
       /\ Count(wpc', TokenAt) = Count(wpc, TokenAt)
       /\ Count(wpc', AliveAt) \in Nat /\ Count(wpc', CreatedAt) \in Nat
       /\ Count(f, AliveAt) > 0
  BY <1>6, <1>7, <1>8, <1>9, <1>10, <1>11 DEF Moved
<1>13. /\ new' = new - k /\ pending' = pending - 1 + k
       /\ cur' = cur - i /\ idle' = idle + 1 - i
  BY <1>1, <1>3, <1>5, <1>7, <1>11, ZenonT(60) DEF CountInv, TypeOK, k
<1>14. new' \in Nat /\ idle' \in Nat /\ cur' \in Nat /\ pending' \in Nat
       /\ cur' = new' + Count(wpc', AliveAt) /\ idle' = Count(wpc', IdleAt)
       /\ pending' = Count(wpc', CreatedAt) /\ cur' <= MaxThreads
  <2>1. /\ new \in Nat /\ cur \in Nat /\ cur = new + Count(wpc, AliveAt)
        /\ idle = Count(wpc, IdleAt) /\ pending = Count(wpc, CreatedAt) /\ cur <= MaxThreads
    BY <1>1, Zenon DEF CountInv, TypeOK
  <2>2. new' \in Nat
    BY <1>9, <1>13, <2>1
  <2>3. cur' = new' + Count(wpc', AliveAt)
    BY <1>6, <1>9, <1>12, <1>13, <2>1
  <2>4. cur' \in Nat /\ cur' <= MaxThreads
    BY <1>12, <1>13, <2>1, <2>2, <2>3, MaxThreadsAssumption, SMTT(30)
  <2>5. idle' = Count(wpc', IdleAt) /\ idle' \in Nat
    BY <1>6, <1>12, <1>13, <2>1
  <2>6. pending' = Count(wpc', CreatedAt) /\ pending' \in Nat
    BY <1>6, <1>9, <1>12, <1>13, <2>1
  <2> QED
    BY <2>2, <2>3, <2>4, <2>5, <2>6, Zenon
<1>15. mpc # "freed"
  <2>1. cur >= 1
    BY <1>1, <1>6, <1>9, <1>12, SMTT(30) DEF CountInv, TypeOK
  <2> QED
    BY <1>1, <2>1 DEF CountInv
<1>16. TypeOK'
  BY <1>1, <1>4, <1>5, <1>10, <1>14, ZenonT(60) DEF CountInv, TypeOK, elemVars, MainStates
<1>17. mpc' # "freed" /\ Is(mpc', PostAt) = Is(mpc, PostAt)
  BY <1>5, <1>15, Zenon DEF Is, PostAt
<1>18. CountInv'
  BY <1>1, <1>4, <1>12, <1>14, <1>16, <1>17, Zenon DEF CountInv, elemVars
<1>19. requests' # <<>> => cur' > 0
  <2>1. CASE stopping
    BY <1>4, <2>1, StoppingIdle, Zenon DEF elemVars
  <2>2. CASE ~stopping
    BY <1>4, <1>5, <2>2, Zenon DEF IInv, QueueHasThread, elemVars
  <2> QED
    BY <2>1, <2>2, Zenon
<1>20. new' > 0 => pending' > 0
  <2>1. new \in Nat /\ pending \in Nat
    BY <1>1, Zenon DEF CountInv, TypeOK
  <2>2. pending > 0
    BY <1>1, <1>2, AllMoved, Zenon DEF CountInv, TypeOK, Moved
  <2> QED
    BY <1>9, <1>13, <2>1, <2>2
<1>21. stopping => new' = 0
  BY <1>9, <1>13 DEF IInv, StoppingClean
<1>22. SideInv'
  BY <1>4, <1>5, <1>15, <1>19, <1>20, <1>21, Zenon
  DEF SideInv, IInv, QueueHasThread, CancelCounted, StoppingClean, elemVars
<1> QED
  BY <1>18, <1>22, Zenon

\* Main does something that leaves the threads alone.
LEMMA MainCounts ==
  ASSUME CountInv, TypeOK', UNCHANGED <<wpc, cur, new, idle, pending, stopping>>,
         mpc' = "freed" => cur = 0,
         ~stopping => sem' + Is(mpc', PostAt) + Len(requests)
                        = sem + Is(mpc, PostAt) + Len(requests')
  PROVE  CountInv'
<1>1. ~stopping => sem' + Count(wpc, TokenAt) + Is(mpc', PostAt) = Len(requests')
  <2> SUFFICES ASSUME ~stopping
               PROVE  sem' + Count(wpc, TokenAt) + Is(mpc', PostAt) = Len(requests')
    BY Zenon
  <2>1. sem + Count(wpc, TokenAt) + Is(mpc, PostAt) = Len(requests)
    BY Zenon DEF CountInv
  <2>2. sem' + Is(mpc', PostAt) + Len(requests) = sem + Is(mpc, PostAt) + Len(requests')
    BY Zenon
  <2>3. PICK a \in Nat, b \in Nat, c \in Nat :
          a = Is(mpc, PostAt) /\ b = Is(mpc', PostAt) /\ c = Count(wpc, TokenAt)
    BY WorkersAssumption, FS_Subset, FS_CardinalityType, Zenon DEF Is, Count
  <2>4. PICK l \in Nat, m \in Nat, t \in Nat, u \in Nat :
          l = Len(requests) /\ m = Len(requests') /\ t = sem /\ u = sem'
    BY DEF CountInv, TypeOK
  <2>5. t + c + a = l /\ u + b + l = t + a + m
    BY <2>1, <2>2, <2>3, <2>4, Zenon
  <2>6. u + c + b = m
    BY <2>5
  <2> QED
    BY <2>3, <2>4, <2>6, Zenon
<1> QED
  BY <1>1, Zenon DEF CountInv

LEMMA SemPostCounts == ASSUME IInv, SemPost PROVE CountInv' /\ SideInv'
<1>1. CountInv
  BY CountForm, Zenon DEF IInv
<1>2. TypeOK'
  BY <1>1 DEF CountInv, TypeOK, SemPost, MainStates, elemVars, countVars, workerVars
<1>3. sem' + Is(mpc', PostAt) + Len(requests) = sem + Is(mpc, PostAt) + Len(requests')
  BY <1>1 DEF CountInv, TypeOK, SemPost, Is, PostAt, elemVars
<1>4. CountInv'
  BY <1>1, <1>2, <1>3, MainCounts, Zenon DEF SemPost, countVars, workerVars
<1>5. SideInv'
  BY Zenon DEF SemPost, IInv, SideInv, QueueHasThread, CancelCounted, StoppingClean, elemVars, countVars
<1> QED
  BY <1>4, <1>5, Zenon

LEMMA StealCounts == ASSUME IInv, NEW e \in Elems, StealForCancel(e) PROVE CountInv' /\ SideInv'
<1>1. CountInv
  BY CountForm, Zenon DEF IInv
<1>2. requests' \in Seq(Elems) /\ Len(requests') = Len(requests) - 1 /\ Len(requests) \in Nat
      /\ requests # <<>>
  <2>1. e \in Range(requests) /\ IsInjective(requests)
    BY Zenon DEF IInv, ElementsOwned, StealForCancel
  <2>2. requests \in Seq(Elems) /\ requests # <<>>
    BY <1>1, <2>1 DEF CountInv, TypeOK, Range
  <2> QED
    BY <2>1, <2>2, Removed, SMTT(30) DEF StealForCancel
<1>3. sem' = sem - 1 /\ sem \in Nat /\ sem > 0 /\ mpc' = mpc
  BY <1>1, Zenon DEF StealForCancel, TakeToken, CountInv, TypeOK, mainVars
<1>4. TypeOK'
  BY <1>1, <1>2, <1>3
  DEF CountInv, TypeOK, StealForCancel, Notify, MainStates, countVars, workerVars, mainVars
<1>5. sem' + Is(mpc', PostAt) + Len(requests) = sem + Is(mpc, PostAt) + Len(requests')
  BY <1>2, <1>3, SMTT(30) DEF Is, PostAt
<1>6. CountInv'
  BY <1>1, <1>3, <1>4, <1>5, MainCounts, Zenon DEF StealForCancel, countVars, workerVars, CountInv
<1>7. SideInv'
  BY <1>2, <1>3, Zenon DEF StealForCancel, IInv, SideInv, QueueHasThread, CancelCounted, StoppingClean,
                    countVars, mainVars
<1> QED
  BY <1>6, <1>7, Zenon

\* The calls of thread_pool_cancel, event_notifier_ready and thread_pool_free after they
\* have begun.
LEMMA QuietCounts ==
  ASSUME IInv,
         \/ \E e \in Elems : WaitForCancel(e)
         \/ CancelWakes \/ PollBlocks \/ EventNotifierReady \/ Scan \/ CallbackReturns
         \/ FreeWakes \/ SpuriousWakeup \/ Freed
  PROVE  CountInv' /\ SideInv'
<1>1. CountInv /\ TypeOK
  BY CountForm, Zenon DEF IInv, CountInv
<1>2. UNCHANGED <<wpc, cur, new, idle, pending, stopping, requests, bh>>
  BY Zenon DEF WaitForCancel, CancelWakes, PollBlocks, EventNotifierReady, Scan, CallbackReturns,
         FreeWakes, SpuriousWakeup, Freed, countVars, workerVars, elemVars, vars
<1>3. mpc # "post" /\ mpc' # "post" /\ (stopping \/ sem' = sem) /\ (mpc' = "freed" => cur = 0)
  <2>1. CASE FreeWakes
    BY <1>1, <2>1 DEF FreeWakes, FreeLoop, IInv, StoppingClean, TypeOK
  <2>2. CASE Freed
    BY <1>1, <2>2, Zenon DEF Freed, vars, mainVars, CountInv
  <2> QED
    BY <2>1, <2>2, Zenon DEF WaitForCancel, CancelWakes, PollBlocks, EventNotifierReady, Scan,
                      CallbackReturns, SpuriousWakeup
<1>4. TypeOK'
  <2>1. CASE \E e \in Elems : WaitForCancel(e)
    BY <1>1, <2>1, SMTT(30) DEF TypeOK, WaitForCancel, MainStates, elemVars, countVars, workerVars
  <2>2. CASE CancelWakes
    <3>1. cancellations = 1
      BY <2>2, Zenon DEF CancelWakes, IInv, CancelCounted
    <3> QED
      BY <1>1, <2>2, <3>1 DEF TypeOK, CancelWakes, MainStates, elemVars, countVars, workerVars
  <2>3. CASE PollBlocks
    BY <1>1, <2>3, Zenon DEF TypeOK, PollBlocks, MainStates, elemVars, countVars, workerVars
  <2>4. CASE EventNotifierReady
    BY <1>1, <2>4, Zenon DEF TypeOK, EventNotifierReady, MainStates, elemVars, countVars, workerVars
  <2>5. CASE Scan /\ rest = <<>>
    BY <1>1, <2>5, Zenon DEF TypeOK, Scan, MainStates, countVars, workerVars
  <2>6. CASE Scan /\ rest # <<>>
    <3>1. rest \in Seq(Elems) /\ Head(rest) \in Elems /\ Tail(rest) \in Seq(Elems)
      BY <1>1, <2>6, SMTT(30) DEF TypeOK
    <3>2. Head(rest) \in Range(all) /\ IsInjective(all) /\ all \in Seq(Elems)
      BY <1>1, <2>6, <3>1, Popped, ZenonT(60) DEF IInv, ElementsOwned, ScanOnce, Scan, TypeOK
    <3>3. all' \in Seq(Elems)
      BY <2>6, <3>2, Removed, Zenon DEF Scan
    <3>4. calls' \in Seq(Elems)
      <4>1. calls' = calls \/ calls' = <<Head(rest)>> \o calls
        BY <2>6, Zenon DEF Scan
      <4>2. ASSUME NEW e \in Elems, NEW s \in Seq(Elems) PROVE <<e>> \o s \in Seq(Elems)
        OBVIOUS
      <4> QED
        BY <1>1, <3>1, <4>1, <4>2, ZenonT(60) DEF TypeOK
    <3>5. state' \in [Elems -> {"FREE", "QUEUED", "ACTIVE", "DONE", "CANCELED"}]
      BY <1>1, <2>6, <3>1, Zenon DEF Scan, TypeOK
    <3>6. mpc' \in MainStates /\ rest' = Tail(rest)
          /\ UNCHANGED <<hasCb, requests, countVars, workerVars, target,
                         sem, notifier, bh, cancellations, stopping>>
      BY <2>6, Zenon DEF Scan, MainStates
    <3> QED
      BY <1>1, <3>1, <3>3, <3>4, <3>5, <3>6, ZenonT(60) DEF TypeOK, countVars, workerVars
  <2>7. CASE CallbackReturns
    BY <1>1, <2>7 DEF TypeOK, CallbackReturns, MainStates, countVars, workerVars
  <2>8. CASE FreeWakes
    BY <1>1, <2>8, SMTT(30) DEF TypeOK, FreeWakes, FreeLoop, MainStates, elemVars, countVars, workerVars
  <2>9. CASE SpuriousWakeup
    BY <1>1, <2>9, Zenon DEF TypeOK, SpuriousWakeup, MainStates, elemVars, countVars, workerVars
  <2>10. CASE Freed
    BY <1>1, <2>10, Zenon
    DEF TypeOK, Freed, vars, elemVars, countVars, workerVars, mainVars
  <2> QED
    BY <2>1, <2>2, <2>3, <2>4, <2>5, <2>6, <2>7, <2>8, <2>9, <2>10, ZenonT(60)
<1>5. ~stopping => sem' + Is(mpc', PostAt) + Len(requests)
                     = sem + Is(mpc, PostAt) + Len(requests')
  BY <1>2, <1>3, Zenon DEF Is, PostAt
<1>6. CountInv'
  BY <1>1, <1>2, <1>3, <1>4, <1>5, MainCounts, Zenon
<1>7. cancellations \in Nat /\ CancelCounted /\ StoppingClean
  BY <1>1, Zenon DEF IInv, TypeOK
<1>8. /\ CancelCounted'
      /\ stopping' <=> mpc' \in {"freeAsleep", "freeWoken", "freed"}
      /\ stopping => UNCHANGED <<all, calls>>
  <2>1. CASE \E e \in Elems : WaitForCancel(e)
    BY <1>2, <1>7, <2>1 DEF CancelCounted, StoppingClean, WaitForCancel, elemVars
  <2>2. CASE CancelWakes
    BY <1>2, <1>7, <2>2 DEF CancelCounted, StoppingClean, CancelWakes, elemVars
  <2>3. CASE PollBlocks
    BY <1>2, <1>7, <2>3 DEF CancelCounted, StoppingClean, PollBlocks, elemVars
  <2>4. CASE EventNotifierReady
    BY <1>2, <1>7, <2>4, SMTT(30) DEF CancelCounted, StoppingClean, EventNotifierReady, elemVars
  <2>5. CASE Scan
    BY <1>2, <1>7, <2>5 DEF CancelCounted, StoppingClean, Scan
  <2>6. CASE CallbackReturns
    BY <1>2, <1>7, <2>6 DEF CancelCounted, StoppingClean, CallbackReturns
  <2>7. CASE FreeWakes
    BY <1>2, <1>7, <2>7 DEF CancelCounted, StoppingClean, FreeWakes, FreeLoop, elemVars
  <2>8. CASE SpuriousWakeup
    BY <1>2, <1>7, <2>8 DEF CancelCounted, StoppingClean, SpuriousWakeup, elemVars
  <2>9. CASE Freed
    BY <1>2, <1>7, <2>9, SMTT(30) DEF CancelCounted, StoppingClean, Freed, vars, elemVars, mainVars
  <2> QED
    BY <2>1, <2>2, <2>3, <2>4, <2>5, <2>6, <2>7, <2>8, <2>9, ZenonT(60)
<1> QED
  BY <1>2, <1>6, <1>7, <1>8, Zenon DEF SideInv, IInv, QueueHasThread, StoppingClean

LEMMA FreeCounts == ASSUME IInv, Free PROVE CountInv' /\ SideInv'
<1>1. CountInv /\ TypeOK /\ mpc = "run" /\ StoppingClean /\ CancelCounted
  BY CountForm, Zenon DEF IInv, CountInv, Free
<1>2. ~stopping /\ all = <<>> /\ calls = <<>> /\ UNCHANGED <<all, calls>>
  BY <1>1, Zenon DEF StoppingClean, Free, elemVars
<1>3. requests = <<>>
  <2>1. \A e \in Elems : state[e] = "FREE"
    BY <1>2, SMTT(30) DEF IInv, ElementsOwned, Range
  <2>2. \A e \in Elems : e \notin Range(requests)
    BY <2>1, Zenon DEF IInv, ElementsOwned
  <2> QED
    BY <1>1, <2>2, SMTT(30) DEF TypeOK, Range
<1>4. Count(wpc, AliveAt) \in Nat
  BY WorkersAssumption, FS_Subset, FS_CardinalityType, Zenon DEF Count
<1>5. cur - new \in Nat /\ cur - new = Count(wpc, AliveAt) /\ cur - new <= MaxThreads
  BY <1>1, <1>4, MaxThreadsAssumption, SMTT(30) DEF CountInv, TypeOK
<1>6. /\ mpc' \in {"freeAsleep", "freed"} /\ sem' \in Nat /\ new' = 0 /\ cur' = cur - new
      /\ mpc' = "freed" => cur' = 0
      /\ stopping' = TRUE /\ bh' = FALSE
      /\ UNCHANGED <<elemVars, idle, pending, workerVars, calls, rest, target,
                     notifier, cancellations>>
  BY <1>1, <1>5, SMTT(30) DEF Free, FreeLoop, TypeOK
<1>7. TypeOK'
  BY <1>1, <1>5, <1>6, Zenon DEF TypeOK, MainStates, elemVars, workerVars
<1>8. CountInv'
  BY <1>1, <1>4, <1>5, <1>6, <1>7 DEF CountInv, workerVars
<1>9. SideInv'
  BY <1>1, <1>2, <1>3, <1>6
  DEF SideInv, QueueHasThread, CancelCounted, StoppingClean, elemVars
<1> QED
  BY <1>8, <1>9, Zenon

LEMMA SpawnThreadBhCounts == ASSUME IInv, SpawnThreadBh PROVE CountInv' /\ SideInv'
<1>1. CountInv /\ TypeOK
  BY CountForm, Zenon DEF IInv, CountInv
<1>2. PICK spawned \in DoSpawnThread :
        /\ new' = new - Cardinality(spawned)
        /\ pending' = pending + Cardinality(spawned)
        /\ wpc' = [v \in Workers |-> IF v \in spawned THEN "created" ELSE wpc[v]]
  BY Zenon DEF SpawnThreadBh
<1>3. /\ mpc \in {"run", "poll"} /\ mpc' = "run" /\ bh' = FALSE
      /\ UNCHANGED <<elemVars, cur, idle, wreq, calls, rest, target,
                     sem, notifier, cancellations, stopping>>
  BY Zenon DEF SpawnThreadBh
<1> DEFINE k == Cardinality(spawned)
<1>4. /\ wpc' \in [Workers -> WorkerStates]
      /\ k = IF new = 0 THEN 0 ELSE 1
      /\ Count(wpc', AliveAt) = Count(wpc, AliveAt) + k
      /\ Count(wpc', IdleAt) = Count(wpc, IdleAt)
      /\ Count(wpc', CreatedAt) = Count(wpc, CreatedAt) + k
      /\ Count(wpc', TokenAt) = Count(wpc, TokenAt)
      /\ Count(wpc, AliveAt) \in Nat /\ Count(wpc, CreatedAt) \in Nat
  BY <1>1, <1>2, Spawns, Zenon
<1>5. new' = new - k /\ pending' = pending + k
  BY <1>2, Zenon
<1> HIDE DEF k
<1>6. k \in {0, 1} /\ new' \in Nat /\ pending' \in Nat /\ new \in Nat /\ pending \in Nat
  BY <1>1, <1>4, <1>5, SMTT(30) DEF TypeOK
<1>7. cur' = new' + Count(wpc', AliveAt) /\ pending' = Count(wpc', CreatedAt)
  BY <1>1, <1>3, <1>4, <1>5, <1>6, SMTT(30) DEF CountInv
<1>8. TypeOK'
  BY <1>1, <1>3, <1>4, <1>6, Zenon DEF TypeOK, elemVars, MainStates
<1>9. Is(mpc', PostAt) = Is(mpc, PostAt) /\ mpc' # "freed"
  BY <1>3, Zenon DEF Is, PostAt
<1>10. CountInv'
  BY <1>1, <1>3, <1>4, <1>7, <1>8, <1>9, Zenon DEF CountInv, elemVars
<1>11. new' > 0 => pending' > 0
  BY <1>4, <1>5, <1>6, SMTT(30)
<1>12. SideInv'
  BY <1>3, <1>11, Zenon DEF SideInv, IInv, QueueHasThread, CancelCounted, StoppingClean, elemVars
<1> QED
  BY <1>10, <1>12, Zenon

LEMMA SubmitCounts ==
  ASSUME IInv, NEW e \in Elems, NEW cb \in BOOLEAN, Submit(e, cb)
  PROVE  CountInv' /\ SideInv'
<1>1. CountInv /\ TypeOK
  BY CountForm, Zenon DEF IInv, CountInv
<1>2. /\ mpc = "run" /\ mpc' = "post" /\ state[e] = "FREE" /\ requests' = Append(requests, e)
      /\ UNCHANGED <<idle, pending, wpc, wreq, calls, rest, target,
                     sem, notifier, cancellations, stopping>>
  BY Zenon DEF Submit, workerVars
<1>3. requests' \in Seq(Elems) /\ Len(requests') = Len(requests) + 1 /\ Len(requests) \in Nat
  BY <1>1, <1>2 DEF TypeOK
<1>4. Count(wpc, AliveAt) \in Nat /\ (idle > 0 => Count(wpc, AliveAt) > 0)
  <2>1. IsFiniteSet({v \in Workers : wpc[v] \in AliveAt})
    BY WorkersAssumption, FS_Subset, Zenon
  <2>2. ASSUME idle > 0 PROVE {v \in Workers : wpc[v] \in AliveAt} # {}
    <3>1. Cardinality({v \in Workers : wpc[v] \in IdleAt}) # 0
      BY <1>1, <2>2 DEF CountInv, Count
    <3>2. {v \in Workers : wpc[v] \in IdleAt} # {}
      BY <3>1, FS_EmptySet, Zenon
    <3> QED
      BY <3>2, Zenon DEF IdleAt, AliveAt
  <2> QED
    BY <2>1, <2>2, FS_EmptySet, FS_CardinalityType DEF Count
<1>5. cur \in Nat /\ new \in Nat /\ idle \in Nat /\ pending \in Nat /\ cur <= MaxThreads
  BY <1>1, Zenon DEF CountInv, TypeOK
<1>6. /\ cur' \in Nat /\ new' \in Nat /\ bh' \in BOOLEAN
      /\ cur' = new' + Count(wpc, AliveAt) /\ cur' <= MaxThreads /\ cur' > 0
      /\ new' > 0 => bh' \/ pending > 0
  <2>1. CASE idle = 0 /\ MayGrow
    <3>1. cur' = cur + 1 /\ new' = new + 1 /\ bh' = (bh \/ pending = 0)
      BY <2>1, Zenon DEF Submit, SpawnThread
    <3>2. bh' \in BOOLEAN
      BY <3>1, Zenon
    <3>3. cur' = new' + Count(wpc, AliveAt)
      BY <1>1, <1>4, <1>5, <3>1 DEF CountInv
    <3>4. bh' \/ pending > 0
      <4>1. pending = 0 => bh'
        BY <3>1, Zenon
      <4> QED
        BY <1>5, <4>1
    <3>5. cur' <= MaxThreads /\ cur' > 0 /\ cur' \in Nat /\ new' \in Nat
      BY <1>5, <2>1, <3>1, MaxThreadsAssumption, SMTT(30) DEF MayGrow
    <3> QED
      BY <3>2, <3>3, <3>4, <3>5, Zenon
  <2>2. CASE ~(idle = 0 /\ MayGrow)
    <3>1. UNCHANGED <<cur, new, bh>>
      BY <2>2, Zenon DEF Submit, SpawnThread
    <3>2. cur > 0
      BY <1>1, <1>4, <1>5, <2>2, MaxThreadsAssumption, SMTT(30) DEF MayGrow, CountInv
    <3> QED
      BY <1>1, <1>5, <3>1, <3>2, Zenon DEF CountInv, TypeOK, IInv, QueueHasThread
  <2> QED
    BY <2>1, <2>2, Zenon
<1>7. all' \in Seq(Elems) /\ hasCb' \in [Elems -> BOOLEAN]
      /\ state' \in [Elems -> {"FREE", "QUEUED", "ACTIVE", "DONE", "CANCELED"}]
  BY <1>1, SMTT(30) DEF Submit, TypeOK
<1>8. TypeOK'
  BY <1>1, <1>2, <1>3, <1>6, <1>7, ZenonT(60) DEF TypeOK, MainStates
<1>9. ~stopping' => sem' + Count(wpc', TokenAt) + Is(mpc', PostAt) = Len(requests')
  <2> SUFFICES ASSUME ~stopping
               PROVE  sem + Count(wpc, TokenAt) + Is(mpc', PostAt) = Len(requests')
    BY <1>2, Zenon
  <2>1. sem + Count(wpc, TokenAt) + Is(mpc, PostAt) = Len(requests) /\ sem \in Nat
    BY <1>1, Zenon DEF CountInv, TypeOK
  <2>2. Is(mpc, PostAt) = 0 /\ Is(mpc', PostAt) = 1
    BY <1>2, Zenon DEF Is, PostAt
  <2>3. Count(wpc, TokenAt) \in Nat
    BY WorkersAssumption, FS_Subset, FS_CardinalityType, Zenon DEF Count
  <2> QED
    BY <1>3, <2>1, <2>2, <2>3
<1>10. CountInv'
  BY <1>1, <1>2, <1>6, <1>8, <1>9, Zenon DEF CountInv
<1>11. SideInv'
  BY <1>2, <1>6, Zenon DEF IInv, SideInv, QueueHasThread, CancelCounted, StoppingClean
<1> QED
  BY <1>10, <1>11, Zenon

LEMMA Counts == ASSUME IInv, [Next]_vars PROVE CountInv' /\ SideInv'
<1>1. CASE UNCHANGED vars
  <2>1. CountInv /\ SideInv
    BY CountForm, Zenon DEF IInv, SideInv
  <2> QED
    BY <1>1, <2>1, Zenon
    DEF vars, elemVars, countVars, workerVars, mainVars, CountInv, SideInv, TypeOK, QueueHasThread,
        CancelCounted, StoppingClean
<1>2. ASSUME NEW w \in Workers, Worker(w) PROVE CountInv' /\ SideInv'
  BY <1>2, WorkerStartsCounts, SemCounts, DequeueCounts, TimedOutCounts, FuncReturnsCounts,
     ReportCounts, Zenon DEF Worker
<1> QED
  BY Zenon, <1>1, <1>2, SubmitCounts, StealCounts, SemPostCounts, QuietCounts, SpawnThreadBhCounts,
     FreeCounts DEF Next

-----------------------------------------------------------------------------
LEMMA Initially == Init => IInv
<1> SUFFICES ASSUME Init PROVE IInv
  BY Zenon
<1>1. TypeOK
  <2>1. <<>> \in Seq(Elems) /\ 0 \in Nat
    OBVIOUS
  <2> QED
    BY <2>1, Zenon DEF Init, TypeOK, WorkerStates, MainStates
<1>2. /\ Range(all) = {} /\ Range(requests) = {} /\ Range(calls) = {}
      /\ IsInjective(all) /\ IsInjective(requests) /\ IsInjective(calls) /\ Len(requests) = 0
  BY DEF Init, Range, IsInjective
<1>3. \A places : "none" \notin places => Count(wpc, places) = 0
  <2>1. ASSUME NEW places, "none" \notin places PROVE {v \in Workers : wpc[v] \in places} = {}
    BY <2>1, Zenon DEF Init
  <2> QED
    BY <2>1, FS_EmptySet, Zenon DEF Count
<1>4. CountInv
  <2>1. /\ Count(wpc, AliveAt) = 0 /\ Count(wpc, IdleAt) = 0
        /\ Count(wpc, CreatedAt) = 0 /\ Count(wpc, TokenAt) = 0
    BY <1>3, Zenon DEF AliveAt, IdleAt, CreatedAt, TokenAt
  <2>2. Is(mpc, PostAt) = 0
    BY Zenon DEF Init, Is, PostAt
  <2> QED
    BY <1>1, <1>2, <2>1, <2>2, MaxThreadsAssumption DEF Init, CountInv
<1>5. ElemInv
  <2>1. \A w \in Workers : wpc[w] # "busy"
    BY Zenon DEF Init
  <2> QED
    BY <1>2, <2>1, Zenon DEF Init, ElemInv, CallsDone, BusyHasElem, ScanOnce
<1>6. CompletionNoticed
  BY <1>2, Zenon DEF CompletionNoticed
<1>7. SideInv
  BY Zenon DEF Init, SideInv, QueueHasThread, CancelCounted, StoppingClean
<1> QED
  BY <1>4, <1>5, <1>6, <1>7, CountForm, ElemForm, Zenon DEF IInv, SideInv

LEMMA Inductive == IInv /\ [Next]_vars => IInv'
<1> SUFFICES ASSUME IInv, [Next]_vars PROVE IInv'
  BY Zenon
<1>1. TypeOK /\ CountInv /\ ElemInv /\ CompletionNoticed
  BY CountForm, ElemForm, Zenon DEF IInv, CountInv
<1>2. TokenFinds
  BY <1>1, TokenHasRequest, Zenon DEF TokenFinds
<1>3. CountInv' /\ SideInv'
  BY Counts, Zenon
<1>4. ElemInv' /\ CompletionNoticed'
  BY <1>1, <1>2, Owns, Notices, Zenon
<1>5. (ThreadsAccountedFor /\ TokensMatchRequests)'
  BY <1>3, CountForm, PTL
<1>6. (ElementsOwned /\ CallsDone /\ BusyHasElem /\ ScanOnce)'
  BY <1>4, ElemForm, PTL
<1> QED
  BY <1>3, <1>4, <1>5, <1>6, Zenon DEF IInv, SideInv

LEMMA Always == Spec => []IInv
  BY Initially, Inductive, PTL DEF Spec

\* thread_pool.c's semaphore and request_list never part: whatever the order in which
\* thread_pool_submit_aio posts, workers take a count and the lock, and thread_pool_cancel
\* steals a count and a request, a worker that holds a count finds a request.
THEOREM TokensFindRequests == Spec => []TokensMatchRequests
<1>1. IInv => TokensMatchRequests
  BY Zenon DEF IInv
<1> QED
  BY <1>1, Always, PTL

\* cur_threads, idle_threads, new_threads and pending_threads count the threads they are named
\* for, there are at most max_threads, and thread_pool_free returns only when none is left.
THEOREM ThreadCountsExact == Spec => []ThreadsAccountedFor
<1>1. IInv => ThreadsAccountedFor
  BY Zenon DEF IInv
<1> QED
  BY <1>1, Always, PTL

\* A request in request_list always has a thread, alive or on its way, in spite of the workers
\* that leave after ten idle seconds; and threads to be created have a creator.
THEOREM QueuesAreServed == Spec => []QueueHasThread
<1>1. IInv => QueueHasThread
  BY Zenon DEF IInv
<1> QED
  BY <1>1, Always, PTL

\* An element is in pool->head, in request_list and with a worker exactly when its state says
\* so, no two workers run the same one, and event_notifier_ready releases none that a worker
\* still has, however deep completion callbacks nest.
THEOREM OwnershipExact == Spec => []ElementsOwned
<1>1. IInv => ElementsOwned
  BY Zenon DEF IInv
<1> QED
  BY <1>1, Always, PTL

\* No completion is lost between the worker's event_notifier_set and the test-and-clear in
\* event_notifier_ready: a settled element that is still listed has something left that will
\* make event_notifier_ready look at it.
THEOREM CompletionsNoticed == Spec => []CompletionNoticed
<1>1. IInv => CompletionNoticed
  BY Zenon DEF IInv
<1> QED
  BY <1>1, Always, PTL

=============================================================================
