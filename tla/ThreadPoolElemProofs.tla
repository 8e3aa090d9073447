------------------------ MODULE ThreadPoolElemProofs ------------------------
(***************************************************************************)
(* Lemmas about ThreadPool: who has which element, and what notices the    *)
(* completion of one. ThreadPoolProofs puts them together with the counts. *)
(***************************************************************************)
EXTENDS ThreadPool, TLAPS

\* An element whose callback runs is done, and has been taken off the list once.
CallsDone ==
  /\ IsInjective(calls)
  /\ \A e \in Range(calls) : state[e] = "DONE"

\* A worker that runs func has an element.
BusyHasElem == \A w \in Workers : wpc[w] = "busy" => wreq[w] \in Elems

\* The loop of event_notifier_ready visits no element twice.
ScanOnce == mpc = "scan" => IsInjective(rest)

\* A worker that holds a count of the semaphore finds a request.
TokenFinds == ~stopping => \A w \in Workers : wpc[w] = "token" => requests # <<>>

-----------------------------------------------------------------------------
(* Lists of elements.                                                      *)

LEMMA Joined ==
  ASSUME NEW u \in Seq(Elems), NEW v \in Seq(Elems)
  PROVE  /\ u \o v \in Seq(Elems) /\ Len(u \o v) = Len(u) + Len(v)
         /\ \A x \in 1 .. Len(u) + Len(v) :
              (u \o v)[x] = IF x <= Len(u) THEN u[x] ELSE v[x - Len(u)]
<1>1. u \o v \in Seq(Elems) /\ Len(u \o v) = Len(u) + Len(v)
  OBVIOUS
<1>2. ASSUME NEW x \in 1 .. Len(u) + Len(v)
      PROVE  (u \o v)[x] = IF x <= Len(u) THEN u[x] ELSE v[x - Len(u)]
  OBVIOUS
<1> QED
  BY <1>1, <1>2, Zenon

\* QLIST_REMOVE takes out one element and nothing else.
LEMMA Removed ==
  ASSUME NEW s \in Seq(Elems), IsInjective(s), NEW e \in Range(s)
  PROVE  /\ Without(s, e) \in Seq(Elems) /\ IsInjective(Without(s, e))
         /\ Range(Without(s, e)) = Range(s) \ {e}
         /\ Len(Without(s, e)) = Len(s) - 1
<1>1. PICK k \in DOMAIN s :
        s[k] = e /\ Without(s, e) = SubSeq(s, 1, k - 1) \o SubSeq(s, k + 1, Len(s))
  BY Zenon DEF Range, Without
<1> DEFINE u == SubSeq(s, 1, k - 1)
           v == SubSeq(s, k + 1, Len(s))
           t == u \o v
<1>2. Without(s, e) = t
  BY <1>1, Zenon
<1>3. Len(s) \in Nat /\ k \in 1..Len(s) /\ DOMAIN s = 1..Len(s)
  OBVIOUS
<1>4. u \in Seq(Elems) /\ Len(u) = k - 1 /\ \A i \in 1..(k - 1) : u[i] = s[i]
  BY <1>3
<1>5. v \in Seq(Elems) /\ Len(v) = Len(s) - k /\ \A i \in 1..(Len(s) - k) : v[i] = s[k + i]
  BY <1>3, SMTT(30)
<1> HIDE DEF u, v
<1>6. t \in Seq(Elems) /\ Len(t) = Len(s) - 1 /\ DOMAIN t = 1 .. Len(s) - 1
  <2>1. t \in Seq(Elems) /\ Len(t) = Len(u) + Len(v)
    BY <1>4, <1>5, Joined, Zenon
  <2>2. Len(t) = Len(s) - 1
    BY <1>3, <1>4, <1>5, <2>1
  <2> QED
    BY <2>1, <2>2
<1>7. ASSUME NEW i \in 1 .. Len(s) - 1 PROVE t[i] = IF i < k THEN s[i] ELSE s[i + 1]
  <2>1. \A x \in 1 .. Len(u) + Len(v) : t[x] = IF x <= Len(u) THEN u[x] ELSE v[x - Len(u)]
    BY <1>4, <1>5, Joined, Zenon
  <2>2. CASE i < k
    BY <1>3, <1>4, <1>5, <2>1, <2>2
  <2>3. CASE ~(i < k)
    <3>1. i - (k - 1) \in 1 .. Len(v) /\ i \in 1 .. Len(u) + Len(v) /\ ~(i <= Len(u))
      BY <1>3, <1>4, <1>5, <2>3, SMTT(30)
    <3>2. t[i] = v[i - (k - 1)]
      BY <1>4, <2>1, <3>1, Zenon
    <3>3. v[i - (k - 1)] = s[k + (i - (k - 1))] /\ k + (i - (k - 1)) = i + 1
      BY <1>3, <1>5, <3>1
    <3> QED
      BY <2>3, <3>2, <3>3, Zenon
  <2> QED
    BY <2>2, <2>3, Zenon
<1> HIDE DEF t
\* What is at i in t was at i or at i + 1 in s, and not at k.
<1> DEFINE from(i) == IF i < k THEN i ELSE i + 1
<1>8. ASSUME NEW i \in DOMAIN t
      PROVE  from(i) \in DOMAIN s /\ from(i) # k /\ t[i] = s[from(i)]
  BY <1>3, <1>6, <1>7
<1>9. ASSUME NEW i \in DOMAIN t, NEW j \in DOMAIN t, from(i) = from(j) PROVE i = j
  BY <1>3, <1>6, <1>9
<1>10. ASSUME NEW j \in DOMAIN s, j # k PROVE \E i \in DOMAIN t : from(i) = j
  <2>1. CASE j < k
    BY <1>3, <1>6, <2>1
  <2>2. CASE ~(j < k)
    <3>1. j - 1 \in DOMAIN t /\ from(j - 1) = j
      BY <1>3, <1>6, <1>10, <2>2
    <3> QED
      BY <3>1, Zenon
  <2> QED
    BY <2>1, <2>2, Zenon
<1> HIDE DEF from
<1>11. IsInjective(t)
  <2> SUFFICES ASSUME NEW i \in DOMAIN t, NEW j \in DOMAIN t, t[i] = t[j] PROVE i = j
    BY Zenon DEF IsInjective
  <2>1. from(i) = from(j)
    BY <1>8, Zenon DEF IsInjective
  <2> QED
    BY <1>9, <2>1, Zenon
<1>12. Range(t) = Range(s) \ {e}
  <2>1. ASSUME NEW i \in DOMAIN t PROVE t[i] \in Range(s) \ {e}
    BY <1>1, <1>8, Zenon DEF IsInjective, Range
  <2>2. ASSUME NEW x \in Range(s) \ {e} PROVE x \in Range(t)
    <3>1. PICK j \in DOMAIN s : s[j] = x
      BY Zenon DEF Range
    <3>2. PICK i \in DOMAIN t : from(i) = j
      BY <1>1, <1>10, <3>1, Zenon
    <3> QED
      BY <1>8, <3>1, <3>2, Zenon DEF Range
  <2> QED
    BY <2>1, <2>2, Zenon DEF Range
<1> QED
  BY <1>2, <1>6, <1>11, <1>12, Zenon

\* QLIST_INSERT_HEAD.
LEMMA Pushed ==
  ASSUME NEW s \in Seq(Elems), IsInjective(s), NEW e \in Elems, e \notin Range(s)
  PROVE  /\ <<e>> \o s \in Seq(Elems) /\ IsInjective(<<e>> \o s)
         /\ Range(<<e>> \o s) = Range(s) \cup {e}
         /\ <<e>> \o s # <<>> /\ Len(<<e>> \o s) = Len(s) + 1
<1> DEFINE t == <<e>> \o s
<1>1. t \in Seq(Elems) /\ Len(t) = Len(s) + 1 /\ DOMAIN t = 1 .. Len(s) + 1
  OBVIOUS
<1>2. t[1] = e /\ \A i \in DOMAIN s : i + 1 \in DOMAIN t /\ t[i + 1] = s[i]
  OBVIOUS
<1>3. \A i \in DOMAIN t : i = 1 \/ (i - 1 \in DOMAIN s /\ t[i] = s[i - 1])
  OBVIOUS
<1> HIDE DEF t
<1>4. IsInjective(t)
  <2> SUFFICES ASSUME NEW i \in DOMAIN t, NEW j \in DOMAIN t, t[i] = t[j] PROVE i = j
    BY Zenon DEF IsInjective
  <2>1. CASE i # 1 /\ j # 1
    <3>1. i - 1 \in DOMAIN s /\ j - 1 \in DOMAIN s /\ s[i - 1] = s[j - 1]
      BY <1>3, <2>1, Zenon
    <3>2. i - 1 = j - 1
      BY <3>1, Zenon DEF IsInjective
    <3> QED
      BY <1>1, <3>2
  <2>2. CASE i = 1 \/ j = 1
    BY <1>2, <1>3, <2>2, Zenon DEF Range
  <2> QED
    BY <2>1, <2>2, Zenon
<1>5. Range(t) = Range(s) \cup {e}
  <2>1. ASSUME NEW i \in DOMAIN t PROVE t[i] \in Range(s) \cup {e}
    BY <1>2, <1>3, Zenon DEF Range
  <2>2. ASSUME NEW x \in Range(s) PROVE x \in Range(t)
    BY <1>2, Zenon DEF Range
  <2>3. e \in Range(t)
    BY <1>1, <1>2 DEF Range
  <2> QED
    BY <2>1, <2>2, <2>3, Zenon DEF Range
<1> QED
  BY <1>1, <1>4, <1>5 DEF t

\* QTAILQ_INSERT_TAIL.
LEMMA Appended ==
  ASSUME NEW s \in Seq(Elems), IsInjective(s), NEW e \in Elems, e \notin Range(s)
  PROVE  /\ Append(s, e) \in Seq(Elems) /\ IsInjective(Append(s, e))
         /\ Range(Append(s, e)) = Range(s) \cup {e} /\ Len(Append(s, e)) = Len(s) + 1
         /\ Append(s, e) # <<>>
<1> DEFINE t == Append(s, e)
<1>1. /\ t \in Seq(Elems) /\ Len(t) = Len(s) + 1 /\ DOMAIN t = 1 .. Len(s) + 1
      /\ Len(s) \in Nat /\ DOMAIN s = 1 .. Len(s)
  OBVIOUS
<1>2. t[Len(s) + 1] = e /\ \A i \in DOMAIN s : i \in DOMAIN t /\ t[i] = s[i]
  OBVIOUS
<1> HIDE DEF t
<1>3. \A i \in DOMAIN t : i = Len(s) + 1 \/ i \in DOMAIN s
  BY <1>1
<1>4. IsInjective(t)
  <2> SUFFICES ASSUME NEW i \in DOMAIN t, NEW j \in DOMAIN t, t[i] = t[j] PROVE i = j
    BY Zenon DEF IsInjective
  <2> QED
    BY <1>1, <1>2, <1>3, Zenon DEF IsInjective, Range
<1>5. Range(t) = Range(s) \cup {e}
  <2>1. ASSUME NEW i \in DOMAIN t PROVE t[i] \in Range(s) \cup {e}
    BY <1>2, <1>3, Zenon DEF Range
  <2>2. ASSUME NEW x \in Range(s) PROVE x \in Range(t)
    BY <1>2, Zenon DEF Range
  <2>3. e \in Range(t)
    BY <1>1, <1>2 DEF Range
  <2> QED
    BY <2>1, <2>2, <2>3, Zenon DEF Range
<1> QED
  BY <1>1, <1>4, <1>5 DEF t

\* Taking the first element of a list.
LEMMA Popped ==
  ASSUME NEW s \in Seq(Elems), s # <<>>, IsInjective(s)
  PROVE  /\ Head(s) \in Range(s) /\ Head(s) \in Elems
         /\ Tail(s) \in Seq(Elems) /\ IsInjective(Tail(s))
         /\ Range(Tail(s)) = Range(s) \ {Head(s)}
         /\ Len(Tail(s)) = Len(s) - 1
<1> DEFINE t == Tail(s)
<1>1. /\ Len(s) \in Nat /\ Len(s) >= 1 /\ DOMAIN s = 1 .. Len(s)
      /\ t \in Seq(Elems) /\ Len(t) = Len(s) - 1 /\ DOMAIN t = 1 .. Len(s) - 1
  OBVIOUS
<1>2. Head(s) = s[1] /\ \A i \in DOMAIN t : t[i] = s[i + 1]
  OBVIOUS
<1>3. Head(s) \in Range(s) /\ Head(s) \in Elems
  BY <1>1, <1>2 DEF Range
<1> HIDE DEF t
<1>4. /\ \A i \in DOMAIN t : i + 1 \in DOMAIN s /\ i + 1 # 1
      /\ \A i \in DOMAIN s : i # 1 => i - 1 \in DOMAIN t /\ (i - 1) + 1 = i
      /\ \A i, j \in DOMAIN t : i + 1 = j + 1 => i = j
  BY <1>1
<1>5. IsInjective(t)
  BY <1>2, <1>4 DEF IsInjective
<1>6. Range(t) = Range(s) \ {Head(s)}
  <2>1. ASSUME NEW i \in DOMAIN t PROVE t[i] \in Range(s) \ {Head(s)}
    BY <1>1, <1>2, <1>4 DEF Range, IsInjective
  <2>2. ASSUME NEW i \in DOMAIN s, s[i] # Head(s) PROVE s[i] \in Range(t)
    <3>1. i # 1
      BY <1>2, <2>2, Zenon
    <3> QED
      BY <1>2, <1>4, <3>1 DEF Range
  <2> QED
    BY <2>1, <2>2, Zenon DEF Range
<1> QED
  BY <1>1, <1>3, <1>5, <1>6, Zenon DEF t

-----------------------------------------------------------------------------
(* Who has which element.                                                  *)

\* ElementsOwned with the sets of workers written out, and what it needs.
ElemInv ==
  /\ \A e \in Elems :
       /\ e \in Range(requests) <=> state[e] = "QUEUED"
       /\ e \in Range(all) \/ e \in Range(calls) <=> state[e] # "FREE"
       /\ ~(e \in Range(all) /\ e \in Range(calls))
       /\ state[e] = "ACTIVE" <=> \E w \in Workers : wpc[w] = "busy" /\ wreq[w] = e
  /\ \A v, w \in Workers :
       wpc[v] = "busy" /\ wpc[w] = "busy" /\ wreq[v] = wreq[w] => v = w
  /\ IsInjective(all) /\ IsInjective(requests)
  /\ mpc = "scan" => Range(rest) \subseteq Range(all)
  /\ CallsDone /\ BusyHasElem /\ ScanOnce

LEMMA ElemForm == (ElementsOwned /\ CallsDone /\ BusyHasElem /\ ScanOnce) <=> ElemInv
<1>1. \A w : w \in At("busy") <=> w \in Workers /\ wpc[w] = "busy"
  BY Zenon DEF At
<1> QED
  BY <1>1, Zenon DEF ElementsOwned, ElemInv

\* No element changes hands.
HandsKept ==
  /\ UNCHANGED <<state, all, requests, calls>>
  /\ \A w \in Workers : /\ wpc'[w] = "busy" <=> wpc[w] = "busy"
                        /\ wpc[w] = "busy" => wreq'[w] = wreq[w]
  /\ mpc' = "scan" => mpc = "scan" /\ rest' = rest

LEMMA KeptElems == ASSUME ElemInv, HandsKept PROVE ElemInv'
<1>1. ASSUME NEW e \in Elems
      PROVE  (\E w \in Workers : wpc'[w] = "busy" /\ wreq'[w] = e)
               <=> (\E w \in Workers : wpc[w] = "busy" /\ wreq[w] = e)
  BY Zenon DEF HandsKept
<1>2. ASSUME NEW v \in Workers, NEW w \in Workers,
             wpc'[v] = "busy", wpc'[w] = "busy", wreq'[v] = wreq'[w]
      PROVE  v = w
  BY <1>2 DEF HandsKept, ElemInv
<1>3. mpc' = "scan" => Range(rest') \subseteq Range(all')
  BY Zenon DEF HandsKept, ElemInv
<1>4. CallsDone' /\ BusyHasElem' /\ ScanOnce'
  BY Zenon DEF HandsKept, ElemInv, CallsDone, BusyHasElem, ScanOnce
<1> QED
  BY <1>1, <1>2, <1>3, <1>4 DEF HandsKept, ElemInv

LEMMA WorkersKeep ==
  ASSUME TypeOK, NEW w \in Workers,
         \/ WorkerStarts(w) \/ SemAcquired(w) \/ SemTimeout(w) \/ TimedOut(w) \/ Report(w)
         \/ stopping /\ Dequeue(w)
  PROVE  HandsKept
<1>1. CASE WorkerStarts(w)
  <2>1. PICK spawned \in DoSpawnThread :
          LoopOrExit(w, [v \in Workers |-> IF v \in spawned THEN "created" ELSE wpc[v]])
    BY <1>1, Zenon DEF WorkerStarts
  <2>2. \A v \in spawned : v \in Workers /\ wpc[v] = "none"
    BY Zenon DEF DoSpawnThread
  <2>3. \A v \in Workers : wpc'[v] = "busy" <=> wpc[v] = "busy"
    BY <1>1, <2>1, <2>2, Zenon DEF WorkerStarts, LoopOrExit, TypeOK
  <2>4. mpc' = "scan" => mpc = "scan"
    BY <2>1, Zenon DEF LoopOrExit
  <2> QED
    BY <1>1, <2>3, <2>4, Zenon DEF WorkerStarts, HandsKept, elemVars
<1>2. CASE SemAcquired(w) \/ SemTimeout(w)
  BY <1>2, Zenon DEF SemAcquired, SemTimeout, HandsKept, elemVars, mainVars, TypeOK
<1>3. CASE TimedOut(w)
  BY <1>3, Zenon DEF TimedOut, Exit, HandsKept, elemVars, TypeOK
<1>4. CASE Report(w)
  BY <1>4, Zenon DEF Report, LoopOrExit, HandsKept, elemVars, TypeOK
<1>5. CASE stopping /\ Dequeue(w)
  BY <1>5, Zenon DEF Dequeue, Exit, HandsKept, TypeOK
<1> QED
  BY <1>1, <1>2, <1>3, <1>4, <1>5, Zenon

LEMMA MainKeeps ==
  ASSUME TypeOK,
         \/ SemPost \/ \E e \in Elems : WaitForCancel(e)
         \/ CancelWakes \/ SpawnThreadBh \/ PollBlocks \/ Free \/ FreeWakes \/ SpuriousWakeup
         \/ UNCHANGED vars
  PROVE  HandsKept
<1>1. CASE SpawnThreadBh
  <2>1. PICK spawned \in DoSpawnThread :
          wpc' = [v \in Workers |-> IF v \in spawned THEN "created" ELSE wpc[v]]
    BY <1>1, Zenon DEF SpawnThreadBh
  <2>2. \A v \in spawned : v \in Workers /\ wpc[v] = "none"
    BY Zenon DEF DoSpawnThread
  <2> QED
    BY <1>1, <2>1, <2>2, Zenon DEF SpawnThreadBh, HandsKept, elemVars
<1>2. CASE SemPost \/ CancelWakes \/ \E e \in Elems : WaitForCancel(e)
  BY <1>2, Zenon DEF SemPost, CancelWakes, WaitForCancel, HandsKept, elemVars, workerVars
<1>3. CASE PollBlocks \/ Free \/ FreeWakes \/ SpuriousWakeup
  BY <1>3, Zenon DEF PollBlocks, Free, FreeWakes, FreeLoop, SpuriousWakeup, HandsKept, elemVars,
              workerVars
<1>4. CASE UNCHANGED vars
  BY <1>4, Zenon DEF vars, HandsKept, elemVars, workerVars, mainVars
<1> QED
  BY <1>1, <1>2, <1>3, <1>4, Zenon

LEMMA DequeueElems ==
  ASSUME TypeOK, ElemInv, requests # <<>>, NEW w \in Workers, ~stopping, Dequeue(w)
  PROVE  ElemInv'
<1>1. PICK e \in Elems : e = Head(requests)
  BY DEF TypeOK
<1>2. /\ state[e] = "QUEUED" /\ IsInjective(requests') /\ Range(requests') = Range(requests) \ {e}
  <2>1. requests \in Seq(Elems) /\ IsInjective(requests) /\ requests' = Tail(requests)
    BY Zenon DEF Dequeue, ElemInv, TypeOK
  <2>2. /\ e \in Range(requests) /\ IsInjective(Tail(requests))
        /\ Range(Tail(requests)) = Range(requests) \ {e}
    BY <1>1, <2>1, Popped, Zenon
  <2> QED
    BY <2>1, <2>2, Zenon DEF ElemInv
<1>3. /\ wpc[w] = "token" /\ wpc' = [wpc EXCEPT ![w] = "busy"]
      /\ wreq' = [wreq EXCEPT ![w] = e] /\ state' = [state EXCEPT ![e] = "ACTIVE"]
      /\ UNCHANGED <<all, calls, mpc, rest>>
  BY <1>1, Zenon DEF Dequeue
<1>4. /\ state'[e] = "ACTIVE" /\ \A x \in Elems \ {e} : state'[x] = state[x]
      /\ wpc'[w] = "busy" /\ wreq'[w] = e
      /\ \A v \in Workers \ {w} : wpc'[v] = wpc[v] /\ wreq'[v] = wreq[v]
  BY <1>3, Zenon DEF TypeOK
<1>5. \A x \in Elems :
        state'[x] = "ACTIVE" <=> \E v \in Workers : wpc'[v] = "busy" /\ wreq'[v] = x
  BY <1>2, <1>3, <1>4 DEF ElemInv
<1>6. ASSUME NEW u \in Workers, NEW v \in Workers,
             wpc'[u] = "busy", wpc'[v] = "busy", wreq'[u] = wreq'[v]
      PROVE  u = v
  BY <1>2, <1>4, <1>6 DEF ElemInv
<1>7. CallsDone' /\ BusyHasElem' /\ ScanOnce'
  <2>1. \A x \in Range(calls) : x \in Elems
    BY DEF TypeOK, Range
  <2> QED
    BY <1>2, <1>3, <1>4, <2>1 DEF ElemInv, CallsDone, BusyHasElem, ScanOnce
<1>8. \A x \in Elems :
        /\ x \in Range(requests') <=> state'[x] = "QUEUED"
        /\ x \in Range(all') \/ x \in Range(calls') <=> state'[x] # "FREE"
        /\ ~(x \in Range(all') /\ x \in Range(calls'))
  BY <1>2, <1>3, <1>4 DEF ElemInv
<1> QED
  BY <1>2, <1>3, <1>5, <1>6, <1>7, <1>8 DEF ElemInv

LEMMA FuncReturnsElems ==
  ASSUME TypeOK, ElemInv, NEW w \in Workers, FuncReturns(w) PROVE ElemInv'
<1>1. PICK e \in Elems : e = wreq[w] /\ state[e] = "ACTIVE"
  BY Zenon DEF FuncReturns, ElemInv, BusyHasElem
<1>2. /\ wpc[w] = "busy" /\ wpc' = [wpc EXCEPT ![w] = "done"]
      /\ state' = [state EXCEPT ![e] = "DONE"]
      /\ UNCHANGED <<all, requests, calls, mpc, rest, wreq>>
  BY <1>1, Zenon DEF FuncReturns, mainVars
<1>3. /\ state'[e] = "DONE" /\ \A x \in Elems \ {e} : state'[x] = state[x]
      /\ wpc'[w] = "done" /\ \A v \in Workers \ {w} : wpc'[v] = wpc[v]
  BY <1>2, Zenon DEF TypeOK
<1>4. \A x \in Elems :
        state'[x] = "ACTIVE" <=> \E v \in Workers : wpc'[v] = "busy" /\ wreq'[v] = x
  BY <1>1, <1>2, <1>3 DEF ElemInv
<1>5. ASSUME NEW u \in Workers, NEW v \in Workers,
             wpc'[u] = "busy", wpc'[v] = "busy", wreq'[u] = wreq'[v]
      PROVE  u = v
  BY <1>2, <1>3, <1>5 DEF ElemInv
<1>6. CallsDone' /\ BusyHasElem' /\ ScanOnce'
  <2>1. \A x \in Range(calls) : x \in Elems
    BY DEF TypeOK, Range
  <2> QED
    BY <1>2, <1>3, <2>1 DEF ElemInv, CallsDone, BusyHasElem, ScanOnce
<1>7. \A x \in Elems :
        /\ x \in Range(requests') <=> state'[x] = "QUEUED"
        /\ x \in Range(all') \/ x \in Range(calls') <=> state'[x] # "FREE"
        /\ ~(x \in Range(all') /\ x \in Range(calls'))
  BY <1>1, <1>2, <1>3 DEF ElemInv
<1> QED
  BY <1>2, <1>4, <1>5, <1>6, <1>7 DEF ElemInv

\* The workers keep what they run, and the context changes the state of one element that no
\* worker runs.
LEMMA StateSet ==
  ASSUME TypeOK, ElemInv, NEW e \in Elems, NEW x \in {"FREE", "QUEUED", "CANCELED"},
         state[e] # "ACTIVE", state' = [state EXCEPT ![e] = x], UNCHANGED <<wpc, wreq>>
  PROVE  /\ state'[e] = x /\ \A d \in Elems \ {e} : state'[d] = state[d]
         /\ \A d \in Elems :
              state'[d] = "ACTIVE" <=> \E w \in Workers : wpc'[w] = "busy" /\ wreq'[w] = d
         /\ \A v, w \in Workers :
              wpc'[v] = "busy" /\ wpc'[w] = "busy" /\ wreq'[v] = wreq'[w] => v = w
         /\ BusyHasElem'
<1>1. state'[e] = x /\ \A d \in Elems \ {e} : state'[d] = state[d]
  BY Zenon DEF TypeOK
<1>2. x # "ACTIVE"
  BY Zenon
<1>3. \A d \in Elems :
        state'[d] = "ACTIVE" <=> \E w \in Workers : wpc'[w] = "busy" /\ wreq'[w] = d
  BY <1>1, <1>2, SMTT(30) DEF ElemInv
<1> QED
  BY <1>1, <1>3 DEF ElemInv, BusyHasElem

LEMMA SubmitElems ==
  ASSUME TypeOK, ElemInv, NEW e \in Elems, NEW cb \in BOOLEAN, Submit(e, cb) PROVE ElemInv'
<1>1. /\ state[e] = "FREE" /\ state' = [state EXCEPT ![e] = "QUEUED"]
      /\ all' = <<e>> \o all /\ requests' = Append(requests, e) /\ mpc' = "post"
      /\ UNCHANGED <<wpc, wreq, calls>>
  BY Zenon DEF Submit, workerVars
<1>2. e \notin Range(all) /\ e \notin Range(requests) /\ e \notin Range(calls)
  BY <1>1, Zenon DEF ElemInv
<1>3. IsInjective(all') /\ Range(all') = Range(all) \cup {e}
  <2>1. all \in Seq(Elems) /\ IsInjective(all)
    BY Zenon DEF TypeOK, ElemInv
  <2> QED
    BY <1>1, <1>2, <2>1, Pushed, Zenon
<1>4. IsInjective(requests') /\ Range(requests') = Range(requests) \cup {e}
  <2>1. requests \in Seq(Elems) /\ IsInjective(requests)
    BY Zenon DEF TypeOK, ElemInv
  <2> QED
    BY <1>1, <1>2, <2>1, Appended, Zenon
<1>5. /\ state'[e] = "QUEUED" /\ \A d \in Elems \ {e} : state'[d] = state[d]
      /\ \A d \in Elems :
           state'[d] = "ACTIVE" <=> \E w \in Workers : wpc'[w] = "busy" /\ wreq'[w] = d
      /\ \A v, w \in Workers :
           wpc'[v] = "busy" /\ wpc'[w] = "busy" /\ wreq'[v] = wreq'[w] => v = w
      /\ BusyHasElem'
  BY <1>1, StateSet, Zenon
<1>6. \A x \in Elems :
        /\ x \in Range(requests') <=> state'[x] = "QUEUED"
        /\ x \in Range(all') \/ x \in Range(calls') <=> state'[x] # "FREE"
        /\ ~(x \in Range(all') /\ x \in Range(calls'))
  BY <1>1, <1>2, <1>3, <1>4, <1>5 DEF ElemInv
<1>7. CallsDone' /\ ScanOnce'
  <2>1. \A x \in Range(calls) : x \in Elems
    BY DEF TypeOK, Range
  <2>2. \A x \in Range(calls) : state'[x] = state[x]
    BY <1>2, <1>5, <2>1, Zenon
  <2> QED
    BY <1>1, <2>2, Zenon DEF ElemInv, CallsDone, ScanOnce
<1> QED
  BY <1>1, <1>3, <1>4, <1>5, <1>6, <1>7, Zenon DEF ElemInv

LEMMA StealElems ==
  ASSUME TypeOK, ElemInv, NEW e \in Elems, StealForCancel(e) PROVE ElemInv'
<1>1. /\ state[e] = "QUEUED" /\ state' = [state EXCEPT ![e] = "CANCELED"] /\ mpc = "run"
      /\ requests' = Without(requests, e) /\ UNCHANGED <<wpc, wreq, all, calls, mpc>>
  BY Zenon DEF StealForCancel, workerVars, mainVars
<1>2. e \in Range(requests) /\ e \notin Range(calls)
  BY <1>1, Zenon DEF ElemInv, CallsDone
<1>3. IsInjective(requests') /\ Range(requests') = Range(requests) \ {e}
  <2>1. requests \in Seq(Elems) /\ IsInjective(requests)
    BY Zenon DEF TypeOK, ElemInv
  <2> QED
    BY <1>1, <1>2, <2>1, Removed, Zenon
<1>4. /\ state'[e] = "CANCELED" /\ \A d \in Elems \ {e} : state'[d] = state[d]
      /\ \A d \in Elems :
           state'[d] = "ACTIVE" <=> \E w \in Workers : wpc'[w] = "busy" /\ wreq'[w] = d
      /\ \A v, w \in Workers :
           wpc'[v] = "busy" /\ wpc'[w] = "busy" /\ wreq'[v] = wreq'[w] => v = w
      /\ BusyHasElem'
  BY <1>1, StateSet, Zenon
<1>5. \A x \in Elems :
        /\ x \in Range(requests') <=> state'[x] = "QUEUED"
        /\ x \in Range(all') \/ x \in Range(calls') <=> state'[x] # "FREE"
        /\ ~(x \in Range(all') /\ x \in Range(calls'))
  BY <1>1, <1>2, <1>3, <1>4 DEF ElemInv
<1>6. CallsDone' /\ ScanOnce'
  <2>1. \A x \in Range(calls) : x \in Elems
    BY SMTT(30) DEF TypeOK, Range
  <2> QED
    BY <1>1, <1>2, <1>4, <2>1 DEF ElemInv, CallsDone, ScanOnce
<1> QED
  BY <1>1, <1>3, <1>4, <1>5, <1>6, Zenon DEF ElemInv

LEMMA EventNotifierReadyElems ==
  ASSUME TypeOK, ElemInv, EventNotifierReady PROVE ElemInv'
<1>1. rest' = all /\ UNCHANGED <<state, all, requests, calls, wpc, wreq>>
  BY Zenon DEF EventNotifierReady, elemVars, workerVars
<1>2. CallsDone' /\ BusyHasElem' /\ ScanOnce'
  BY <1>1, Zenon DEF ElemInv, CallsDone, BusyHasElem, ScanOnce
<1> QED
  BY <1>1, <1>2, Zenon DEF ElemInv

LEMMA CallbackReturnsElems ==
  ASSUME TypeOK, ElemInv, CallbackReturns PROVE ElemInv'
<1>1. calls # <<>> /\ calls \in Seq(Elems) /\ IsInjective(calls)
  BY Zenon DEF CallbackReturns, TypeOK, ElemInv, CallsDone
<1>2. PICK e \in Elems : e = Head(calls)
  BY <1>1
<1>3. /\ e \in Range(calls) /\ IsInjective(Tail(calls))
      /\ Range(Tail(calls)) = Range(calls) \ {e}
  BY <1>1, <1>2, Popped, Zenon
<1>4. /\ state' = [state EXCEPT ![e] = "FREE"] /\ calls' = Tail(calls) /\ rest' = all
      /\ UNCHANGED <<all, requests, wpc, wreq>>
  BY <1>2, Zenon DEF CallbackReturns, workerVars
<1>5. state[e] = "DONE" /\ e \notin Range(all)
  BY <1>3, Zenon DEF ElemInv, CallsDone
<1>6. /\ state'[e] = "FREE" /\ \A d \in Elems \ {e} : state'[d] = state[d]
      /\ \A d \in Elems :
           state'[d] = "ACTIVE" <=> \E w \in Workers : wpc'[w] = "busy" /\ wreq'[w] = d
      /\ \A v, w \in Workers :
           wpc'[v] = "busy" /\ wpc'[w] = "busy" /\ wreq'[v] = wreq'[w] => v = w
      /\ BusyHasElem'
  BY <1>4, <1>5, StateSet, Zenon
<1>7. \A x \in Elems :
        /\ x \in Range(requests') <=> state'[x] = "QUEUED"
        /\ x \in Range(all') \/ x \in Range(calls') <=> state'[x] # "FREE"
        /\ ~(x \in Range(all') /\ x \in Range(calls'))
  BY <1>3, <1>4, <1>5, <1>6 DEF ElemInv
<1>8. CallsDone' /\ ScanOnce'
  <2>1. \A x \in Range(calls) : x \in Elems
    BY DEF TypeOK, Range
  <2> QED
    BY <1>3, <1>4, <1>6, <2>1 DEF ElemInv, CallsDone, ScanOnce
<1> QED
  BY <1>4, <1>6, <1>7, <1>8, Zenon DEF ElemInv

\* The element event_notifier_ready looks at.
LEMMA Visited ==
  ASSUME TypeOK, ElemInv, Scan, rest # <<>>, NEW e, e = Head(rest)
  PROVE  /\ e \in Elems /\ e \in Range(all) /\ e \notin Range(calls)
         /\ IsInjective(rest') /\ Range(rest') = Range(rest) \ {e}
         /\ Range(rest) \subseteq Range(all)
         /\ IsInjective(Without(all, e)) /\ Range(Without(all, e)) = Range(all) \ {e}
<1>1. /\ rest \in Seq(Elems) /\ IsInjective(rest) /\ rest' = Tail(rest)
      /\ Range(rest) \subseteq Range(all)
  BY Zenon DEF Scan, TypeOK, ElemInv, ScanOnce
<1>2. /\ e \in Range(rest) /\ e \in Elems /\ IsInjective(Tail(rest))
      /\ Range(Tail(rest)) = Range(rest) \ {e}
  BY <1>1, Popped, Zenon
<1>3. all \in Seq(Elems) /\ IsInjective(all) /\ e \in Range(all)
  BY <1>1, <1>2, Zenon DEF TypeOK, ElemInv
<1>4. IsInjective(Without(all, e)) /\ Range(Without(all, e)) = Range(all) \ {e}
  BY <1>3, Removed, Zenon
<1> QED
  BY <1>1, <1>2, <1>3, <1>4, Zenon DEF ElemInv

LEMMA ScanElems == ASSUME TypeOK, ElemInv, Scan PROVE ElemInv'
<1>1. CASE rest = <<>>
  <2>1. HandsKept
    BY <1>1, Zenon DEF Scan, HandsKept, workerVars
  <2> QED
    BY <2>1, KeptElems, Zenon
<1>2. CASE rest # <<>>
  <2>1. PICK e : e = Head(rest)
    BY Zenon
  <2>2. /\ e \in Elems /\ e \in Range(all) /\ e \notin Range(calls)
        /\ IsInjective(rest') /\ Range(rest') = Range(rest) \ {e}
        /\ Range(rest) \subseteq Range(all)
        /\ IsInjective(Without(all, e)) /\ Range(Without(all, e)) = Range(all) \ {e}
    BY <1>2, <2>1, Visited, Zenon
  <2>3. \A x \in Range(calls) : x \in Elems
    BY DEF TypeOK, Range
  <2>4. UNCHANGED <<requests, wpc, wreq>>
    BY Zenon DEF Scan, workerVars
  <2>5. CASE ~Settled(e)
    <3>1. UNCHANGED <<state, all, calls, mpc>>
      BY <1>2, <2>1, <2>5, Zenon DEF Scan, Settled
    <3>2. CallsDone' /\ BusyHasElem' /\ ScanOnce'
      BY <2>2, <2>4, <3>1, Zenon DEF ElemInv, CallsDone, BusyHasElem, ScanOnce
    <3> QED
      BY <2>2, <2>4, <3>1, <3>2, Zenon DEF ElemInv
  <2>6. CASE state[e] = "DONE" /\ hasCb[e]
    <3>1. /\ all' = Without(all, e) /\ calls' = <<e>> \o calls /\ mpc' = "run"
          /\ UNCHANGED state
      BY <1>2, <2>1, <2>6, Zenon DEF Scan, Settled
    <3>2. IsInjective(calls') /\ Range(calls') = Range(calls) \cup {e}
      <4>1. calls \in Seq(Elems) /\ IsInjective(calls)
        BY Zenon DEF TypeOK, ElemInv, CallsDone
      <4> QED
        BY <2>2, <3>1, <4>1, Pushed, Zenon
    <3>3. CallsDone' /\ BusyHasElem' /\ ScanOnce'
      BY <2>4, <2>6, <3>1, <3>2, Zenon DEF ElemInv, CallsDone, BusyHasElem, ScanOnce
    <3>4. \A x \in Elems :
            /\ x \in Range(requests') <=> state'[x] = "QUEUED"
            /\ x \in Range(all') \/ x \in Range(calls') <=> state'[x] # "FREE"
            /\ ~(x \in Range(all') /\ x \in Range(calls'))
      BY <2>2, <2>4, <3>1, <3>2, Zenon DEF ElemInv
    <3> QED
      BY <2>2, <2>4, <3>1, <3>3, <3>4 DEF ElemInv
  <2>7. CASE Settled(e) /\ ~(state[e] = "DONE" /\ hasCb[e])
    <3>1. /\ all' = Without(all, e) /\ state' = [state EXCEPT ![e] = "FREE"]
          /\ UNCHANGED <<calls, mpc>>
      BY <1>2, <2>1, <2>7, Zenon DEF Scan
    <3>2. state[e] \notin {"ACTIVE", "QUEUED"}
      BY <2>7, Zenon DEF Settled
    <3>3. /\ state'[e] = "FREE" /\ \A d \in Elems \ {e} : state'[d] = state[d]
          /\ \A d \in Elems :
               state'[d] = "ACTIVE" <=> \E w \in Workers : wpc'[w] = "busy" /\ wreq'[w] = d
          /\ \A v, w \in Workers :
               wpc'[v] = "busy" /\ wpc'[w] = "busy" /\ wreq'[v] = wreq'[w] => v = w
          /\ BusyHasElem'
      BY <2>2, <2>4, <3>1, <3>2, StateSet, Zenon
    <3>4. \A x \in Elems :
            /\ x \in Range(requests') <=> state'[x] = "QUEUED"
            /\ x \in Range(all') \/ x \in Range(calls') <=> state'[x] # "FREE"
            /\ ~(x \in Range(all') /\ x \in Range(calls'))
      BY <2>2, <2>4, <3>1, <3>2, <3>3 DEF ElemInv
    <3>5. CallsDone' /\ ScanOnce'
      BY <2>2, <2>3, <3>1, <3>3 DEF ElemInv, CallsDone, ScanOnce
    <3> QED
      BY <2>2, <2>4, <3>1, <3>3, <3>4, <3>5, SMTT(30) DEF ElemInv
  <2> QED
    BY <2>5, <2>6, <2>7, Zenon
<1> QED
  BY <1>1, <1>2, Zenon

LEMMA Owns ==
  ASSUME TypeOK, ElemInv, TokenFinds, [Next]_vars
  PROVE  ElemInv'
<1>1. ASSUME NEW w \in Workers, Worker(w) PROVE ElemInv'
  <2>1. CASE Dequeue(w) /\ ~stopping
    <3>1. requests # <<>>
      BY <2>1, Zenon DEF Dequeue, TokenFinds
    <3> QED
      BY <2>1, <3>1, DequeueElems, Zenon
  <2>2. CASE FuncReturns(w)
    BY <2>2, FuncReturnsElems, Zenon
  <2> QED
    BY <1>1, <2>1, <2>2, WorkersKeep, KeptElems, Zenon DEF Worker
<1>2. CASE Freed
  <2>1. UNCHANGED vars
    BY <1>2, Zenon DEF Freed
  <2> QED
    BY <2>1, MainKeeps, KeptElems, Zenon
<1> QED
  BY <1>1, <1>2, SubmitElems, StealElems, EventNotifierReadyElems, CallbackReturnsElems,
     ScanElems, MainKeeps, KeptElems, Zenon DEF Next

-----------------------------------------------------------------------------
(* Completions are noticed.                                                *)

\* Nothing is newly settled and nothing that notices it goes away.
NoticeKept ==
  /\ calls' = calls
  /\ \A e \in Range(all') : state'[e] \in {"DONE", "CANCELED"}
       => e \in Range(all) /\ state[e] \in {"DONE", "CANCELED"}
  /\ notifier => notifier'
  /\ notifier' \/ \A w \in Workers : wpc[w] = "done" => wpc'[w] = "done" /\ wreq'[w] = wreq[w]
  /\ mpc = "scan" => mpc' = "scan" /\ rest' = rest

LEMMA KeptNotice == ASSUME CompletionNoticed, NoticeKept PROVE CompletionNoticed'
<1> SUFFICES ASSUME NEW e \in Range(all'), state'[e] \in {"DONE", "CANCELED"}, ~notifier'
             PROVE  \/ \E w \in Workers : wpc'[w] = "done" /\ wreq'[w] = e
                    \/ mpc' = "scan" /\ e \in Range(rest')
                    \/ calls' # <<>>
  BY Zenon DEF CompletionNoticed, Settled, At
<1>1. e \in Range(all) /\ state[e] \in {"DONE", "CANCELED"} /\ ~notifier
  BY Zenon DEF NoticeKept
<1>2. \/ \E w \in Workers : wpc[w] = "done" /\ wreq[w] = e
      \/ mpc = "scan" /\ e \in Range(rest)
      \/ calls # <<>>
  BY <1>1, Zenon DEF CompletionNoticed, Settled, At
<1> QED
  BY <1>2, Zenon DEF NoticeKept

LEMMA WorkersNotice ==
  ASSUME TypeOK, TokenFinds, NEW w \in Workers, Worker(w), ~FuncReturns(w) PROVE NoticeKept
<1>1. TypeOK
  BY Zenon
<1>2. CASE WorkerStarts(w)
  <2>1. PICK spawned \in DoSpawnThread :
          LoopOrExit(w, [v \in Workers |-> IF v \in spawned THEN "created" ELSE wpc[v]])
    BY <1>2, Zenon DEF WorkerStarts
  <2>2. \A v \in spawned : v \in Workers /\ wpc[v] = "none"
    BY Zenon DEF DoSpawnThread
  <2>3. \A v \in Workers : wpc[v] = "done" => wpc'[v] = "done"
    BY <1>1, <1>2, <2>1, <2>2, Zenon DEF WorkerStarts, LoopOrExit, TypeOK
  <2>4. mpc = "scan" => mpc' = "scan"
    BY <2>1, Zenon DEF LoopOrExit
  <2> QED
    BY <1>2, <2>3, <2>4, Zenon DEF WorkerStarts, NoticeKept, elemVars
<1>3. CASE SemAcquired(w) \/ SemTimeout(w)
  BY <1>1, <1>3, Zenon DEF SemAcquired, SemTimeout, NoticeKept, elemVars, mainVars, TypeOK
<1>4. CASE TimedOut(w)
  BY <1>1, <1>4, Zenon DEF TimedOut, Exit, NoticeKept, elemVars, TypeOK
<1>5. CASE Report(w)
  BY <1>1, <1>5, Zenon DEF Report, Notify, LoopOrExit, NoticeKept, elemVars, TypeOK
<1>6. CASE stopping /\ Dequeue(w)
  BY <1>1, <1>6, Zenon DEF Dequeue, Exit, NoticeKept, TypeOK
<1>7. CASE ~stopping /\ Dequeue(w)
  <2>1. PICK e \in Elems : e = Head(requests)
    BY <1>7 DEF Dequeue, TypeOK, TokenFinds
  <2>2. /\ wpc[w] = "token" /\ wpc' = [wpc EXCEPT ![w] = "busy"]
        /\ wreq' = [wreq EXCEPT ![w] = e] /\ state' = [state EXCEPT ![e] = "ACTIVE"]
        /\ UNCHANGED <<all, calls, mpc, rest, notifier>>
    BY <1>7, <2>1, Zenon DEF Dequeue
  <2>3. \A x \in Range(all) : x \in Elems
    BY <1>1 DEF TypeOK, Range
  <2> QED
    BY <1>1, <2>2, <2>3, Zenon DEF NoticeKept, TypeOK
<1> QED
  BY <1>2, <1>3, <1>4, <1>5, <1>6, <1>7, Zenon DEF Worker

LEMMA FuncReturnsNoticed ==
  ASSUME TypeOK, ElemInv, CompletionNoticed, NEW w \in Workers, FuncReturns(w)
  PROVE  CompletionNoticed'
<1>1. TypeOK /\ ElemInv
  BY Zenon
<1>2. PICK e \in Elems : e = wreq[w]
  BY <1>1, Zenon DEF FuncReturns, ElemInv, BusyHasElem
<1>3. /\ wpc[w] = "busy" /\ wpc' = [wpc EXCEPT ![w] = "done"]
      /\ state' = [state EXCEPT ![e] = "DONE"]
      /\ UNCHANGED <<all, calls, mpc, rest, wreq, notifier>>
  BY <1>2, Zenon DEF FuncReturns, mainVars
<1>4. /\ \A x \in Elems \ {e} : state'[x] = state[x]
      /\ wpc'[w] = "done" /\ \A v \in Workers \ {w} : wpc'[v] = wpc[v]
  BY <1>1, <1>3, Zenon DEF TypeOK
<1>5. \A x \in Range(all) : x \in Elems
  BY <1>1 DEF TypeOK, Range
<1> SUFFICES ASSUME NEW x \in Range(all), state'[x] \in {"DONE", "CANCELED"}, ~notifier
             PROVE  \/ \E v \in Workers : wpc'[v] = "done" /\ wreq'[v] = x
                    \/ mpc' = "scan" /\ x \in Range(rest')
                    \/ calls' # <<>>
  BY <1>3 DEF CompletionNoticed, Settled, At
<1>6. CASE x = e
  BY <1>2, <1>3, <1>4, <1>6, Zenon
<1>7. CASE x # e
  <2>1. \/ \E v \in Workers : wpc[v] = "done" /\ wreq[v] = x
        \/ mpc = "scan" /\ x \in Range(rest)
        \/ calls # <<>>
    BY <1>4, <1>5, <1>7, Zenon DEF CompletionNoticed, Settled, At
  <2> QED
    BY <1>3, <1>4, <2>1, Zenon
<1> QED
  BY <1>6, <1>7, Zenon

LEMMA ScanNoticed ==
  ASSUME TypeOK, ElemInv, CompletionNoticed, Scan PROVE CompletionNoticed'
<1>1. TypeOK /\ ElemInv /\ CompletionNoticed
  BY Zenon
<1>2. UNCHANGED <<wpc, wreq, notifier>> /\ mpc = "scan"
  BY Zenon DEF Scan, workerVars
<1> SUFFICES ASSUME NEW x \in Range(all'), state'[x] \in {"DONE", "CANCELED"},
                    ~notifier, calls' = <<>>, \A v \in Workers : ~(wpc[v] = "done" /\ wreq[v] = x)
             PROVE  mpc' = "scan" /\ x \in Range(rest')
  BY <1>2, Zenon DEF CompletionNoticed, Settled, At
<1>3. ASSUME x \in Range(all), state[x] \in {"DONE", "CANCELED"}, calls = <<>>
      PROVE  x \in Range(rest)
  BY <1>1, <1>3, Zenon DEF CompletionNoticed, Settled, At
<1>4. CASE rest = <<>>
  <2>1. UNCHANGED <<state, all, calls>> /\ Range(rest) = {}
    BY <1>4 DEF Scan, Range
  <2> QED
    BY <1>3, <2>1, Zenon
<1>5. CASE rest # <<>>
  <2>1. PICK e : e = Head(rest)
    BY Zenon
  <2>2. /\ e \in Elems /\ e \in Range(all) /\ Range(rest') = Range(rest) \ {e}
        /\ Range(Without(all, e)) = Range(all) \ {e}
    BY <1>1, <1>5, <2>1, Visited, Zenon
  <2>3. \A d \in Range(all) : d \in Elems
    BY <1>1 DEF TypeOK, Range
  <2>4. calls' = calls /\ mpc' = mpc
    <3>1. state[e] = "DONE" /\ hasCb[e] => calls' = <<e>> \o calls
      BY <1>5, <2>1, Zenon DEF Scan
    <3>2. calls \in Seq(Elems) => <<e>> \o calls # <<>>
      BY <2>2, SMTT(30)
    <3> QED
      BY <1>1, <1>5, <2>1, <3>1, <3>2, Zenon DEF Scan, TypeOK
  <2>5. all' = (IF Settled(e) THEN Without(all, e) ELSE all)
        /\ state' = (IF Settled(e) THEN [state EXCEPT ![e] = "FREE"] ELSE state)
    <3>1. ~(state[e] = "DONE" /\ hasCb[e])
      <4>1. calls \in Seq(Elems) => <<e>> \o calls # <<>>
        BY <2>2
      <4> QED
        BY <1>1, <1>5, <2>1, <4>1, Zenon DEF Scan, TypeOK
    <3> QED
      BY <1>5, <2>1, <3>1, Zenon DEF Scan
  <2>6. x # e /\ x \in Range(all) /\ state[x] \in {"DONE", "CANCELED"}
    BY <1>1, <2>2, <2>3, <2>5, Zenon DEF TypeOK, Settled
  <2> QED
    BY <1>2, <1>3, <2>2, <2>4, <2>6, Zenon
<1> QED
  BY <1>4, <1>5, Zenon

LEMMA MainNotices ==
  ASSUME TypeOK, ElemInv,
         \/ SemPost \/ \E e \in Elems : WaitForCancel(e)
         \/ CancelWakes \/ SpawnThreadBh \/ PollBlocks \/ Free \/ FreeWakes \/ SpuriousWakeup
         \/ \E e \in Elems, cb \in BOOLEAN : Submit(e, cb)
         \/ UNCHANGED vars
  PROVE  NoticeKept
<1>1. TypeOK
  BY Zenon
<1>2. CASE SpawnThreadBh
  <2>1. PICK spawned \in DoSpawnThread :
          wpc' = [v \in Workers |-> IF v \in spawned THEN "created" ELSE wpc[v]]
    BY <1>2, Zenon DEF SpawnThreadBh
  <2>2. \A v \in spawned : v \in Workers /\ wpc[v] = "none"
    BY Zenon DEF DoSpawnThread
  <2> QED
    BY <1>2, <2>1, <2>2, Zenon DEF SpawnThreadBh, NoticeKept, elemVars
<1>3. CASE SemPost \/ CancelWakes \/ \E e \in Elems : WaitForCancel(e)
  <2>1. UNCHANGED <<state, all, calls, notifier, wpc, wreq>> /\ mpc # "scan"
    BY <1>3, Zenon DEF SemPost, CancelWakes, WaitForCancel, elemVars, workerVars
  <2> QED
    BY <2>1, Zenon DEF NoticeKept
<1>4. CASE PollBlocks \/ Free \/ FreeWakes \/ SpuriousWakeup
  <2>1. UNCHANGED <<state, all, calls, notifier, wpc, wreq>> /\ mpc # "scan"
    BY <1>4, Zenon DEF PollBlocks, Free, FreeWakes, SpuriousWakeup, elemVars, workerVars
  <2> QED
    BY <2>1, Zenon DEF NoticeKept
<1>5. CASE UNCHANGED vars
  <2>1. UNCHANGED <<state, all, calls, notifier, wpc, wreq, mpc, rest>>
    BY <1>5, Zenon DEF vars, elemVars, workerVars, mainVars
  <2> QED
    BY <2>1, Zenon DEF NoticeKept
<1>6. ASSUME NEW e \in Elems, NEW cb \in BOOLEAN, Submit(e, cb) PROVE NoticeKept
  <2>1. /\ state[e] = "FREE" /\ state' = [state EXCEPT ![e] = "QUEUED"] /\ mpc = "run"
        /\ all' = <<e>> \o all /\ UNCHANGED <<wpc, wreq, calls, notifier>>
    BY <1>6, Zenon DEF Submit, workerVars
  <2>2. all \in Seq(Elems) /\ IsInjective(all) /\ e \notin Range(all)
    BY <1>1, <2>1, Zenon DEF TypeOK, ElemInv
  <2>3. Range(all') = Range(all) \cup {e}
    BY <2>1, <2>2, Pushed, Zenon
  <2>4. \A d \in Range(all) : d \in Elems
    BY <1>1 DEF TypeOK, Range
  <2> QED
    BY <1>1, <2>1, <2>3, <2>4, Zenon DEF NoticeKept, TypeOK
<1> QED
  BY <1>2, <1>3, <1>4, <1>5, <1>6, Zenon

LEMMA Notices ==
  ASSUME TypeOK, ElemInv, TokenFinds, CompletionNoticed, [Next]_vars
  PROVE  CompletionNoticed'
<1>1. ASSUME NEW w \in Workers, Worker(w) PROVE CompletionNoticed'
  BY <1>1, WorkersNotice, KeptNotice, FuncReturnsNoticed, Zenon
<1>2. ASSUME NEW e \in Elems, StealForCancel(e) PROVE CompletionNoticed'
  BY <1>2, Zenon DEF StealForCancel, Notify, CompletionNoticed
<1>3. CASE EventNotifierReady \/ CallbackReturns
  <2>1. mpc' = "scan" /\ rest' = all /\ all' = all
    BY <1>3, Zenon DEF EventNotifierReady, CallbackReturns, elemVars
  <2> QED
    BY <2>1, Zenon DEF CompletionNoticed
<1>4. CASE Freed
  BY <1>4, MainNotices, KeptNotice, Zenon DEF Freed
<1> QED
  BY <1>1, <1>2, <1>3, <1>4, ScanNoticed, MainNotices, KeptNotice, Zenon DEF Next

=============================================================================
