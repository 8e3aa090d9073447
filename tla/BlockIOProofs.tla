---------------------------- MODULE BlockIOProofs ----------------------------
(***************************************************************************)
(* Three properties of the requests, for any requests, alignment and       *)
(* cluster size:                                                           *)
(*                                                                         *)
(*   - a request that has begun its read-modify-write cycle never waits.   *)
(*     The core is Excluded: of two conflicting requests one has not       *)
(*     started;                                                            *)
(*                                                                         *)
(*   - unaligned writes and copies on read undo no other request.  The     *)
(*     invariant is Keeps: what a request will store around its own bytes  *)
(*     is still to be read, or is what the image holds.  Others do not     *)
(*     change it, because those that could are excluded;                   *)
(*                                                                         *)
(*   - a queue of throttled requests has a timer between two events.  The  *)
(*     invariant is LookedAfter: a queue without one has been left to a    *)
(*     request that was entered, and sets the timer when it runs.          *)
(***************************************************************************)
EXTENDS BlockIO, TLAPS

\* The entries of two sequences one after the other.
LEMMA Joins ==
  ASSUME NEW S, NEW a \in Seq(S), NEW b \in Seq(S)
  PROVE  /\ a \o b \in Seq(S) /\ Len(a \o b) = Len(a) + Len(b)
         /\ \A i \in 1 .. Len(a) + Len(b) :
              (a \o b)[i] = IF i <= Len(a) THEN a[i] ELSE b[i - Len(a)]
  OBVIOUS

\* The entries of a sequence without its first.
LEMMA TailShifts ==
  ASSUME NEW S, NEW s \in Seq(S), s # <<>>
  PROVE  /\ Tail(s) \in Seq(S) /\ Len(Tail(s)) = Len(s) - 1
         /\ \A i \in 1 .. Len(Tail(s)) : Tail(s)[i] = s[i + 1]
  OBVIOUS

\* Past its wait, or in wait_serialising_requests.
Started(r) == at[r] \in {"next", "io", "landed"} /\ op[r].kind # "flush"
Waits(r) == at[r] \in {"waiting", "woken"}

\* No operation of the driver has been done.
Before(r) == at[r] \in {"throttled", "begin", "waiting", "woken"}

\* The driver's operations.
Ios == {"head", "tail", "write", "flush", "read", "copyRead", "copyWrite"}

Typed ==
  /\ at \in [Reqs -> {"new", "throttled", "begin", "waiting", "woken", "next", "io",
                      "landed", "done"}]
  /\ op \in [Reqs -> Ops \cup {NoOp}]
  /\ todo \in [Reqs -> Seq(Ios)]
  /\ tracked \in Seq(Reqs)
  /\ waitingFor \in [Reqs -> Reqs \cup {None}]
  /\ waitQueue \in [Reqs -> Seq(Reqs)]

\* bs->tracked_requests has each request that has begun and not ended, once.
TracksBegun ==
  /\ \A r \in Reqs : (Started(r) \/ Waits(r)) <=> \E i \in DOMAIN tracked : tracked[i] = r
  /\ \A i, j \in DOMAIN tracked : tracked[i] = tracked[j] => i = j

\* A request waits for another one exactly while it has not started, and is then in
\* no wait queue but that one's.
WaitsRecorded ==
  /\ \A r \in Reqs : /\ Waits(r) => waitingFor[r] # None
                     /\ Started(r) => waitingFor[r] = None
  /\ \A r \in Reqs : \A i \in DOMAIN waitQueue[r] :
       at[waitQueue[r][i]] = "waiting" /\ waitingFor[waitQueue[r][i]] = r

\* A request that has not started has everything to do.
NothingDone ==
  \A r \in Reqs : Before(r) =>
    op[r] \in Ops /\ op[r].kind # "flush" /\ todo[r] \in IoSequences(op[r])

Excluded == \A q, r \in Reqs : Started(q) /\ Started(r) => ~Conflict(q, r)

WaitInv == Typed /\ TracksBegun /\ WaitsRecorded /\ NothingDone /\ Excluded

-----------------------------------------------------------------------------
\* The first operation of a request comes after a call of wait_serialising_requests.
LEMMA FirstWaits ==
  ASSUME NEW o \in Ops, NEW ios \in IoSequences(o)
  PROVE  ios \in Seq(Ios) /\ ios # <<>> /\ (o.kind # "flush" => WaitsBefore(Head(ios)))
<1>1. o.kind \in {"write", "read", "cor", "flush"}
  BY BlockIOAssumption, Zenon
<1>5. CASE o.kind = "flush"
  <2>1. ios = <<"flush">>
    BY <1>5, Zenon DEF IoSequences
  <2> QED
    BY <1>5, <2>1 DEF Ios
<1>2. CASE o.kind = "read"
  <2>1. ios = <<"read">>
    BY <1>2, Zenon DEF IoSequences
  <2> QED
    BY <2>1 DEF WaitsBefore, Ios
<1>3. CASE o.kind = "cor"
  <2>1. ios = <<"copyRead", "copyWrite">> \/ ios = <<"read">>
    BY <1>3, Zenon DEF IoSequences
  <2>2. <<"copyRead", "copyWrite">> \in Seq(Ios) /\ <<"read">> \in Seq(Ios)
    BY DEF Ios
  <2>3. /\ Head(<<"copyRead", "copyWrite">>) = "copyRead" /\ Head(<<"read">>) = "read"
        /\ <<"copyRead", "copyWrite">> # <<>> /\ <<"read">> # <<>>
    OBVIOUS
  <2> QED
    BY <2>1, <2>2, <2>3, Zenon DEF WaitsBefore
<1>4. CASE o.kind = "write"
  <2> DEFINE h == IF HeadUnaligned(o) THEN <<"head">> ELSE <<>>
             t == IF TailUnaligned(o) THEN <<"tail">> ELSE <<>>
             f == IF WriteThrough THEN <<"flush">> ELSE <<>>
  <2>1. ios = h \o t \o <<"write">> \o f
    BY <1>4, Zenon DEF IoSequences
  <2>2. h = <<>> \/ h = <<"head">>
    BY Zenon
  <2>3. t = <<>> \/ t = <<"tail">>
    BY Zenon
  <2>4. f = <<>> \/ f = <<"flush">>
    BY Zenon
  <2> HIDE DEF h, t, f
  <2>5. h \in Seq(Ios) /\ t \in Seq(Ios) /\ f \in Seq(Ios)
    <3>1. /\ <<>> \in Seq(Ios) /\ <<"head">> \in Seq(Ios) /\ <<"tail">> \in Seq(Ios)
          /\ <<"flush">> \in Seq(Ios)
      BY DEF Ios
    <3> QED
      BY <2>2, <2>3, <2>4, <3>1, Zenon
  <2>6. /\ h = <<>> => Len(h) = 0
        /\ h = <<"head">> => Len(h) = 1 /\ h[1] = "head"
        /\ t = <<>> => Len(t) = 0
        /\ t = <<"tail">> => Len(t) = 1 /\ t[1] = "tail"
    OBVIOUS
  <2> DEFINE m == h \o t \o <<"write">>
  <2>w. <<"write">> \in Seq(Ios) /\ Len(<<"write">>) = 1 /\ <<"write">>[1] = "write"
    BY DEF Ios
  <2>7. m \in Seq(Ios) /\ Len(m) = Len(h) + Len(t) + 1
    BY <2>5, <2>w
  <2>8. m[1] \in {"head", "tail", "write"}
    <3>2. CASE h = <<"head">>
      BY <2>5, <2>6, <2>w, <3>2
    <3>3. CASE h = <<>>
      BY <2>3, <2>5, <2>6, <2>w, <3>3
    <3> QED
      BY <2>2, <3>2, <3>3, Zenon
  <2>9. ios = m \o f
    BY <2>1, Zenon
  <2> HIDE DEF m
  <2>10. ios \in Seq(Ios) /\ Len(ios) >= 1 /\ ios[1] = m[1]
    BY <2>5, <2>7, <2>9
  <2> QED
    BY <2>8, <2>10 DEF WaitsBefore
<1> QED
  BY <1>1, <1>2, <1>3, <1>4, <1>5, Zenon

LEMMA ConflictIsMutual ==
  ASSUME NEW q, NEW r PROVE Conflict(q, r) <=> Conflict(r, q)
BY Zenon DEF Conflict

LEMMA WaitInit == Init => WaitInv
<1> SUFFICES ASSUME Init PROVE WaitInv
  BY Zenon
<1>1. Typed
  BY DEF Init, Typed, None
<1>2. \A r \in Reqs : at[r] = "new" /\ waitQueue[r] = <<>>
  BY Zenon DEF Init
<1>3. \A r \in Reqs : ~Started(r) /\ ~Waits(r) /\ ~Before(r)
  BY <1>2, Zenon DEF Started, Waits, Before
<1>4. tracked = <<>>
  BY Zenon DEF Init
<1>5. TracksBegun
  BY <1>3, <1>4 DEF TracksBegun
<1>6. WaitsRecorded /\ NothingDone /\ Excluded
  BY <1>2, <1>3 DEF WaitsRecorded, NothingDone, Excluded
<1> QED
  BY <1>1, <1>5, <1>6, Zenon DEF WaitInv

-----------------------------------------------------------------------------
\* A step of r that neither starts nor ends it, nor makes it wait.
LEMMA Moves ==
  ASSUME WaitInv, Typed', NEW r \in Reqs, UNCHANGED trackVars,
         \A q \in Reqs \ {r} : at'[q] = at[q] /\ op'[q] = op[q] /\ todo'[q] = todo[q],
         ~Waits(r), ~Waits(r)',
         Started(r)' <=> Started(r),
         Started(r) => op'[r] = op[r],
         Before(r)' => op'[r] \in Ops /\ op'[r].kind # "flush" /\ todo'[r] \in IoSequences(op'[r])
  PROVE  WaitInv'
<1> USE DEF trackVars
<1>1. \A q \in Reqs : (Started(q)' <=> Started(q)) /\ (Waits(q)' <=> Waits(q))
  <2> SUFFICES ASSUME NEW q \in Reqs, q # r
               PROVE  (Started(q)' <=> Started(q)) /\ (Waits(q)' <=> Waits(q))
    BY Zenon
  <2> QED
    BY Zenon DEF Started, Waits
<1>2. TracksBegun'
  BY <1>1, Zenon DEF WaitInv, TracksBegun
<1>3. WaitsRecorded'
  <2>1. \A q \in Reqs : at[q] = "waiting" => q # r
    BY Zenon DEF Waits
  <2>2. \A q \in Reqs : \A i \in DOMAIN waitQueue[q] : waitQueue[q][i] \in Reqs
    BY DEF WaitInv, Typed
  <2>3. \A q \in Reqs : at[q] = "waiting" => at'[q] = "waiting"
    BY <2>1, Zenon
  <2> QED
    BY <1>1, <2>2, <2>3 DEF WaitInv, WaitsRecorded
<1>4. NothingDone'
  <2> SUFFICES ASSUME NEW q \in Reqs, q # r, Before(q)'
               PROVE  op'[q] \in Ops /\ op'[q].kind # "flush" /\ todo'[q] \in IoSequences(op'[q])
    BY Zenon DEF NothingDone
  <2> QED
    BY Zenon DEF Before, WaitInv, NothingDone
<1>5. Excluded'
  <2> SUFFICES ASSUME NEW p \in Reqs, NEW q \in Reqs, Started(p)', Started(q)', Conflict(p, q)'
               PROVE  FALSE
    BY Zenon DEF Excluded
  <2>1. op'[p] = op[p] /\ op'[q] = op[q]
    BY <1>1, Zenon
  <2>2. Conflict(p, q)
    BY <2>1, Zenon DEF Conflict
  <2> QED
    BY <1>1, <2>2, Zenon DEF WaitInv, Excluded
<1> QED
  BY <1>2, <1>3, <1>4, <1>5, Zenon DEF WaitInv

LEMMA WaitSubmit ==
  ASSUME WaitInv, NEW r \in Reqs, NEW o \in Ops, Submit(r, o) PROVE WaitInv'
<1>1. r \notin 1..(r - 1) /\ at[r] = "new"
  BY DEF Submit, Reqs
<1>2. PICK ios \in IoSequences(o) : todo' = [todo EXCEPT ![r] = ios]
  BY Zenon DEF Submit
<1>3. PICK w \in {"next", "throttled"} :
        at' = [at EXCEPT ![r] = w] /\ (w = "next" <=> o.kind = "flush")
  BY Zenon DEF Submit
<1>4. op' = [op EXCEPT ![r] = o] /\ UNCHANGED trackVars
  BY Zenon DEF Submit
<1>5. Typed'
  BY <1>2, <1>3, <1>4, FirstWaits, Zenon DEF WaitInv, Typed, trackVars
<1>6. /\ op'[r] = o /\ todo'[r] = ios /\ at'[r] = w
      /\ \A q \in Reqs \ {r} : at'[q] = at[q] /\ op'[q] = op[q] /\ todo'[q] = todo[q]
  BY <1>2, <1>3, <1>4, Zenon DEF WaitInv, Typed
<1>7. ~Waits(r) /\ ~Waits(r)' /\ ~Started(r) /\ ~Started(r)'
  BY <1>1, <1>3, <1>6, Zenon DEF Waits, Started
<1>8. Before(r)' => op'[r] \in Ops /\ op'[r].kind # "flush" /\ todo'[r] \in IoSequences(op'[r])
  BY <1>3, <1>6, Zenon DEF Before
<1> QED
  BY <1>4, <1>5, <1>6, <1>7, <1>8, Moves, Zenon

LEMMA WaitAdmit ==
  ASSUME WaitInv, NEW r \in Reqs, Admit(r) PROVE WaitInv'
<1>1. at[r] = "throttled" /\ at' = [at EXCEPT ![r] = "begin"] /\ UNCHANGED <<op, todo, trackVars>>
  BY Zenon DEF Admit
<1>2. Typed'
  BY <1>1, Zenon DEF WaitInv, Typed, trackVars
<1>3. at'[r] = "begin" /\ \A q \in Reqs \ {r} : at'[q] = at[q]
  BY <1>1, Zenon DEF WaitInv, Typed
<1>4. ~Waits(r) /\ ~Waits(r)' /\ ~Started(r) /\ ~Started(r)' /\ Before(r)
  BY <1>1, <1>3, Zenon DEF Waits, Started, Before
<1>5. op[r] \in Ops /\ op[r].kind # "flush" /\ todo[r] \in IoSequences(op[r])
  BY <1>4, Zenon DEF WaitInv, NothingDone
<1> QED
  BY <1>1, <1>2, <1>3, <1>4, <1>5, Moves, Zenon

LEMMA WaitEffect ==
  ASSUME WaitInv, NEW r \in Reqs, Effect(r) PROVE WaitInv'
<1>1. at[r] = "io" /\ at' = [at EXCEPT ![r] = "landed"] /\ UNCHANGED <<op, todo, trackVars>>
  BY Zenon DEF Effect
<1>2. Typed'
  BY <1>1, Zenon DEF WaitInv, Typed, trackVars
<1>3. at'[r] = "landed" /\ \A q \in Reqs \ {r} : at'[q] = at[q]
  BY <1>1, Zenon DEF WaitInv, Typed
<1>4. ~Waits(r) /\ ~Waits(r)' /\ (Started(r)' <=> Started(r)) /\ ~Before(r)'
  BY <1>1, <1>3, Zenon DEF Waits, Started, Before
<1> QED
  BY <1>1, <1>2, <1>3, <1>4, Moves, Zenon

LEMMA WaitResume ==
  ASSUME WaitInv, NEW r \in Reqs, Resume(r) PROVE WaitInv'
<1>1. /\ at[r] = "landed" /\ at' = [at EXCEPT ![r] = "next"]
      /\ todo' = [todo EXCEPT ![r] = Tail(@)] /\ Len(todo[r]) > 1
      /\ UNCHANGED <<op, trackVars>>
  BY Zenon DEF Resume
<1>2. todo[r] \in Seq(Ios) /\ todo[r] # <<>>
  BY <1>1 DEF WaitInv, Typed
<1>3. Tail(todo[r]) \in Seq(Ios)
  BY <1>2
<1>4. Typed'
  BY <1>1, <1>3, Zenon DEF WaitInv, Typed, trackVars
<1>5. at'[r] = "next" /\ \A q \in Reqs \ {r} : at'[q] = at[q] /\ todo'[q] = todo[q]
  BY <1>1, Zenon DEF WaitInv, Typed
<1>6. ~Waits(r) /\ ~Waits(r)' /\ (Started(r)' <=> Started(r)) /\ ~Before(r)'
  BY <1>1, <1>5, Zenon DEF Waits, Started, Before
<1> QED
  BY <1>1, <1>4, <1>5, <1>6, Moves, Zenon

In(q, s) == \E i \in DOMAIN s : s[i] = q
Distinct(s) == \A i, j \in DOMAIN s : s[i] = s[j] => i = j

\* tracked_request_begin puts a request in front.
LEMMA Prepended ==
  ASSUME NEW r \in Reqs, NEW s \in Seq(Reqs), ~In(r, s), Distinct(s),
         NEW t \in Seq(Reqs), t = <<r>> \o s
  PROVE  (\A q \in Reqs : In(q, t) <=> (q = r \/ In(q, s))) /\ Distinct(t)
<1>1. Len(t) = Len(s) + 1
  OBVIOUS
<1>2. t[1] = r /\ \A i \in 1..Len(s) : t[i + 1] = s[i]
  OBVIOUS
<1>3. DOMAIN t = 1 .. Len(s) + 1 /\ DOMAIN s = 1 .. Len(s) /\ Len(s) \in Nat
  BY <1>1
<1>4. \A i \in DOMAIN t : i = 1 \/ (i - 1 \in DOMAIN s /\ t[i] = s[i - 1])
  BY <1>2, <1>3
<1>5. ASSUME NEW q \in Reqs PROVE In(q, t) <=> (q = r \/ In(q, s))
  <2>1. q = r => In(q, t)
    BY <1>2, <1>3 DEF In
  <2>2. ASSUME NEW i \in DOMAIN s, s[i] = q PROVE In(q, t)
    <3>1. i + 1 \in DOMAIN t /\ t[i + 1] = q
      BY <1>2, <1>3, <2>2
    <3> QED
      BY <3>1, Zenon DEF In
  <2>3. ASSUME NEW i \in DOMAIN t, t[i] = q PROVE q = r \/ In(q, s)
    BY <1>2, <1>4, <2>3, Zenon DEF In
  <2> QED
    BY <2>1, <2>2, <2>3, Zenon DEF In
<1>6. ASSUME NEW i \in DOMAIN t, NEW j \in DOMAIN t, t[i] = t[j] PROVE i = j
  BY <1>2, <1>3, <1>4, <1>6 DEF In, Distinct
<1> QED
  BY <1>5, <1>6, Zenon DEF Distinct

LEMMA WaitGo ==
  ASSUME WaitInv, NEW r \in Reqs, Go(r) PROVE WaitInv'
<1> DEFINE all == IF at[r] = "begin" THEN <<r>> \o tracked ELSE tracked
           blocking == {i \in DOMAIN all : WaitsFor(all[i], r)}
<1>1. at[r] \in {"begin", "woken", "next"} /\ tracked' = all /\ UNCHANGED <<op, todo>>
  BY Zenon DEF Go
<1>2. /\ all \in Seq(Reqs)
      /\ \A q \in Reqs : (\E i \in DOMAIN all : all[i] = q)
           <=> ((q = r /\ at[r] = "begin") \/ Started(q) \/ Waits(q))
      /\ \A i, j \in DOMAIN all : all[i] = all[j] => i = j
  <2>1. CASE at[r] = "begin"
    <3>1. ~Started(r) /\ ~Waits(r)
      BY <2>1, Zenon DEF Started, Waits
    <3>2. ~In(r, tracked)
      BY <3>1, Zenon DEF WaitInv, TracksBegun, In
    <3>3. all = <<r>> \o tracked
      BY <2>1, Zenon
    <3>4. tracked \in Seq(Reqs) /\ Distinct(tracked)
      BY Zenon DEF WaitInv, Typed, TracksBegun, Distinct
    <3>5. all \in Seq(Reqs)
      BY <3>3, <3>4
    <3> HIDE DEF all
    <3>6. (\A q \in Reqs : In(q, all) <=> (q = r \/ In(q, tracked))) /\ Distinct(all)
      BY <3>2, <3>3, <3>4, <3>5, Prepended, Zenon
    <3>7. \A q \in Reqs : In(q, tracked) <=> (Started(q) \/ Waits(q))
      BY Zenon DEF WaitInv, TracksBegun, In
    <3>8. \A q \in Reqs : In(q, all) <=> ((q = r /\ at[r] = "begin") \/ Started(q) \/ Waits(q))
      BY <2>1, <3>6, <3>7, Zenon
    <3> QED
      BY <3>5, <3>6, <3>8, Zenon DEF In, Distinct
  <2>2. CASE at[r] # "begin"
    <3>1. all = tracked
      BY <2>2, Zenon
    <3>2. tracked \in Seq(Reqs) /\ \A i, j \in DOMAIN tracked : tracked[i] = tracked[j] => i = j
      BY Zenon DEF WaitInv, Typed, TracksBegun
    <3>3. \A q \in Reqs : (\E i \in DOMAIN tracked : tracked[i] = q) <=> (Started(q) \/ Waits(q))
      BY Zenon DEF WaitInv, TracksBegun
    <3> HIDE DEF all
    <3> QED
      BY <2>2, <3>1, <3>2, <3>3, Zenon
  <2> QED
    BY <2>1, <2>2, Zenon
<1>3. \A i \in DOMAIN all : all[i] \in Reqs
  BY <1>2, SMTT(30)
<1>4. /\ op[r].kind = "flush" => at[r] = "next"
      /\ at[r] # "next" => ~Started(r) /\ WaitsBefore(Head(todo[r]))
      /\ at[r] = "next" /\ op[r].kind # "flush" => Started(r)
  <2>1. at[r] # "next" => Before(r) /\ ~Started(r)
    BY <1>1, Zenon DEF Before, Started
  <2>2. Before(r) => op[r].kind # "flush" /\ WaitsBefore(Head(todo[r]))
    BY FirstWaits, Zenon DEF WaitInv, NothingDone
  <2> QED
    BY <2>1, <2>2, Zenon DEF Started
<1>5. \A q \in Reqs : Started(q) /\ Conflict(q, r) => blocking # {}
  BY <1>2, SMTT(30) DEF WaitInv, WaitsRecorded, WaitsFor
<1>6. Started(r) => blocking = {}
  <2> SUFFICES ASSUME Started(r), NEW i \in DOMAIN all, WaitsFor(all[i], r) PROVE FALSE
    BY Zenon
  <2>1. all[i] \in Reqs /\ Conflict(all[i], r) /\ waitingFor[all[i]] = None
    BY <1>3, Zenon DEF WaitsFor
  <2>2. all[i] # r
    BY <2>1, Zenon DEF Conflict
  <2>3. Started(all[i]) \/ Waits(all[i])
    BY <1>2, <2>1, <2>2, Zenon
  <2>4. Started(all[i])
    BY <2>1, <2>3, Zenon DEF WaitInv, WaitsRecorded
  <2> QED
    BY <2>1, <2>4, Zenon DEF WaitInv, Excluded
<1>7. \A q \in Reqs \ {r} : at'[q] = at[q] /\ waitingFor'[q] = waitingFor[q]
  <2>1. /\ \E x : at' = [at EXCEPT ![r] = x]
        /\ \E x : waitingFor' = [waitingFor EXCEPT ![r] = x]
    BY Zenon DEF Go
  <2>2. DOMAIN at = Reqs /\ DOMAIN waitingFor = Reqs
    BY Zenon DEF WaitInv, Typed
  <2> QED
    BY <2>1, <2>2, Zenon
<1>8. \A q \in Reqs \ {r} : /\ Started(q)' <=> Started(q)
                            /\ Waits(q)' <=> Waits(q)
                            /\ Before(q)' <=> Before(q)
  BY <1>1, <1>7, Zenon DEF Started, Waits, Before
<1>9. \A p, q \in Reqs : Conflict(p, q)' <=> Conflict(p, q)
  BY <1>1, Zenon DEF Conflict
<1>10. CASE op[r].kind # "flush" /\ WaitsBefore(Head(todo[r])) /\ blocking # {}
  <2>1. PICK i \in blocking :
          /\ at' = [at EXCEPT ![r] = "waiting"]
          /\ waitingFor' = [waitingFor EXCEPT ![r] = all[i]]
          /\ waitQueue' = [waitQueue EXCEPT ![all[i]] = Append(@, r)]
    BY <1>10, Zenon DEF Go, Blocked
  <2>2. all[i] \in Reqs /\ all[i] # None
    BY <1>3 DEF Reqs, None
  <2>3. at[r] \in {"begin", "woken"} /\ Before(r)
    BY <1>1, <1>4, <1>6, <1>10, Zenon DEF Before
  <2> HIDE DEF all, blocking
  <2>4. Typed'
    <3>1. waitQueue[all[i]] \in Seq(Reqs)
      BY <2>2, Zenon DEF WaitInv, Typed
    <3>2. Append(waitQueue[all[i]], r) \in Seq(Reqs)
      BY <3>1
    <3> QED
      BY <1>1, <1>2, <2>1, <2>2, <3>2, Zenon DEF WaitInv, Typed
  <2>5. at'[r] = "waiting" /\ waitingFor'[r] = all[i]
    BY <2>1, Zenon DEF WaitInv, Typed
  <2>6. ~Started(r)' /\ Waits(r)' /\ Before(r)'
    BY <2>5, Zenon DEF Started, Waits, Before
  <2>7. TracksBegun'
    <3>1. \A q \in Reqs : (Started(q)' \/ Waits(q)') <=> \E k \in DOMAIN all : all[k] = q
      <4> SUFFICES ASSUME NEW q \in Reqs
                   PROVE  (Started(q)' \/ Waits(q)') <=> \E k \in DOMAIN all : all[k] = q
        BY Zenon
      <4>1. CASE q = r
        BY <1>2, <2>3, <2>6, <4>1, Zenon DEF Waits
      <4>2. CASE q # r
        BY <1>2, <1>8, <4>2, Zenon
      <4> QED
        BY <4>1, <4>2, Zenon
    <3> QED
      BY <1>1, <1>2, <3>1, Zenon DEF TracksBegun
  <2>8. WaitsRecorded'
    <3>1. ASSUME NEW q \in Reqs
          PROVE  (Waits(q)' => waitingFor'[q] # None) /\ (Started(q)' => waitingFor'[q] = None)
      BY <1>7, <1>8, <2>2, <2>5, <2>6, Zenon DEF WaitInv, WaitsRecorded
    <3>2. ASSUME NEW q \in Reqs, NEW k \in DOMAIN waitQueue'[q]
          PROVE  at'[waitQueue'[q][k]] = "waiting" /\ waitingFor'[waitQueue'[q][k]] = q
      <4>1. waitQueue[q] \in Seq(Reqs)
        BY Zenon DEF WaitInv, Typed
      <4>2. CASE k \in DOMAIN waitQueue[q] /\ waitQueue'[q][k] = waitQueue[q][k]
        <5>1. waitQueue[q][k] \in Reqs /\ at[waitQueue[q][k]] = "waiting"
              /\ waitingFor[waitQueue[q][k]] = q
          BY <4>1, <4>2 DEF WaitInv, WaitsRecorded
        <5>2. waitQueue[q][k] # r
          BY <2>3, <5>1, Zenon
        <5> QED
          BY <1>7, <4>2, <5>1, <5>2, Zenon
      <4>3. CASE q = all[i] /\ waitQueue'[q][k] = r
        BY <2>5, <4>3, Zenon
      <4>4. q # all[i] => waitQueue'[q] = waitQueue[q]
        BY <2>1, Zenon DEF WaitInv, Typed
      <4>5. q = all[i] => waitQueue'[q] = Append(waitQueue[q], r)
        BY <2>1, Zenon DEF WaitInv, Typed
      <4>6. q = all[i] => (k \in DOMAIN waitQueue[q] /\ waitQueue'[q][k] = waitQueue[q][k])
                          \/ waitQueue'[q][k] = r
        BY <4>1, <4>5
      <4> QED
        BY <4>2, <4>3, <4>4, <4>6, Zenon
    <3> QED
      BY <3>1, <3>2, Zenon DEF WaitsRecorded
  <2>9. NothingDone'
    BY <1>1, <1>8, <2>3, Zenon DEF WaitInv, NothingDone
  <2>10. Excluded'
    BY <1>8, <1>9, <2>6, Zenon DEF WaitInv, Excluded
  <2> QED
    BY <2>4, <2>7, <2>8, <2>9, <2>10, Zenon DEF WaitInv
<1>11. CASE ~(op[r].kind # "flush" /\ WaitsBefore(Head(todo[r])) /\ blocking # {})
  <2>1. /\ at' = [at EXCEPT ![r] = "io"]
        /\ waitingFor' = [waitingFor EXCEPT ![r] = None]
        /\ waitQueue' = waitQueue
    BY <1>11, Zenon DEF Go, Blocked
  <2>2. \A q \in Reqs : Started(q) /\ op[r].kind # "flush" => ~Conflict(q, r)
    <3> SUFFICES ASSUME NEW q \in Reqs, Started(q), op[r].kind # "flush", Conflict(q, r)
                 PROVE  FALSE
      BY Zenon
    <3>1. blocking # {}
      BY <1>5, Zenon
    <3>2. at[r] = "next" /\ Started(r)
      BY <1>4, <1>11, <3>1, Zenon
    <3> QED
      BY <1>6, <3>1, <3>2, Zenon
  <2> HIDE DEF all, blocking
  <2>3. Typed'
    BY <1>1, <1>2, <2>1, Zenon DEF WaitInv, Typed
  <2>4. at'[r] = "io" /\ waitingFor'[r] = None
    BY <2>1, Zenon DEF WaitInv, Typed
  <2>5. (Started(r)' <=> op[r].kind # "flush") /\ ~Waits(r)' /\ ~Before(r)'
    BY <1>1, <2>4, Zenon DEF Started, Waits, Before
  <2>6. TracksBegun'
    <3>1. \A q \in Reqs : (Started(q)' \/ Waits(q)') <=> \E k \in DOMAIN all : all[k] = q
      <4> SUFFICES ASSUME NEW q \in Reqs
                   PROVE  (Started(q)' \/ Waits(q)') <=> \E k \in DOMAIN all : all[k] = q
        BY Zenon
      <4>1. CASE q = r
        <5>1. Started(r) \/ Waits(r) \/ at[r] = "begin" <=> op[r].kind # "flush"
          BY <1>1, <1>4, Zenon DEF Started, Waits
        <5> QED
          BY <1>2, <2>5, <4>1, <5>1, Zenon
      <4>2. CASE q # r
        BY <1>2, <1>8, <4>2, Zenon
      <4> QED
        BY <4>1, <4>2, Zenon
    <3> QED
      BY <1>1, <1>2, <3>1, Zenon DEF TracksBegun
  <2>7. WaitsRecorded'
    <3>1. ASSUME NEW q \in Reqs
          PROVE  (Waits(q)' => waitingFor'[q] # None) /\ (Started(q)' => waitingFor'[q] = None)
      BY <1>7, <1>8, <2>4, <2>5, Zenon DEF WaitInv, WaitsRecorded
    <3>2. ASSUME NEW q \in Reqs, NEW k \in DOMAIN waitQueue[q]
          PROVE  at'[waitQueue[q][k]] = "waiting" /\ waitingFor'[waitQueue[q][k]] = q
      <4>1. waitQueue[q] \in Seq(Reqs)
        BY Zenon DEF WaitInv, Typed
      <4>2. waitQueue[q][k] \in Reqs /\ at[waitQueue[q][k]] = "waiting"
            /\ waitingFor[waitQueue[q][k]] = q
        BY <4>1, SMTT(30) DEF WaitInv, WaitsRecorded
      <4> QED
        BY <1>1, <1>7, <4>2, Zenon
    <3> QED
      BY <2>1, <3>1, <3>2, Zenon DEF WaitsRecorded
  <2>8. NothingDone'
    BY <1>1, <1>8, <2>5, Zenon DEF WaitInv, NothingDone
  <2>9. Excluded'
    <3> SUFFICES ASSUME NEW p \in Reqs, NEW q \in Reqs, Started(p)', Started(q)', Conflict(p, q)
                 PROVE  FALSE
      BY <1>9, Zenon DEF Excluded
    <3>1. p # q
      BY Zenon DEF Conflict
    <3>2. CASE p # r /\ q # r
      BY <1>8, <3>2, Zenon DEF WaitInv, Excluded
    <3>3. CASE q = r
      BY <1>8, <2>2, <2>5, <3>1, <3>3, Zenon
    <3>4. CASE p = r
      BY <1>8, <2>2, <2>5, <3>1, <3>4, ConflictIsMutual, Zenon
    <3> QED
      BY <3>2, <3>3, <3>4, Zenon
  <2> QED
    BY <2>3, <2>6, <2>7, <2>8, <2>9, Zenon DEF WaitInv
<1> QED
  BY <1>10, <1>11, Zenon

\* tracked_request_end takes one out.
LEMMA Removed ==
  ASSUME NEW s \in Seq(Reqs), Distinct(s), NEW k \in DOMAIN s
  PROVE  /\ Without(s, k) \in Seq(Reqs) /\ Distinct(Without(s, k))
         /\ \A q \in Reqs : In(q, Without(s, k)) <=> (q # s[k] /\ In(q, s))
<1> DEFINE u == SubSeq(s, 1, k - 1)
           v == SubSeq(s, k + 1, Len(s))
           t == u \o v
<1>1. Len(s) \in Nat /\ k \in 1..Len(s) /\ DOMAIN s = 1..Len(s)
  OBVIOUS
<1>2. u \in Seq(Reqs) /\ Len(u) = k - 1 /\ \A i \in 1..(k - 1) : u[i] = s[i]
  BY <1>1
<1>3. v \in Seq(Reqs) /\ Len(v) = Len(s) - k /\ \A i \in 1..(Len(s) - k) : v[i] = s[k + i]
  BY <1>1, SMTT(30)
<1> HIDE DEF u, v
<1>4. t \in Seq(Reqs) /\ Len(t) = Len(s) - 1 /\ DOMAIN t = 1 .. Len(s) - 1
  <2>1. t \in Seq(Reqs) /\ Len(t) = Len(u) + Len(v)
    BY <1>2, <1>3, Joins, Zenon
  <2>2. Len(t) = Len(s) - 1
    BY <1>1, <1>2, <1>3, <2>1
  <2> QED
    BY <2>1, <2>2
<1>5. \A i \in 1 .. Len(s) - 1 : t[i] = IF i < k THEN s[i] ELSE s[i + 1]
  <2> SUFFICES ASSUME NEW i \in 1 .. Len(s) - 1 PROVE t[i] = IF i < k THEN s[i] ELSE s[i + 1]
    BY Zenon
  <2>1. CASE i < k
    BY <1>1, <1>2, <1>3, <2>1, SMTT(30)
  <2>2. CASE ~(i < k)
    <3>0. i \in Len(u) + 1 .. Len(u) + Len(v) /\ i - (k - 1) \in 1 .. Len(v)
      BY <1>1, <1>2, <1>3, <2>2, SMTT(30)
    <3>1. i - (k - 1) \in 1 .. Len(v) /\ t[i] = v[i - (k - 1)]
      <4>1. \A x \in 1 .. Len(u) + Len(v) : t[x] = IF x <= Len(u) THEN u[x] ELSE v[x - Len(u)]
        BY <1>2, <1>3, Joins, Zenon
      <4> QED
        BY <1>1, <1>2, <3>0, <4>1, SMTT(30)
    <3>2. v[i - (k - 1)] = s[k + (i - (k - 1))] /\ k + (i - (k - 1)) = i + 1
      BY <1>1, <1>3, <3>1
    <3> QED
      BY <2>2, <3>1, <3>2, Zenon
  <2> QED
    BY <2>1, <2>2, Zenon
<1>6. Without(s, k) = t
  BY Zenon DEF Without, u, v
<1> HIDE DEF t
<1>7. \A i \in DOMAIN t : \E j \in DOMAIN s : j # k /\ t[i] = s[j] /\ (j = i \/ j = i + 1)
                                          /\ (j = i <=> i < k)
  <2> SUFFICES ASSUME NEW i \in DOMAIN t
               PROVE  \E j \in DOMAIN s : j # k /\ t[i] = s[j] /\ (j = i \/ j = i + 1)
                                          /\ (j = i <=> i < k)
    BY Zenon
  <2>1. CASE i < k
    BY <1>1, <1>4, <1>5, <2>1
  <2>2. CASE ~(i < k)
    <3>1. i + 1 \in DOMAIN s /\ i + 1 # k /\ i + 1 # i
      BY <1>1, <1>4, <2>2
    <3>2. t[i] = s[i + 1]
      BY <1>4, <1>5, <2>2, Zenon
    <3> QED
      BY <2>2, <3>1, <3>2, Zenon
  <2> QED
    BY <2>1, <2>2, Zenon
<1>8. Distinct(t)
  <2> SUFFICES ASSUME NEW i \in DOMAIN t, NEW j \in DOMAIN t, t[i] = t[j] PROVE i = j
    BY Zenon DEF Distinct
  <2>1. PICK x \in DOMAIN s : x # k /\ t[i] = s[x] /\ (x = i \/ x = i + 1) /\ (x = i <=> i < k)
    BY <1>7, Zenon
  <2>2. PICK y \in DOMAIN s : y # k /\ t[j] = s[y] /\ (y = j \/ y = j + 1) /\ (y = j <=> j < k)
    BY <1>7, Zenon
  <2>3. x = y
    BY <2>1, <2>2, Zenon DEF Distinct
  <2> QED
    BY <1>1, <1>4, <2>1, <2>2, <2>3
<1>9. ASSUME NEW q \in Reqs PROVE In(q, t) <=> (q # s[k] /\ In(q, s))
  <2>1. ASSUME NEW i \in DOMAIN t, t[i] = q PROVE q # s[k] /\ In(q, s)
    BY <1>7, <2>1, Zenon DEF In, Distinct
  <2>2. ASSUME NEW j \in DOMAIN s, s[j] = q, q # s[k] PROVE In(q, t)
    <3>1. CASE j < k
      <4>1. j \in DOMAIN t /\ t[j] = q
        BY <1>1, <1>4, <1>5, <2>2, <3>1
      <4> QED
        BY <4>1, Zenon DEF In
    <3>2. CASE ~(j < k)
      <4>1. j # k
        BY <2>2, Zenon
      <4>2. j - 1 \in DOMAIN t /\ ~(j - 1 < k) /\ (j - 1) + 1 = j
        BY <1>1, <1>4, <3>2, <4>1
      <4>3. t[j - 1] = q
        BY <1>4, <1>5, <2>2, <4>2
      <4> QED
        BY <4>2, <4>3, Zenon DEF In
    <3> QED
      BY <3>1, <3>2, Zenon
  <2> QED
    BY <2>1, <2>2, Zenon DEF In
<1> QED
  BY <1>4, <1>6, <1>8, <1>9, Zenon

LEMMA WaitEnd ==
  ASSUME WaitInv, NEW r \in Reqs, End(r) PROVE WaitInv'
<1>1. /\ at[r] \in {"io", "landed"}
      /\ at' = [q \in Reqs |-> IF q = r THEN "done"
                                ELSE IF q \in Range(waitQueue[r]) THEN "woken" ELSE at[q]]
      /\ waitQueue' = [waitQueue EXCEPT ![r] = <<>>]
      /\ op' = [op EXCEPT ![r] = NoOp] /\ todo' = [todo EXCEPT ![r] = <<>>]
      /\ waitingFor' = waitingFor
  BY Zenon DEF End, Restarted
<1>2. tracked \in Seq(Reqs) /\ Distinct(tracked)
      /\ \A q \in Reqs : In(q, tracked) <=> (Started(q) \/ Waits(q))
  BY Zenon DEF WaitInv, Typed, TracksBegun, In, Distinct
<1>3. tracked' \in Seq(Reqs) /\ Distinct(tracked')
      /\ \A q \in Reqs : In(q, tracked') <=> (q # r /\ In(q, tracked))
  <2>1. CASE r \notin Range(tracked) /\ UNCHANGED tracked
    <3>1. ~In(r, tracked)
      BY <2>1, Zenon DEF In, Range
    <3> QED
      BY <1>2, <2>1, <3>1, Zenon
  <2>2. ASSUME NEW i \in DOMAIN tracked, tracked[i] = r, tracked' = Without(tracked, i)
        PROVE  tracked' \in Seq(Reqs) /\ Distinct(tracked')
               /\ \A q \in Reqs : In(q, tracked') <=> (q # r /\ In(q, tracked))
    <3>1. /\ Without(tracked, i) \in Seq(Reqs) /\ Distinct(Without(tracked, i))
          /\ \A q \in Reqs : In(q, Without(tracked, i)) <=> (q # tracked[i] /\ In(q, tracked))
      BY <1>2, Removed, Zenon
    <3> QED
      BY <2>2, <3>1, Zenon
  <2> QED
    BY <2>1, <2>2, Zenon DEF End, Untrack
<1>4. \A q \in Reqs : q \in Range(waitQueue[r]) <=> In(q, waitQueue[r])
  BY Zenon DEF Range, In
<1>5. \A q \in Reqs : In(q, waitQueue[r]) => at[q] = "waiting" /\ waitingFor[q] = r
  BY DEF WaitInv, WaitsRecorded, In
<1>6. /\ at'[r] = "done"
      /\ \A q \in Reqs \ {r} : /\ op'[q] = op[q] /\ todo'[q] = todo[q]
                              /\ at'[q] = (IF In(q, waitQueue[r]) THEN "woken" ELSE at[q])
  BY <1>1, <1>4, Zenon DEF WaitInv, Typed
<1>7. ~Started(r)' /\ ~Waits(r)' /\ ~Before(r)'
  BY <1>6, Zenon DEF Started, Waits, Before
<1>8. \A q \in Reqs \ {r} : /\ Started(q)' <=> Started(q)
                            /\ Waits(q)' <=> Waits(q)
                            /\ Before(q)' <=> Before(q)
  BY <1>5, <1>6, Zenon DEF Started, Waits, Before
<1>9. Typed'
  BY <1>1, <1>3 DEF WaitInv, Typed
<1>10. TracksBegun'
  <2>1. \A q \in Reqs : (Started(q)' \/ Waits(q)') <=> In(q, tracked')
    BY <1>2, <1>3, <1>7, <1>8, Zenon
  <2> QED
    BY <1>3, <2>1, Zenon DEF TracksBegun, In, Distinct
<1>11. WaitsRecorded'
  <2>1. ASSUME NEW q \in Reqs
        PROVE  (Waits(q)' => waitingFor'[q] # None) /\ (Started(q)' => waitingFor'[q] = None)
    BY <1>1, <1>7, <1>8, Zenon DEF WaitInv, WaitsRecorded
  <2>2. ASSUME NEW q \in Reqs, NEW k \in DOMAIN waitQueue'[q]
        PROVE  at'[waitQueue'[q][k]] = "waiting" /\ waitingFor'[waitQueue'[q][k]] = q
    <3>1. q # r /\ waitQueue'[q] = waitQueue[q]
      BY <1>1, <2>2 DEF WaitInv, Typed
    <3> DEFINE x == waitQueue[q][k]
    <3>2. x \in Reqs
      <4>1. waitQueue[q] \in Seq(Reqs)
        BY Zenon DEF WaitInv, Typed
      <4> QED
        BY <2>2, <3>1, <4>1, SMTT(30)
    <3>3. at[x] = "waiting" /\ waitingFor[x] = q
      BY <2>2, <3>1, Zenon DEF WaitInv, WaitsRecorded
    <3>4. x # r /\ ~In(x, waitQueue[r])
      BY <1>1, <1>5, <3>1, <3>2, <3>3, Zenon
    <3> HIDE DEF x
    <3>5. at'[x] = "waiting" /\ waitingFor'[x] = q
      BY <1>1, <1>6, <3>2, <3>3, <3>4, Zenon
    <3> QED
      BY <3>1, <3>5, Zenon DEF x
  <2> QED
    BY <2>1, <2>2, Zenon DEF WaitsRecorded
<1>12. NothingDone'
  BY <1>6, <1>7, <1>8, Zenon DEF WaitInv, NothingDone
<1>13. Excluded'
  <2> SUFFICES ASSUME NEW p \in Reqs, NEW q \in Reqs, Started(p)', Started(q)', Conflict(p, q)'
               PROVE  FALSE
    BY Zenon DEF Excluded
  <2>1. p # r /\ q # r
    BY <1>7, Zenon
  <2>2. Conflict(p, q)
    BY <1>6, <2>1, Zenon DEF Conflict
  <2> QED
    BY <1>8, <2>1, <2>2, Zenon DEF WaitInv, Excluded
<1> QED
  BY <1>9, <1>10, <1>11, <1>12, <1>13, Zenon DEF WaitInv

LEMMA WaitNext == WaitInv /\ [Next]_vars => WaitInv'
<1> SUFFICES ASSUME WaitInv, [Next]_vars PROVE WaitInv'
  BY Zenon
<1>1. CASE UNCHANGED <<op, at, todo, trackVars>>
  <2>1. UNCHANGED <<op, at, todo>> /\ UNCHANGED <<tracked, waitingFor, waitQueue>>
    BY <1>1, Zenon DEF trackVars
  <2>2. Typed'
    BY <2>1, Zenon DEF WaitInv, Typed
  <2>3. TracksBegun'
    BY <2>1, Zenon DEF WaitInv, TracksBegun, Started, Waits
  <2>4. WaitsRecorded'
    BY <2>1 DEF WaitInv, WaitsRecorded, Started, Waits
  <2>5. NothingDone'
    BY <2>1, Zenon DEF WaitInv, NothingDone, Before
  <2>6. Excluded'
    BY <2>1, Zenon DEF WaitInv, Excluded, Started, Conflict
  <2> QED
    BY <2>2, <2>3, <2>4, <2>5, <2>6, Zenon DEF WaitInv
<1>2. ASSUME NEW r \in Reqs, NEW o \in Ops, Submit(r, o) PROVE WaitInv'
  BY <1>2, WaitSubmit, Zenon
<1>3. ASSUME NEW r \in Reqs, Runs(r) \/ Effect(r) \/ Resume(r) \/ End(r) PROVE WaitInv'
  BY <1>3, WaitAdmit, WaitGo, WaitEffect, WaitResume, WaitEnd, Zenon DEF Runs
<1>4. ASSUME NEW w \in BOOLEAN, TimerFires(w) PROVE WaitInv'
  BY <1>1, <1>4, Zenon DEF TimerFires
<1>5. CASE SetIoLimits \/ DrainBegin \/ Drain
  BY <1>1, <1>5, Zenon DEF SetIoLimits, DrainBegin, Drain, DrainPolls, DrainEnds, DrainStarts
<1>6. CASE UNCHANGED vars
  BY <1>1, <1>6, Zenon DEF vars
<1> QED
  BY <1>2, <1>3, <1>4, <1>5, <1>6, Zenon DEF Next

\* The two assertions about "waited" in block.c never fail: a request that has begun
\* its read-modify-write cycle or its copy on read has excluded all that conflict with
\* it, so it does not wait again. For any requests, alignment and cluster size.
THEOREM CycleNeverWaits == Spec => []NoWaitInsideCycle
<1>1. WaitInv => NoWaitInsideCycle
  BY Zenon DEF WaitInv, NothingDone, Before, NoWaitInsideCycle
<1> QED
  BY WaitInit, WaitNext, <1>1, PTL DEF Spec

-----------------------------------------------------------------------------
\* Which operations there are for a kind of request, and in which order: the reads of
\* a cycle come first.
OfKind(kind) ==
  CASE kind = "write" -> {"head", "tail", "write", "flush"}
    [] kind = "cor"   -> {"copyRead", "copyWrite", "read"}
    [] OTHER          -> {"read", "flush"}

InOrder(s) ==
  \A i, j \in DOMAIN s : i < j =>
    (s[j] \in {"head", "tail"} => s[i] = "head") /\ s[j] # "copyRead"

Fits(o, s) ==
  /\ s \in Seq(Ios) /\ s # <<>> /\ InOrder(s)
  /\ \A i \in DOMAIN s : s[i] \in OfKind(o.kind)

\* The operation has still to take effect.
Pending(r, io) ==
  \E i \in DOMAIN todo[r] : todo[r][i] = io /\ (at[r] = "landed" => i > 1)

Alive(r) == at[r] \notin {"new", "done"}

\* The byte b, if r is going to store it but does not write it itself.
Keeps(r, b) ==
  /\ op[r].kind = "write" /\ b \in IoBytes(op[r], "write") \ Guest(op[r]) =>
       \/ b \in IoBytes(op[r], "head") /\ Pending(r, "head")
       \/ b \in IoBytes(op[r], "tail") /\ Pending(r, "tail")
       \/ buf[r][b] = disk[b]
  /\ op[r].kind = "cor" /\ b \in IoBytes(op[r], "copyWrite") /\ Pending(r, "copyWrite") =>
       Pending(r, "copyRead") \/ buf[r][b] = disk[b]

DataTyped ==
  /\ buf \in [Reqs -> [Bytes -> Reqs \cup {None}]]
  /\ disk \in [Bytes -> Reqs \cup {None}]

KeepInv ==
  /\ DataTyped
  /\ \A r \in Reqs : Alive(r) => op[r] \in Ops /\ Fits(op[r], todo[r])
  /\ \A r \in Reqs, b \in Bytes : Started(r) => Keeps(r, b)

-----------------------------------------------------------------------------
(* Where a request reads and writes.                                       *)

LEMMA ModUnique ==
  ASSUME NEW a \in Nat \ {0}, NEW x \in Nat, NEW k \in Nat, NEW m \in 0 .. a - 1, x = a * k + m
  PROVE  x % a = m
OBVIOUS

LEMMA ModNext ==
  ASSUME NEW a \in Nat \ {0}, NEW x \in Nat
  PROVE  /\ x % a \in 0 .. a - 1
         /\ (x + a) % a = x % a
         /\ (x + a - 1) % a = IF x % a = 0 THEN a - 1 ELSE (x % a) - 1
<1>1. x % a \in 0 .. a - 1
  OBVIOUS
<1>2. PICK k \in Nat : x = a * k + (x % a)
  <2>1. x \div a \in Nat /\ x = a * (x \div a) + (x % a)
    OBVIOUS
  <2> QED
    BY <2>1, Zenon
<1>3. x + a = a * (k + 1) + (x % a) /\ x + a \in Nat /\ x + a - 1 \in Nat /\ k + 1 \in Nat
  BY <1>1, <1>2
<1>4. (x + a) % a = x % a
  BY <1>1, <1>3, ModUnique, Zenon
<1>5. CASE x % a = 0
  <2>1. x + a - 1 = a * k + (a - 1) /\ a - 1 \in 0 .. a - 1
    BY <1>2, <1>5
  <2>2. (x + a - 1) % a = a - 1
    BY <1>2, <1>3, <2>1, ModUnique, Zenon
  <2> QED
    BY <1>1, <1>4, <1>5, <2>2, Zenon
<1>6. CASE x % a # 0
  <2>1. x + a - 1 = a * (k + 1) + ((x % a) - 1) /\ (x % a) - 1 \in 0 .. a - 1
    BY <1>1, <1>3, <1>6
  <2>2. (x + a - 1) % a = (x % a) - 1
    BY <1>3, <2>1, ModUnique, Zenon
  <2> QED
    BY <1>1, <1>4, <1>6, <2>2, Zenon
<1> QED
  BY <1>1, <1>4, <1>5, <1>6, Zenon

\* What aligning adds in front is in the first block, what it adds behind in the last.
LEMMA Blocks ==
  ASSUME NEW a \in Nat \ {0}, NEW x \in Nat, NEW y \in Nat, NEW b \in Int
  PROVE  /\ x <= b /\ b < y => b \in Aligned(x, y, a)
         /\ b \in Aligned(x, y, a) /\ b < x => x % a # 0 /\ b \in Aligned(x, x + 1, a)
         /\ b \in Aligned(x, y, a) /\ b >= y => y % a # 0 /\ (x < y => b \in Aligned(y, y + 1, a))
<1>1. /\ x % a \in 0 .. a - 1 /\ y % a \in 0 .. a - 1
      /\ (x + a) % a = x % a /\ (y + a) % a = y % a
      /\ (x + a - 1) % a = IF x % a = 0 THEN a - 1 ELSE (x % a) - 1
      /\ (y + a - 1) % a = IF y % a = 0 THEN a - 1 ELSE (y % a) - 1
  BY ModNext, Zenon
<1>2. x + 1 + a - 1 = x + a /\ y + 1 + a - 1 = y + a
  OBVIOUS
<1> QED
  BY <1>1, <1>2 DEF Aligned, Up, Down

\* The numbers of an operation.
LEMMA OpRange ==
  ASSUME NEW o \in Ops
  PROVE  /\ o.off \in Nat /\ o.len \in Nat \ {0} /\ o.off + o.len \in Nat
         /\ Align \in Nat \ {0} /\ o.kind \in {"write", "read", "cor", "flush"}
BY BlockIOAssumption DEF Bytes

\* What an unaligned write stores around its own bytes was read by the "head" or by
\* the "tail" operation, and is in the request's overlap.
LEMMA Around ==
  ASSUME NEW o \in Ops, o.kind = "write", NEW b \in IoBytes(o, "write") \ Guest(o)
  PROVE  /\ Serialising(o) /\ b \in Overlap(o)
         /\ \/ HeadUnaligned(o) /\ b \in IoBytes(o, "head")
            \/ TailUnaligned(o) /\ b \in IoBytes(o, "tail")
<1> DEFINE x == o.off
           y == o.off + o.len
<1>1. x \in Nat /\ y \in Nat /\ x < y /\ Align \in Nat \ {0}
  BY OpRange
<1>2. b \in Aligned(x, y, Align)
  BY Zenon DEF IoBytes
<1>3. b \in Int
  BY <1>2 DEF Aligned
<1>4. b < x \/ b >= y
  <2>1. b \notin x .. y - 1
    BY OpRange DEF Guest
  <2> HIDE DEF x, y
  <2> QED
    BY <1>1, <1>3, <2>1
<1>5. \/ x % Align # 0 /\ b \in Aligned(x, x + 1, Align)
      \/ y % Align # 0 /\ b \in Aligned(y, y + 1, Align)
  BY <1>1, <1>2, <1>3, <1>4, Blocks, Zenon
<1>6. \/ HeadUnaligned(o) /\ b \in IoBytes(o, "head")
      \/ TailUnaligned(o) /\ b \in IoBytes(o, "tail")
  <2>1. /\ IoBytes(o, "head") = Aligned(x, x + 1, Align)
        /\ IoBytes(o, "tail") = Aligned(y, y + 1, Align)
    BY Zenon DEF IoBytes
  <2> QED
    BY <1>5, <2>1, Zenon DEF HeadUnaligned, TailUnaligned
<1>7. Serialising(o)
  BY <1>6, Zenon DEF Serialising
<1>8. Overlap(o) = Aligned(x, y, Align)
  BY <1>7, Zenon DEF Overlap
<1> QED
  BY <1>2, <1>6, <1>7, <1>8, Zenon

LEMMA GuestOverlaps ==
  ASSUME NEW o \in Ops, o.kind = "write", NEW b \in Guest(o)
  PROVE  b \in Overlap(o)
<1>1. o.off \in Nat /\ o.off + o.len \in Nat /\ Align \in Nat \ {0}
  BY OpRange, Zenon
<1>2. b \in Int /\ o.off <= b /\ b < o.off + o.len
  BY <1>1, OpRange DEF Guest
<1>3. b \in Aligned(o.off, o.off + o.len, Align)
  BY <1>1, <1>2, Blocks, Zenon
<1> QED
  BY <1>3, Zenon DEF Overlap

LEMMA CopyOverlaps ==
  ASSUME NEW o \in Ops, o.kind = "cor"
  PROVE  Serialising(o) /\ IoBytes(o, "copyWrite") = Overlap(o)
BY Zenon DEF Serialising, IoBytes, Overlap

-----------------------------------------------------------------------------
(* The order of the operations.                                            *)

LEMMA TailFits ==
  ASSUME NEW o, NEW s, Fits(o, s), Len(s) > 1 PROVE Fits(o, Tail(s))
<1>1. s \in Seq(Ios) /\ Len(s) \in Nat
  BY DEF Fits
<1>2. /\ Tail(s) \in Seq(Ios) /\ DOMAIN Tail(s) = 1 .. Len(s) - 1 /\ Tail(s) # <<>>
      /\ \A i \in 1 .. Len(s) - 1 : Tail(s)[i] = s[i + 1]
  <2>1. s # <<>>
    BY <1>1
  <2>2. /\ Tail(s) \in Seq(Ios) /\ Len(Tail(s)) = Len(s) - 1
        /\ \A i \in 1 .. Len(Tail(s)) : Tail(s)[i] = s[i + 1]
    BY <1>1, <2>1, TailShifts, Zenon
  <2>3. Tail(s) # <<>>
    <3>1. Len(Tail(s)) # 0
      BY <1>1, <2>2
    <3>2. Len(<<>>) = 0
      BY Zenon
    <3> QED
      BY <3>1, <3>2, Zenon
  <2>4. DOMAIN Tail(s) = 1 .. Len(s) - 1
    BY <2>2
  <2> QED
    BY <2>2, <2>3, <2>4, Zenon
<1>3. \A i \in 1 .. Len(s) - 1 : i + 1 \in DOMAIN s
  BY <1>1
<1>4. InOrder(Tail(s))
  <2> SUFFICES ASSUME NEW i \in 1 .. Len(s) - 1, NEW j \in 1 .. Len(s) - 1, i < j
               PROVE  (s[j + 1] \in {"head", "tail"} => s[i + 1] = "head") /\ s[j + 1] # "copyRead"
    BY <1>2, Zenon DEF InOrder
  <2>1. i + 1 < j + 1 /\ i + 1 \in DOMAIN s /\ j + 1 \in DOMAIN s
    BY <1>1, <1>3
  <2> QED
    BY <2>1, Zenon DEF Fits, InOrder
<1>5. \A i \in DOMAIN Tail(s) : Tail(s)[i] \in OfKind(o.kind)
  BY <1>2, <1>3, Zenon DEF Fits
<1> QED
  BY <1>2, <1>4, <1>5, Zenon DEF Fits

Has(s, io) == \E i \in DOMAIN s : s[i] = io

LEMMA SequenceFits ==
  ASSUME NEW o \in Ops, NEW ios \in IoSequences(o)
  PROVE  /\ Fits(o, ios)
         /\ o.kind = "write" /\ HeadUnaligned(o) => Has(ios, "head")
         /\ o.kind = "write" /\ TailUnaligned(o) => Has(ios, "tail")
         /\ o.kind = "cor" /\ Has(ios, "copyWrite") => Has(ios, "copyRead")
<1>1. o.kind \in {"write", "read", "cor", "flush"} /\ ios \in Seq(Ios) /\ ios # <<>>
  BY OpRange, FirstWaits, Zenon
<1>2. CASE o.kind = "read" \/ o.kind = "flush"
  <2>1. ios = <<"read">> \/ ios = <<"flush">>
    BY <1>2, Zenon DEF IoSequences
  <2>2. OfKind(o.kind) = {"read", "flush"}
    BY <1>2, Zenon DEF OfKind
  <2>3. DOMAIN ios = 1..1 /\ ios[1] \in {"read", "flush"}
    BY <2>1
  <2>4. InOrder(ios) /\ \A i \in DOMAIN ios : ios[i] \in OfKind(o.kind)
    BY <2>2, <2>3 DEF InOrder
  <2> QED
    BY <1>1, <1>2, <2>4, Zenon DEF Fits
<1>3. CASE o.kind = "cor"
  <2>1. ios = <<"copyRead", "copyWrite">> \/ ios = <<"read">>
    BY <1>3, Zenon DEF IoSequences
  <2>2. OfKind(o.kind) = {"copyRead", "copyWrite", "read"}
    BY <1>3, Zenon DEF OfKind
  <2>3. \/ DOMAIN ios = 1..2 /\ ios[1] = "copyRead" /\ ios[2] = "copyWrite"
        \/ DOMAIN ios = 1..1 /\ ios[1] = "read"
    BY <2>1
  <2>4. InOrder(ios) /\ \A i \in DOMAIN ios : ios[i] \in OfKind(o.kind)
    BY <2>2, <2>3 DEF InOrder
  <2>5. Has(ios, "copyWrite") => Has(ios, "copyRead")
    BY <2>3 DEF Has
  <2> QED
    BY <1>1, <1>3, <2>4, <2>5, Zenon DEF Fits
<1>4. CASE o.kind = "write"
  <2> DEFINE h == IF HeadUnaligned(o) THEN <<"head">> ELSE <<>>
             t == IF TailUnaligned(o) THEN <<"tail">> ELSE <<>>
             f == IF WriteThrough THEN <<"flush">> ELSE <<>>
  <2>1. ios = h \o t \o <<"write">> \o f
    BY <1>4, Zenon DEF IoSequences
  <2> DEFINE n == IF HeadUnaligned(o) THEN 1 ELSE 0
             m == IF TailUnaligned(o) THEN 1 ELSE 0
             k == IF WriteThrough THEN 1 ELSE 0
  <2>2. /\ DOMAIN ios = 1 .. n + m + 1 + k
        /\ n = 1 => ios[1] = "head"
        /\ m = 1 => ios[n + 1] = "tail"
        /\ ios[n + m + 1] = "write"
        /\ k = 1 => ios[n + m + 2] = "flush"
    <3>1. CASE HeadUnaligned(o) /\ TailUnaligned(o)
      BY <2>1, <3>1
    <3>2. CASE HeadUnaligned(o) /\ ~TailUnaligned(o)
      BY <2>1, <3>2
    <3>3. CASE ~HeadUnaligned(o) /\ TailUnaligned(o)
      BY <2>1, <3>3
    <3>4. CASE ~HeadUnaligned(o) /\ ~TailUnaligned(o)
      BY <2>1, <3>4
    <3> QED
      BY <3>1, <3>2, <3>3, <3>4, Zenon
  <2>3. n \in 0..1 /\ m \in 0..1 /\ k \in 0..1
    OBVIOUS
  <2>4. (HeadUnaligned(o) => n = 1) /\ (TailUnaligned(o) => m = 1)
    BY Zenon
  <2>5. OfKind(o.kind) = {"head", "tail", "write", "flush"}
    BY <1>4, Zenon DEF OfKind
  <2> HIDE DEF n, m, k
  <2>6. \A i \in DOMAIN ios :
          \/ i = 1 /\ n = 1 /\ ios[i] = "head"
          \/ i = n + 1 /\ m = 1 /\ ios[i] = "tail"
          \/ i > n + m /\ ios[i] \in {"write", "flush"}
    <3> SUFFICES ASSUME NEW i \in DOMAIN ios
                 PROVE  \/ i = 1 /\ n = 1 /\ ios[i] = "head"
                        \/ i = n + 1 /\ m = 1 /\ ios[i] = "tail"
                        \/ i > n + m /\ ios[i] \in {"write", "flush"}
      BY Zenon
    <3>4. i \in 1 .. n + m + 1 + k
      BY <2>2, Zenon
    <3>1. i \in 1..n \/ (m = 1 /\ i = n + 1) \/ i = n + m + 1 \/ (k = 1 /\ i = n + m + 2)
      BY <2>3, <3>4
    <3>2. CASE i \in 1..n
      BY <2>2, <2>3, <3>2
    <3>3. CASE i \notin 1..n
      BY <2>2, <2>3, <3>1, <3>3
    <3> QED
      BY <3>2, <3>3, Zenon
  <2>7. InOrder(ios)
    <3> SUFFICES ASSUME NEW i \in DOMAIN ios, NEW j \in DOMAIN ios, i < j
                 PROVE  (ios[j] \in {"head", "tail"} => ios[i] = "head") /\ ios[j] # "copyRead"
      BY Zenon DEF InOrder
    <3>1. i \in Nat /\ j \in Nat /\ i >= 1
      BY <2>2, <2>3
    <3>2. ios[j] \in {"head", "tail"} => j = n + 1 /\ i = 1 /\ n = 1
      BY <2>3, <2>6, <3>1
    <3> QED
      BY <2>2, <2>6, <3>2, Zenon
  <2>8. \A i \in DOMAIN ios : ios[i] \in OfKind(o.kind)
    BY <2>5, <2>6, Zenon
  <2>9. (HeadUnaligned(o) => Has(ios, "head")) /\ (TailUnaligned(o) => Has(ios, "tail"))
    BY <2>2, <2>3, <2>4 DEF Has
  <2> QED
    BY <1>1, <1>4, <2>7, <2>8, <2>9, Zenon DEF Fits
<1> QED
  BY <1>1, <1>2, <1>3, <1>4, Zenon

-----------------------------------------------------------------------------
(* The invariant.                                                          *)

LEMMA KeepInit == Init => KeepInv
<1> SUFFICES ASSUME Init PROVE KeepInv
  BY Zenon
<1>1. DataTyped
  BY Zenon DEF Init, DataTyped
<1>2. \A r \in Reqs : ~Alive(r) /\ ~Started(r)
  BY Zenon DEF Init, Alive, Started
<1> QED
  BY <1>1, <1>2, Zenon DEF KeepInv

\* What stays the same keeps what it kept.
LEMMA KeepSame ==
  ASSUME NEW r \in Reqs, NEW b \in Bytes, Keeps(r, b), op'[r] = op[r], buf'[r] = buf[r],
         disk'[b] = disk[b],
         \A io \in Ios : Pending(r, io)' <=> Pending(r, io)
  PROVE  Keeps(r, b)'
BY Zenon DEF Keeps, Ios

LEMMA PendingSame ==
  ASSUME NEW r \in Reqs, todo'[r] = todo[r], at'[r] = "landed" <=> at[r] = "landed"
  PROVE  \A io \in Ios : Pending(r, io)' <=> Pending(r, io)
BY Zenon DEF Pending

\* The steps of r that change neither the image nor a buffer.
LEMMA KeepMoves ==
  ASSUME KeepInv, NEW r \in Reqs, UNCHANGED dataVars,
         \A q \in Reqs \ {r} : at'[q] = at[q] /\ op'[q] = op[q] /\ todo'[q] = todo[q],
         Alive(r)' => op'[r] \in Ops /\ Fits(op'[r], todo'[r]),
         \A b \in Bytes : Started(r)' => Keeps(r, b)'
  PROVE  KeepInv'
<1> USE DEF dataVars
<1>1. DataTyped'
  BY Zenon DEF KeepInv, DataTyped
<1>2. ASSUME NEW q \in Reqs, Alive(q)' PROVE op'[q] \in Ops /\ Fits(op'[q], todo'[q])
  <2>1. CASE q # r
    BY <1>2, <2>1, Zenon DEF KeepInv, Alive
  <2> QED
    BY <1>2, <2>1, Zenon
<1>3. ASSUME NEW q \in Reqs, NEW b \in Bytes, Started(q)' PROVE Keeps(q, b)'
  <2>1. CASE q # r
    <3>1. at'[q] = at[q] /\ op'[q] = op[q] /\ todo'[q] = todo[q]
      BY <2>1, Zenon
    <3>2. Started(q) /\ Keeps(q, b)
      BY <1>3, <3>1, Zenon DEF KeepInv, Started
    <3>3. \A io \in Ios : Pending(q, io)' <=> Pending(q, io)
      BY <3>1, PendingSame, Zenon
    <3> QED
      BY <3>1, <3>2, <3>3, KeepSame, Zenon
  <2> QED
    BY <1>3, <2>1, Zenon
<1> QED
  BY <1>1, <1>2, <1>3, Zenon DEF KeepInv

LEMMA KeepSubmit ==
  ASSUME WaitInv, KeepInv, NEW r \in Reqs, NEW o \in Ops, Submit(r, o) PROVE KeepInv'
<1>1. PICK ios \in IoSequences(o) : todo' = [todo EXCEPT ![r] = ios]
  BY Zenon DEF Submit
<1>2. PICK w \in {"next", "throttled"} :
        at' = [at EXCEPT ![r] = w] /\ (w = "next" <=> o.kind = "flush")
  BY Zenon DEF Submit
<1>3. op' = [op EXCEPT ![r] = o] /\ UNCHANGED dataVars
  BY Zenon DEF Submit
<1>4. /\ op'[r] = o /\ todo'[r] = ios /\ at'[r] = w
      /\ \A q \in Reqs \ {r} : at'[q] = at[q] /\ op'[q] = op[q] /\ todo'[q] = todo[q]
  BY <1>1, <1>2, <1>3, Zenon DEF WaitInv, Typed
<1>5. Fits(o, ios)
  BY SequenceFits, Zenon
<1>6. ~Started(r)'
  BY <1>2, <1>4, Zenon DEF Started
<1> QED
  BY <1>3, <1>4, <1>5, <1>6, KeepMoves, Zenon

LEMMA KeepAdmit ==
  ASSUME WaitInv, KeepInv, NEW r \in Reqs, Admit(r) PROVE KeepInv'
<1>1. /\ at[r] = "throttled" /\ at' = [at EXCEPT ![r] = "begin"]
      /\ UNCHANGED <<op, todo, dataVars>>
  BY Zenon DEF Admit
<1>2. at'[r] = "begin" /\ \A q \in Reqs \ {r} : at'[q] = at[q]
  BY <1>1, Zenon DEF WaitInv, Typed
<1>3. op[r] \in Ops /\ Fits(op[r], todo[r])
  BY <1>1, Zenon DEF KeepInv, Alive
<1>4. ~Started(r)'
  BY <1>2, Zenon DEF Started
<1> QED
  BY <1>1, <1>2, <1>3, <1>4, KeepMoves, Zenon

\* A request that starts has everything still to read.
LEMMA KeepBefore ==
  ASSUME WaitInv, NEW r \in Reqs, NEW b \in Bytes, Before(r) PROVE Keeps(r, b)
<1>1. op[r] \in Ops /\ todo[r] \in IoSequences(op[r]) /\ at[r] # "landed"
  BY Zenon DEF WaitInv, NothingDone, Before
<1>2. \A io \in Ios : Pending(r, io) <=> Has(todo[r], io)
  BY <1>1, Zenon DEF Pending, Has
<1>3. /\ op[r].kind = "write" /\ HeadUnaligned(op[r]) => Pending(r, "head")
      /\ op[r].kind = "write" /\ TailUnaligned(op[r]) => Pending(r, "tail")
      /\ op[r].kind = "cor" /\ Pending(r, "copyWrite") => Pending(r, "copyRead")
  BY <1>1, <1>2, SequenceFits, Zenon DEF Ios
<1>4. op[r].kind = "write" /\ b \in IoBytes(op[r], "write") \ Guest(op[r]) =>
        \/ HeadUnaligned(op[r]) /\ b \in IoBytes(op[r], "head")
        \/ TailUnaligned(op[r]) /\ b \in IoBytes(op[r], "tail")
  BY <1>1, Around, Zenon
<1> QED
  BY <1>3, <1>4, Zenon DEF Keeps

LEMMA KeepGo ==
  ASSUME WaitInv, KeepInv, NEW r \in Reqs, Go(r) PROVE KeepInv'
<1>1. at[r] \in {"begin", "woken", "next"} /\ UNCHANGED <<op, todo, dataVars>>
  BY Zenon DEF Go
<1>2. at'[r] \in {"waiting", "io"} /\ \A q \in Reqs \ {r} : at'[q] = at[q]
  BY Zenon DEF Go, WaitInv, Typed
<1>3. op[r] \in Ops /\ Fits(op[r], todo[r])
  BY <1>1, Zenon DEF KeepInv, Alive
<1>4. ASSUME NEW b \in Bytes, Started(r)' PROVE Keeps(r, b)'
  <2>1. Keeps(r, b)
    <3>1. CASE at[r] = "next"
      <4>1. Started(r)
        BY <1>1, <1>4, <3>1, Zenon DEF Started
      <4> QED
        BY <4>1, Zenon DEF KeepInv
    <3>2. CASE at[r] # "next"
      <4>1. Before(r)
        BY <1>1, <3>2, Zenon DEF Before
      <4> QED
        BY <4>1, KeepBefore, Zenon
    <3> QED
      BY <3>1, <3>2, Zenon
  <2>2. todo'[r] = todo[r] /\ (at'[r] = "landed" <=> at[r] = "landed")
    BY <1>1, <1>2, Zenon
  <2>3. \A io \in Ios : Pending(r, io)' <=> Pending(r, io)
    BY <2>2, PendingSame, Zenon
  <2> QED
    BY <1>1, <2>1, <2>3, KeepSame, Zenon DEF dataVars
<1> QED
  BY <1>1, <1>2, <1>3, <1>4, KeepMoves, Zenon

LEMMA KeepResume ==
  ASSUME WaitInv, KeepInv, NEW r \in Reqs, Resume(r) PROVE KeepInv'
<1>1. /\ at[r] = "landed" /\ at' = [at EXCEPT ![r] = "next"]
      /\ todo' = [todo EXCEPT ![r] = Tail(@)] /\ Len(todo[r]) > 1
      /\ UNCHANGED <<op, dataVars>>
  BY Zenon DEF Resume
<1>2. /\ at'[r] = "next" /\ todo'[r] = Tail(todo[r])
      /\ \A q \in Reqs \ {r} : at'[q] = at[q] /\ todo'[q] = todo[q]
  BY <1>1, Zenon DEF WaitInv, Typed
<1>3. op[r] \in Ops /\ Fits(op[r], todo[r])
  BY <1>1, Zenon DEF KeepInv, Alive
<1>4. Fits(op[r], Tail(todo[r]))
  BY <1>1, <1>3, TailFits, Zenon
<1>5. \A io \in Ios : Pending(r, io)' <=> Pending(r, io)
  <2> DEFINE s == todo[r]
  <2>1. s \in Seq(Ios) /\ s # <<>> /\ Len(s) \in Nat /\ DOMAIN s = 1..Len(s)
    BY <1>3, SMTT(30) DEF Fits
  <2>2. /\ Tail(s) \in Seq(Ios) /\ Len(Tail(s)) = Len(s) - 1
        /\ \A i \in 1 .. Len(Tail(s)) : Tail(s)[i] = s[i + 1]
    BY <2>1, TailShifts, Zenon
  <2>3. DOMAIN Tail(s) = 1 .. Len(s) - 1
    BY <2>2
  <2> SUFFICES ASSUME NEW io \in Ios PROVE Pending(r, io)' <=> Pending(r, io)
    BY Zenon
  <2>6. Pending(r, io)' <=> \E i \in DOMAIN Tail(s) : Tail(s)[i] = io
    BY <1>2, Zenon DEF Pending
  <2>7. Pending(r, io) <=> \E i \in DOMAIN s : s[i] = io /\ i > 1
    BY <1>1, Zenon DEF Pending
  <2> HIDE DEF s
  <2>4. ASSUME NEW i \in DOMAIN Tail(s), Tail(s)[i] = io
        PROVE  \E j \in DOMAIN s : s[j] = io /\ j > 1
    <3>1. i + 1 \in DOMAIN s /\ s[i + 1] = io /\ i + 1 > 1
      BY <2>1, <2>2, <2>3, <2>4
    <3> QED
      BY <3>1, Zenon
  <2>5. ASSUME NEW j \in DOMAIN s, s[j] = io, j > 1
        PROVE  \E i \in DOMAIN Tail(s) : Tail(s)[i] = io
    <3>1. j - 1 \in DOMAIN Tail(s) /\ (j - 1) + 1 = j
      BY <2>1, <2>3, <2>5
    <3>2. Tail(s)[j - 1] = io
      BY <2>2, <2>3, <2>5, <3>1, Zenon
    <3> QED
      BY <3>1, <3>2, Zenon
  <2> QED
    BY <2>4, <2>5, <2>6, <2>7, Zenon
<1>6. ASSUME NEW b \in Bytes, Started(r)' PROVE Keeps(r, b)'
  <2>1. Started(r)
    BY <1>1, <1>6, Zenon DEF Started
  <2>2. Keeps(r, b)
    BY <2>1, Zenon DEF KeepInv
  <2> QED
    BY <1>1, <1>5, <2>2, KeepSame, Zenon DEF dataVars
<1> QED
  BY <1>1, <1>2, <1>3, <1>4, <1>6, KeepMoves, Zenon

LEMMA KeepEnd ==
  ASSUME WaitInv, KeepInv, NEW r \in Reqs, End(r) PROVE KeepInv'
<1>1. /\ at' = [q \in Reqs |-> IF q = r THEN "done"
                                ELSE IF q \in Range(waitQueue[r]) THEN "woken" ELSE at[q]]
      /\ op' = [op EXCEPT ![r] = NoOp] /\ todo' = [todo EXCEPT ![r] = <<>>]
      /\ buf' = [buf EXCEPT ![r] = [b \in Bytes |-> None]] /\ disk' = disk
  BY Zenon DEF End, Restarted
<1>2. /\ at'[r] = "done"
      /\ \A q \in Reqs \ {r} : /\ op'[q] = op[q] /\ todo'[q] = todo[q] /\ buf'[q] = buf[q]
                               /\ at'[q] = at[q] \/ (at'[q] = "woken" /\ q \in Range(waitQueue[r]))
  BY <1>1, Zenon DEF WaitInv, Typed, KeepInv, DataTyped
<1>3. \A q \in Reqs : q \in Range(waitQueue[r]) => at[q] = "waiting"
  BY DEF WaitInv, WaitsRecorded, Range
<1>4. DataTyped'
  BY <1>1, Zenon DEF KeepInv, DataTyped
<1>5. ASSUME NEW q \in Reqs, Alive(q)' PROVE op'[q] \in Ops /\ Fits(op'[q], todo'[q])
  <2>1. q # r
    BY <1>2, <1>5, Zenon DEF Alive
  <2>2. Alive(q)
    <3>1. CASE at'[q] = at[q]
      BY <1>5, <3>1, Zenon DEF Alive
    <3>2. CASE q \in Range(waitQueue[r])
      BY <1>3, <3>2, Zenon DEF Alive
    <3> QED
      BY <1>2, <2>1, <3>1, <3>2, Zenon
  <2> QED
    <3>1. op[q] \in Ops /\ Fits(op[q], todo[q])
      BY <2>2, Zenon DEF KeepInv
    <3>2. op'[q] = op[q] /\ todo'[q] = todo[q]
      BY <1>2, <2>1, Zenon
    <3> QED
      BY <3>1, <3>2, Zenon
<1>6. ASSUME NEW q \in Reqs, NEW b \in Bytes, Started(q)' PROVE Keeps(q, b)'
  <2>1. q # r /\ at'[q] # "woken"
    BY <1>2, <1>6, Zenon DEF Started
  <2>2. at'[q] = at[q] /\ op'[q] = op[q] /\ todo'[q] = todo[q] /\ buf'[q] = buf[q]
    BY <1>2, <2>1, Zenon
  <2>3. Started(q) /\ Keeps(q, b)
    BY <1>6, <2>2, Zenon DEF KeepInv, Started
  <2>4. \A io \in Ios : Pending(q, io)' <=> Pending(q, io)
    BY <2>2, PendingSame, Zenon
  <2> QED
    BY <1>1, <2>2, <2>3, <2>4, KeepSame, Zenon
<1> QED
  BY <1>4, <1>5, <1>6, Zenon DEF KeepInv

-----------------------------------------------------------------------------
(* The driver's operations.                                                *)

\* Nothing is pending behind a write that comes before it.
LEMMA ReadsFirst ==
  ASSUME NEW r \in Reqs, at[r] = "io", Fits(op[r], todo[r])
  PROVE  /\ Head(todo[r]) \in {"tail", "write", "flush"} => ~Pending(r, "head")
         /\ Head(todo[r]) \in {"write", "flush"} => ~Pending(r, "tail")
         /\ Head(todo[r]) # "copyRead" => ~Pending(r, "copyRead")
<1> DEFINE s == todo[r]
<1>1. s \in Seq(Ios) /\ s # <<>> /\ InOrder(s) /\ Head(s) = s[1] /\ 1 \in DOMAIN s
  BY DEF Fits
<1>2. \A i \in DOMAIN s : i = 1 \/ 1 < i
  BY <1>1
<1>3. \A i \in DOMAIN s : s[i] \in {"head", "tail"} => i = 1 \/ s[1] = "head"
  BY <1>1, <1>2, Zenon DEF InOrder
<1>4. \A i \in DOMAIN s : s[i] = "copyRead" => i = 1
  BY <1>1, <1>2, Zenon DEF InOrder
<1>5. \A io : Pending(r, io) <=> \E i \in DOMAIN s : s[i] = io
  BY Zenon DEF Pending
<1> HIDE DEF s
<1>6. s[1] \in {"tail", "write", "flush"} => ~Pending(r, "head")
  BY <1>3, <1>5, Zenon
<1>7. s[1] \in {"write", "flush"} => ~Pending(r, "tail")
  BY <1>3, <1>5, Zenon
<1>8. s[1] # "copyRead" => ~Pending(r, "copyRead")
  BY <1>4, <1>5, Zenon
<1> QED
  BY <1>1, <1>6, <1>7, <1>8, Zenon DEF s

\* An operation of the driver changes the request's own bytes only.
LEMMA Stores ==
  ASSUME KeepInv, NEW r \in Reqs, Effect(r), NEW b \in Bytes, disk'[b] # disk[b]
  PROVE  op[r].kind = "write" /\ b \in Guest(op[r]) /\ Started(r)
<1>1. at[r] = "io" /\ Alive(r)
  BY Zenon DEF Effect, Alive
<1>2. op[r] \in Ops /\ Fits(op[r], todo[r])
  BY <1>1, Zenon DEF KeepInv
<1>3. Head(todo[r]) \in {"write", "copyWrite"} /\ disk' = Written(r)
  BY Zenon DEF Effect
<1>4. Head(todo[r]) \in OfKind(op[r].kind)
  BY <1>2, SMTT(30) DEF Fits
<1>5. op[r].kind \in {"write", "read", "cor", "flush"}
  BY <1>2, OpRange, Zenon
<1>6. (op[r].kind = "write" /\ Head(todo[r]) = "write")
      \/ (op[r].kind = "cor" /\ Head(todo[r]) = "copyWrite")
  BY <1>3, <1>4, <1>5, Zenon DEF OfKind
<1>7. Started(r) /\ Keeps(r, b)
  BY <1>1, <1>6, Zenon DEF Started, KeepInv
<1>8. /\ b \in IoBytes(op[r], Head(todo[r]))
      /\ ~(op[r].kind = "write" /\ b \in Guest(op[r])) => buf[r][b] # disk[b]
  BY <1>3, Zenon DEF Written
<1>9. CASE op[r].kind = "write"
  BY <1>1, <1>2, <1>6, <1>7, <1>8, <1>9, ReadsFirst, Zenon DEF Keeps
<1>10. CASE op[r].kind = "cor"
  <2>1. Pending(r, "copyWrite")
    BY <1>1, <1>2, <1>6, <1>10 DEF Pending, Fits
  <2> QED
    BY <1>1, <1>2, <1>6, <1>7, <1>8, <1>10, <2>1, ReadsFirst, ZenonT(60) DEF Keeps, IoBytes
<1> QED
  BY <1>6, <1>9, <1>10, Zenon

\* ... and those are nobody's that keeps them.
LEMMA OthersKeep ==
  ASSUME WaitInv, KeepInv, NEW r \in Reqs, Effect(r), NEW q \in Reqs, q # r,
         NEW b \in Bytes, Started(q)
  PROVE  Keeps(q, b)'
<1>1. /\ at'[q] = at[q] /\ op'[q] = op[q] /\ todo'[q] = todo[q]
      /\ buf'[q] = buf[q]
  BY Zenon DEF Effect, WaitInv, Typed, KeepInv, DataTyped
<1>2. Keeps(q, b) /\ op[q] \in Ops
  BY Zenon DEF KeepInv, Alive, Started
<1>3. \A io \in Ios : Pending(q, io)' <=> Pending(q, io)
  BY <1>1, PendingSame, Zenon
<1>4. CASE disk'[b] = disk[b]
  BY <1>1, <1>2, <1>3, <1>4, KeepSame, Zenon
<1>5. CASE disk'[b] # disk[b]
  <2>1. op[r].kind = "write" /\ b \in Guest(op[r]) /\ Started(r)
    BY <1>5, Stores, Zenon
  <2>2. op[r] \in Ops
    BY <2>1, Zenon DEF KeepInv, Alive, Started
  <2>3. b \in Overlap(op[r])
    BY <2>1, <2>2, GuestOverlaps, Zenon
  <2>4. ~(Serialising(op[q]) /\ b \in Overlap(op[q]))
    BY <2>1, <2>3, Zenon DEF WaitInv, Excluded, Conflict
  <2>5. ~(op[q].kind = "write" /\ b \in IoBytes(op[q], "write") \ Guest(op[q]))
    BY <1>2, <2>4, Around, Zenon
  <2>6. ~(op[q].kind = "cor" /\ b \in IoBytes(op[q], "copyWrite"))
    BY <1>2, <2>4, CopyOverlaps, Zenon
  <2> QED
    BY <1>1, <2>5, <2>6, Zenon DEF Keeps
<1> QED
  BY <1>4, <1>5, Zenon

LEMMA OwnKeep ==
  ASSUME WaitInv, KeepInv, NEW r \in Reqs, Effect(r), NEW b \in Bytes, Started(r)
  PROVE  Keeps(r, b)'
<1> DEFINE h == Head(todo[r])
<1>1. at[r] = "io" /\ at'[r] = "landed" /\ op' = op /\ todo' = todo
  BY Zenon DEF Effect, WaitInv, Typed
<1>2. op[r] \in Ops /\ Fits(op[r], todo[r]) /\ Keeps(r, b)
  BY <1>1, Zenon DEF KeepInv, Alive
<1>3. h = todo[r][1] /\ h \in OfKind(op[r].kind) /\ \A i \in DOMAIN todo[r] : i \in Nat /\ i >= 1
  BY <1>2 DEF Fits
<1>4. \A io : io # h => (Pending(r, io)' <=> Pending(r, io))
  <2> SUFFICES ASSUME NEW io, io # h PROVE Pending(r, io)' <=> Pending(r, io)
    BY Zenon
  <2>1. \A i \in DOMAIN todo[r] : todo[r][i] = io => i > 1
    BY <1>3, SMTT(30)
  <2> QED
    BY <1>1, <2>1, Zenon DEF Pending
<1>5. Pending(r, h)
  BY <1>1, <1>2 DEF Pending, Fits
<1>6. h \in {"write", "copyWrite"} /\ b \in IoBytes(op[r], h)
        /\ ~(op[r].kind = "write" /\ b \in Guest(op[r])) =>
          disk'[b] = buf'[r][b]
  BY Zenon DEF Effect, Written
<1>7. h \notin {"write", "copyWrite"} =>
        /\ disk'[b] = disk[b]
        /\ buf'[r][b] = IF b \in IoBytes(op[r], h) /\ h \in {"head", "tail", "copyRead"}
                       THEN disk[b] ELSE buf[r][b]
  BY DEF Effect, KeepInv, DataTyped
<1>8. /\ h \in {"tail", "write", "flush"} => ~Pending(r, "head")
      /\ h \in {"write", "flush"} => ~Pending(r, "tail")
      /\ h # "copyRead" => ~Pending(r, "copyRead")
  BY <1>1, <1>2, ReadsFirst, Zenon
<1> HIDE DEF h
<1>9. CASE op[r].kind = "write"
  <2> SUFFICES ASSUME b \in IoBytes(op[r], "write") \ Guest(op[r])
               PROVE  \/ b \in IoBytes(op[r], "head") /\ Pending(r, "head")'
                      \/ b \in IoBytes(op[r], "tail") /\ Pending(r, "tail")'
                      \/ buf'[r][b] = disk'[b]
    BY <1>1, <1>9, Zenon DEF Keeps
  <2>1. \/ b \in IoBytes(op[r], "head") /\ Pending(r, "head")
        \/ b \in IoBytes(op[r], "tail") /\ Pending(r, "tail")
        \/ buf[r][b] = disk[b]
    BY <1>2, <1>9, Zenon DEF Keeps
  <2>2. h \in {"head", "tail", "write", "flush"}
    BY <1>3, <1>9, Zenon DEF OfKind
  <2>3. CASE h = "head"
    BY <1>4, <1>7, <2>1, <2>3, Zenon
  <2>4. CASE h = "tail"
    BY <1>7, <1>8, <2>1, <2>4, Zenon
  <2>5. CASE h = "write"
    BY <1>6, <2>5, Zenon
  <2>6. CASE h = "flush"
    BY <1>7, <1>8, <2>1, <2>6, Zenon
  <2> QED
    BY <2>2, <2>3, <2>4, <2>5, <2>6, Zenon
<1>10. CASE op[r].kind = "cor"
  <2> SUFFICES ASSUME b \in IoBytes(op[r], "copyWrite"), Pending(r, "copyWrite")'
               PROVE  buf'[r][b] = disk'[b]
    BY <1>1, <1>10, Zenon DEF Keeps
  <2>1. h \in {"copyRead", "copyWrite", "read"}
    BY <1>3, <1>10, Zenon DEF OfKind
  <2>2. CASE h = "copyRead"
    BY <1>7, <2>2, Zenon DEF IoBytes
  <2>3. CASE h = "copyWrite"
    BY <1>6, <1>10, <2>3, Zenon
  <2>4. CASE h = "read"
    <3>1. Pending(r, "copyWrite")
      BY <1>4, <2>4, Zenon
    <3> QED
      BY <1>2, <1>7, <1>8, <1>10, <2>4, <3>1, Zenon DEF Keeps
  <2> QED
    BY <2>1, <2>2, <2>3, <2>4, Zenon
<1> QED
  BY <1>1, <1>9, <1>10, Zenon DEF Keeps

LEMMA KeepEffect ==
  ASSUME WaitInv, KeepInv, NEW r \in Reqs, Effect(r) PROVE KeepInv'
<1>1. at[r] = "io" /\ at' = [at EXCEPT ![r] = "landed"] /\ UNCHANGED <<op, todo>>
  BY Zenon DEF Effect
<1>2. at'[r] = "landed" /\ \A q \in Reqs \ {r} : at'[q] = at[q]
  BY <1>1, Zenon DEF WaitInv, Typed
<1>3. DataTyped'
  <2>1. CASE disk' = Written(r) /\ UNCHANGED buf
    <3>1. \A b \in Bytes : buf[r][b] \in Reqs \cup {None} /\ disk[b] \in Reqs \cup {None}
      BY Zenon DEF KeepInv, DataTyped
    <3>2. Written(r) \in [Bytes -> Reqs \cup {None}]
      BY <3>1, Zenon DEF Written
    <3> QED
      BY <2>1, <3>2, Zenon DEF KeepInv, DataTyped
  <2>2. CASE UNCHANGED disk /\ \E f \in [Bytes -> Reqs \cup {None}] : buf' = [buf EXCEPT ![r] = f]
    BY <2>2, Zenon DEF KeepInv, DataTyped
  <2>3. Head(todo[r]) \notin {"write", "copyWrite"} =>
          UNCHANGED disk /\ \E f \in [Bytes -> Reqs \cup {None}] : buf' = [buf EXCEPT ![r] = f]
    <3> DEFINE f == [b \in Bytes |-> IF b \in IoBytes(op[r], Head(todo[r]))
                                         /\ Head(todo[r]) \in {"head", "tail", "copyRead"}
                                      THEN disk[b] ELSE buf[r][b]]
    <3>1. f \in [Bytes -> Reqs \cup {None}]
      BY Zenon DEF KeepInv, DataTyped
    <3>2. Head(todo[r]) \notin {"write", "copyWrite"} =>
            UNCHANGED disk /\ buf' = [buf EXCEPT ![r] = f]
      BY Zenon DEF Effect
    <3> HIDE DEF f
    <3> QED
      BY <3>1, <3>2, Zenon
  <2> QED
    BY <2>1, <2>2, <2>3, Zenon DEF Effect
<1>4. ASSUME NEW q \in Reqs, Alive(q)' PROVE op'[q] \in Ops /\ Fits(op'[q], todo'[q])
  <2>1. Alive(q)
    BY <1>1, <1>2, <1>4, Zenon DEF Alive
  <2> QED
    BY <1>1, <2>1, Zenon DEF KeepInv
<1>5. ASSUME NEW q \in Reqs, NEW b \in Bytes, Started(q)' PROVE Keeps(q, b)'
  <2>1. Started(q)
    BY <1>1, <1>2, <1>5, Zenon DEF Started
  <2> QED
    BY <2>1, OwnKeep, OthersKeep, Zenon
<1> QED
  BY <1>3, <1>4, <1>5, Zenon DEF KeepInv

LEMMA KeepNext == WaitInv /\ KeepInv /\ [Next]_vars => KeepInv'
<1> SUFFICES ASSUME WaitInv, KeepInv, [Next]_vars PROVE KeepInv'
  BY Zenon
<1>1. CASE UNCHANGED <<op, at, todo, dataVars>>
  <2>1. UNCHANGED <<op, at, todo>> /\ UNCHANGED <<buf, disk>>
    BY <1>1, Zenon DEF dataVars
  <2>2. DataTyped'
    BY <2>1, Zenon DEF KeepInv, DataTyped
  <2>3. \A r \in Reqs : Alive(r)' => op'[r] \in Ops /\ Fits(op'[r], todo'[r])
    BY <2>1, Zenon DEF KeepInv, Alive
  <2>4. \A r \in Reqs, b \in Bytes : Started(r)' => Keeps(r, b)'
    <3> SUFFICES ASSUME NEW r \in Reqs, NEW b \in Bytes, Started(r)' PROVE Keeps(r, b)'
      BY Zenon
    <3>1. Started(r)
      BY <2>1, Zenon DEF Started
    <3>2. Keeps(r, b)
      BY <3>1, Zenon DEF KeepInv
    <3>3. (Pending(r, "head")' <=> Pending(r, "head")) /\ (Pending(r, "tail")' <=> Pending(r, "tail"))
          /\ (Pending(r, "copyRead")' <=> Pending(r, "copyRead"))
          /\ (Pending(r, "copyWrite")' <=> Pending(r, "copyWrite"))
      BY <2>1, Zenon DEF Pending
    <3> QED
      BY <2>1, <3>2, <3>3, Zenon DEF Keeps
  <2> QED
    BY <2>2, <2>3, <2>4, Zenon DEF KeepInv
<1>2. ASSUME NEW r \in Reqs, NEW o \in Ops, Submit(r, o) PROVE KeepInv'
  BY <1>2, KeepSubmit, Zenon
<1>3. ASSUME NEW r \in Reqs, Runs(r) \/ Effect(r) \/ Resume(r) \/ End(r) PROVE KeepInv'
  BY <1>3, KeepAdmit, KeepGo, KeepEffect, KeepResume, KeepEnd, Zenon DEF Runs
<1>4. ASSUME NEW w \in BOOLEAN, TimerFires(w) PROVE KeepInv'
  BY <1>1, <1>4, Zenon DEF TimerFires
<1>5. CASE SetIoLimits \/ DrainBegin \/ Drain
  BY <1>1, <1>5, Zenon DEF SetIoLimits, DrainBegin, Drain, DrainPolls, DrainEnds, DrainStarts
<1>6. CASE UNCHANGED vars
  BY <1>1, <1>6, Zenon DEF vars
<1> QED
  BY <1>2, <1>3, <1>4, <1>5, <1>6, Zenon DEF Next

\* "Guest writes cannot interleave between them": whatever requests there are, an
\* operation of the driver changes bytes of the request's own range only, although an
\* unaligned write and a copy on read store whole blocks that they have read before.
THEOREM NoLostUpdates == Spec => OthersBytesUnchanged
<1> DEFINE Unchanged(r) ==
      at[r] = "io" /\ at'[r] = "landed" =>
        \A b \in Bytes : disk'[b] # disk[b] => IsWrite(op[r]) /\ b \in Guest(op[r])
<1>1. WaitInv /\ KeepInv /\ [Next]_vars => \A r \in Reqs : Unchanged(r)
  <2> SUFFICES ASSUME WaitInv, KeepInv, [Next]_vars, NEW r \in Reqs,
                      at[r] = "io", at'[r] = "landed", NEW b \in Bytes, disk'[b] # disk[b]
               PROVE  IsWrite(op[r]) /\ b \in Guest(op[r])
    BY Zenon
  <2>1. Effect(r)
    <3>1. ASSUME NEW q \in Reqs, NEW o \in Ops, Submit(q, o) PROVE FALSE
      BY <3>1, Zenon DEF Submit, dataVars
    <3>2. ASSUME NEW q \in Reqs, Runs(q) \/ Resume(q) \/ End(q) PROVE FALSE
      BY <3>2, Zenon DEF Runs, Admit, Go, Resume, End, dataVars
    <3>3. ASSUME NEW w \in BOOLEAN, TimerFires(w) PROVE FALSE
      BY <3>3, Zenon DEF TimerFires
    <3>4. CASE SetIoLimits \/ DrainBegin \/ Drain
      BY <3>4, Zenon DEF SetIoLimits, DrainBegin, Drain, DrainPolls, DrainEnds, DrainStarts, dataVars
    <3>5. CASE UNCHANGED vars
      BY <3>5, Zenon DEF vars
    <3>6. ASSUME NEW q \in Reqs, Effect(q), q # r PROVE FALSE
      BY <3>6, Zenon DEF Effect, WaitInv, Typed
    <3> QED
      BY <3>1, <3>2, <3>3, <3>4, <3>5, <3>6, Zenon DEF Next
  <2> QED
    BY <2>1, Stores, Zenon DEF IsWrite
<1> QED
  BY WaitInit, WaitNext, KeepInit, KeepNext, <1>1, PTL DEF Spec, OthersBytesUnchanged

-----------------------------------------------------------------------------
(* Throttling.                                                             *)

ThrottleTyped ==
  /\ queue \in [BOOLEAN -> Seq(Reqs)]
  /\ timer \in [BOOLEAN -> BOOLEAN]
  /\ ready \in Seq(Reqs)
  /\ drain \in {"none", "start", "poll", "last"}

\* A throttled request is in the queue of its kind, once, until it is entered.
Queues ==
  \A w \in BOOLEAN :
    /\ Distinct(queue[w])
    /\ \A x \in Reqs : In(x, queue[w]) =>
         at[x] = "throttled" /\ IsWrite(op[x]) = w /\ ~In(x, ready)

\* One that has been entered looks after the next one when it runs.
Entered(w) == \E x \in Reqs : In(x, ready) /\ at[x] = "throttled" /\ IsWrite(op[x]) = w

\* Somebody will look after the queue: the timer, an entered request, or bdrv_drain_all.
LookedAfter ==
  /\ drain = "none" => \A w \in BOOLEAN : queue[w] # <<>> => timer[w] \/ Entered(w)
  /\ drain \in {"poll", "last"} => ready = <<>> /\ \A w \in BOOLEAN : queue[w] = <<>>

ThrottleInv == ThrottleTyped /\ Queues /\ LookedAfter

LEMMA InJoined ==
  ASSUME NEW u \in Seq(Reqs), NEW v \in Seq(Reqs), NEW x
  PROVE  In(x, u \o v) <=> In(x, u) \/ In(x, v)
<1> DEFINE s == u \o v
<1>1. /\ s \in Seq(Reqs) /\ Len(s) = Len(u) + Len(v)
      /\ \A i \in 1 .. Len(u) + Len(v) : s[i] = IF i <= Len(u) THEN u[i] ELSE v[i - Len(u)]
  BY Joins, Zenon
<1> HIDE DEF s
<1>2. /\ DOMAIN u = 1 .. Len(u) /\ DOMAIN v = 1 .. Len(v) /\ DOMAIN s = 1 .. Len(u) + Len(v)
      /\ Len(u) \in Nat /\ Len(v) \in Nat
  BY <1>1
<1>3. ASSUME NEW i \in DOMAIN u, u[i] = x PROVE In(x, s)
  <2>1. i \in DOMAIN s /\ s[i] = x
    BY <1>1, <1>2, <1>3
  <2> QED
    BY <2>1, Zenon DEF In
<1>4. ASSUME NEW i \in DOMAIN v, v[i] = x PROVE In(x, s)
  <2>1. i + Len(u) \in DOMAIN s /\ s[i + Len(u)] = x
    BY <1>1, <1>2, <1>4
  <2> QED
    BY <2>1, Zenon DEF In
<1>5. ASSUME NEW i \in DOMAIN s, s[i] = x PROVE In(x, u) \/ In(x, v)
  <2>1. CASE i <= Len(u)
    BY <1>1, <1>2, <1>5, <2>1 DEF In
  <2>2. CASE ~(i <= Len(u))
    <3>1. i - Len(u) \in DOMAIN v /\ v[i - Len(u)] = x
      BY <1>1, <1>2, <1>5, <2>2
    <3> QED
      BY <3>1, Zenon DEF In
  <2> QED
    BY <2>1, <2>2, Zenon
<1> QED
  BY <1>3, <1>4, <1>5, Zenon DEF In, s

\* qemu_co_queue_next and qemu_co_enter_next take the first one of a queue.
LEMMA Taken ==
  ASSUME NEW q \in Seq(Reqs), Distinct(q)
  PROVE  /\ First(q) \in Seq(Reqs) /\ Rest(q) \in Seq(Reqs) /\ Distinct(Rest(q))
         /\ \A x : In(x, q) <=> In(x, First(q)) \/ In(x, Rest(q))
         /\ \A x : ~(In(x, First(q)) /\ In(x, Rest(q)))
         /\ q # <<>> => /\ Rest(q) = Tail(q)
                        /\ Head(q) \in Reqs /\ \A x : In(x, First(q)) <=> x = Head(q)
         /\ q = <<>> => First(q) = <<>> /\ Rest(q) = <<>>
<1>1. CASE q = <<>>
  <2>1. First(q) = <<>> /\ Rest(q) = <<>>
    BY <1>1 DEF First, Rest
  <2>2. <<>> \in Seq(Reqs) /\ DOMAIN <<>> = {}
    OBVIOUS
  <2>3. (\A x : ~In(x, <<>>)) /\ Distinct(<<>>)
    BY <2>2, Zenon DEF In, Distinct
  <2> QED
    BY <1>1, <2>1, <2>2, <2>3, Zenon
<1>2. CASE q # <<>>
  <2>1. Len(q) \in Nat /\ Len(q) >= 1 /\ DOMAIN q = 1 .. Len(q)
    BY <1>2
  <2>2. /\ First(q) \in Seq(Reqs) /\ DOMAIN First(q) = {1} /\ First(q)[1] = q[1]
        /\ q[1] \in Reqs /\ Head(q) = q[1]
    <3>1. First(q) = SubSeq(q, 1, 1)
      BY <1>2, Zenon DEF First
    <3>2. q[1] \in Reqs /\ Head(q) = q[1]
      BY <1>2, <2>1
    <3>3. /\ SubSeq(q, 1, 1) \in Seq(Reqs) /\ DOMAIN SubSeq(q, 1, 1) = {1}
          /\ SubSeq(q, 1, 1)[1] = q[1]
      BY <2>1
    <3> QED
      BY <3>1, <3>2, <3>3, Zenon
  <2>3. /\ Rest(q) = Tail(q) /\ Tail(q) \in Seq(Reqs) /\ DOMAIN Tail(q) = 1 .. Len(q) - 1
        /\ \A i \in 1 .. Len(q) - 1 : Tail(q)[i] = q[i + 1]
    BY <1>2, <2>1 DEF Rest
  <2>4. \A x : In(x, First(q)) <=> x = q[1]
    BY <2>2, Zenon DEF In
  <2>5. \A x : In(x, Tail(q)) <=> \E i \in 2 .. Len(q) : q[i] = x
    <3>1. \A x : \A i \in 1 .. Len(q) - 1 : Tail(q)[i] = x => i + 1 \in 2 .. Len(q) /\ q[i + 1] = x
      BY <2>1, <2>3
    <3>2. \A x : \A i \in 2 .. Len(q) : q[i] = x => i - 1 \in 1 .. Len(q) - 1 /\ Tail(q)[i - 1] = x
      BY <2>1, <2>3
    <3> QED
      BY <2>3, <3>1, <3>2, Zenon DEF In
  <2>6. Distinct(Tail(q))
    BY <2>1, <2>3 DEF Distinct
  <2>7. \A x : In(x, q) <=> x = q[1] \/ In(x, Tail(q))
    <3>1. \A i \in DOMAIN q : i = 1 \/ i \in 2 .. Len(q)
      BY <2>1
    <3>2. 1 \in DOMAIN q /\ \A i \in 2 .. Len(q) : i \in DOMAIN q
      BY <2>1
    <3> QED
      BY <2>5, <3>1, <3>2, Zenon DEF In
  <2>8. ~In(q[1], Tail(q))
    BY <2>1, <2>5 DEF Distinct
  <2> QED
    BY <1>2, <2>2, <2>3, <2>4, <2>6, <2>7, <2>8, Zenon
<1> QED
  BY <1>1, <1>2, Zenon

LEMMA WriteOrNot == ASSUME NEW o PROVE IsWrite(o) \in BOOLEAN
BY Zenon DEF IsWrite

LEMMA InParts ==
  ASSUME NEW s \in Seq(Reqs), s # <<>>
  PROVE  /\ Head(s) \in Reqs /\ Tail(s) \in Seq(Reqs)
         /\ \A x : In(x, s) <=> x = Head(s) \/ In(x, Tail(s))
<1>1. Len(s) \in Nat /\ Len(s) >= 1 /\ DOMAIN s = 1 .. Len(s) /\ Head(s) = s[1] /\ s[1] \in Reqs
  OBVIOUS
<1>2. /\ Tail(s) \in Seq(Reqs) /\ DOMAIN Tail(s) = 1 .. Len(s) - 1
      /\ \A i \in 1 .. Len(s) - 1 : Tail(s)[i] = s[i + 1]
  OBVIOUS
<1>3. ASSUME NEW x, In(x, s) PROVE x = Head(s) \/ In(x, Tail(s))
  <2>1. PICK i \in DOMAIN s : s[i] = x
    BY <1>3, Zenon DEF In
  <2>2. i = 1 \/ (i - 1 \in DOMAIN Tail(s) /\ Tail(s)[i - 1] = x)
    BY <1>1, <1>2, <2>1
  <2> QED
    BY <1>1, <2>1, <2>2, Zenon DEF In
<1>4. ASSUME NEW x, x = Head(s) \/ In(x, Tail(s)) PROVE In(x, s)
  <2>1. CASE x = Head(s)
    BY <1>1, <2>1 DEF In
  <2>2. CASE In(x, Tail(s))
    <3>1. PICK i \in DOMAIN Tail(s) : Tail(s)[i] = x
      BY <2>2, Zenon DEF In
    <3>2. i + 1 \in DOMAIN s /\ s[i + 1] = x
      BY <1>1, <1>2, <3>1
    <3> QED
      BY <3>2, Zenon DEF In
  <2> QED
    BY <1>4, <2>1, <2>2, Zenon
<1> QED
  BY <1>1, <1>2, <1>3, <1>4, Zenon

LEMMA InOne == \A x \in Reqs : <<x>> \in Seq(Reqs) /\ \A y : In(y, <<x>>) <=> y = x
<1> SUFFICES ASSUME NEW x \in Reqs PROVE <<x>> \in Seq(Reqs) /\ \A y : In(y, <<x>>) <=> y = x
  BY Zenon
<1>1. DOMAIN <<x>> = {1} /\ <<x>>[1] = x
  OBVIOUS
<1> QED
  BY <1>1 DEF In

LEMMA InNone == <<>> \in Seq(Reqs) /\ (\A x : ~In(x, <<>>)) /\ Distinct(<<>>)
<1>1. DOMAIN <<>> = {}
  OBVIOUS
<1> QED
  BY <1>1 DEF In, Distinct

LEMMA InAppended ==
  ASSUME NEW s \in Seq(Reqs), NEW r \in Reqs, Distinct(s), ~In(r, s)
  PROVE  /\ Append(s, r) \in Seq(Reqs) /\ Distinct(Append(s, r))
         /\ \A x : In(x, Append(s, r)) <=> In(x, s) \/ x = r
<1> DEFINE t == Append(s, r)
<1>1. /\ t \in Seq(Reqs) /\ Len(s) \in Nat /\ DOMAIN s = 1 .. Len(s)
      /\ DOMAIN t = 1 .. Len(s) + 1
      /\ t[Len(s) + 1] = r /\ \A i \in 1 .. Len(s) : t[i] = s[i]
  OBVIOUS
<1> HIDE DEF t
<1>2. /\ \A i \in DOMAIN t : (i \in DOMAIN s /\ t[i] = s[i]) \/ (i = Len(s) + 1 /\ t[i] = r)
      /\ \A i \in DOMAIN s : i \in DOMAIN t
      /\ Len(s) + 1 \in DOMAIN t
  BY <1>1
<1>3. \A x : In(x, t) <=> In(x, s) \/ x = r
  BY <1>1, <1>2, Zenon DEF In
<1>4. Distinct(t)
  BY <1>1, <1>2, Zenon DEF In, Distinct
<1> QED
  BY <1>1, <1>3, <1>4, Zenon DEF t

LEMMA ThrottleInit == Init => ThrottleInv
<1> SUFFICES ASSUME Init PROVE ThrottleInv
  BY Zenon
<1>1. ready = <<>> /\ drain = "none" /\ \A w \in BOOLEAN : queue[w] = <<>>
  BY Zenon DEF Init
<1>2. queue \in [BOOLEAN -> Seq(Reqs)] /\ timer \in [BOOLEAN -> BOOLEAN]
  BY InNone, Zenon DEF Init
<1>3. ThrottleTyped
  BY <1>1, <1>2, InNone, Zenon DEF ThrottleTyped
<1> QED
  BY <1>1, <1>3, InNone, Zenon DEF ThrottleInv, Queues, LookedAfter

\* The steps that neither queue a request nor take one from a queue.
LEMMA ThrottleKept ==
  ASSUME ThrottleInv, UNCHANGED <<queue, timer>>,
         ready' \in Seq(Reqs), drain' \in {"none", "start", "poll", "last"},
         \A x \in Reqs : at[x] = "throttled" =>
           at'[x] = "throttled" /\ op'[x] = op[x] /\ (In(x, ready') <=> In(x, ready)),
         drain' = "none" => drain = "none" \/ \A w \in BOOLEAN : queue[w] = <<>>,
         drain' \in {"poll", "last"} => ready' = <<>> /\ \A w \in BOOLEAN : queue[w] = <<>>
  PROVE  ThrottleInv'
<1>1. ThrottleTyped'
  BY Zenon DEF ThrottleInv, ThrottleTyped
<1>2. Queues'
  BY Zenon DEF ThrottleInv, Queues
<1>3. \A w \in BOOLEAN : Entered(w) => Entered(w)'
  BY Zenon DEF Entered
<1>4. LookedAfter'
  BY <1>3, Zenon DEF ThrottleInv, LookedAfter
<1> QED
  BY <1>1, <1>2, <1>4, Zenon DEF ThrottleInv


\* bdrv_io_limits_intercept queues behind a request that has a timer, or arms one.
LEMMA ThrottleSubmit ==
  ASSUME WaitInv, ThrottleInv, NEW r \in Reqs, NEW o \in Ops, Submit(r, o)
  PROVE  ThrottleInv'
<1> DEFINE w == IsWrite(o)
<1>1. /\ at[r] = "new" /\ ready = <<>> /\ drain \in {"none", "poll", "last"}
      /\ op' = [op EXCEPT ![r] = o]
      /\ drain' = (IF drain = "none" THEN "none" ELSE "start")
  BY DEF Submit, Reqs, InEventLoop, Progress
<1>2. w \in BOOLEAN
  BY WriteOrNot, Zenon
<1>3. \A x \in Reqs \ {r} : op'[x] = op[x]
  BY <1>1, Zenon DEF WaitInv, Typed
<1>4. \A v \in BOOLEAN : ~In(r, queue[v])
  BY <1>1, Zenon DEF ThrottleInv, Queues
<1>5. ASSUME NEW must \in BOOLEAN, must \/ queue[w] # <<>>,
             queue' = [queue EXCEPT ![w] = Append(@, r)],
             timer' = [timer EXCEPT ![w] = @ \/ must],
             at' = [at EXCEPT ![r] = "throttled"], ready' = ready
      PROVE  ThrottleInv'
  <2> HIDE DEF w
  <2>1. queue[w] \in Seq(Reqs) /\ Distinct(queue[w])
    BY <1>2, Zenon DEF ThrottleInv, ThrottleTyped, Queues
  <2>2. /\ Append(queue[w], r) \in Seq(Reqs) /\ Distinct(Append(queue[w], r))
        /\ \A x : In(x, Append(queue[w], r)) <=> In(x, queue[w]) \/ x = r
    BY <1>2, <1>4, <2>1, InAppended, Zenon
  <2>3. queue'[w] = Append(queue[w], r) /\ \A v \in BOOLEAN \ {w} : queue'[v] = queue[v]
    BY <1>2, <1>5, Zenon DEF ThrottleInv, ThrottleTyped
  <2>4. timer' \in [BOOLEAN -> BOOLEAN]
    BY <1>5, Zenon DEF ThrottleInv, ThrottleTyped
  <2>5. /\ \A v \in BOOLEAN : timer[v] => timer'[v]
        /\ must => timer'[w]
    BY <1>2, <1>5, Zenon DEF ThrottleInv, ThrottleTyped
  <2>6. queue' \in [BOOLEAN -> Seq(Reqs)]
    BY <1>2, <1>5, <2>2, Zenon DEF ThrottleInv, ThrottleTyped
  <2>7. ThrottleTyped'
    BY <1>1, <1>5, <2>4, <2>6, Zenon DEF ThrottleInv, ThrottleTyped
  <2>8. at'[r] = "throttled" /\ op'[r] = o /\ \A x \in Reqs \ {r} : at'[x] = at[x]
    BY <1>1, <1>5, Zenon DEF WaitInv, Typed
  <2>9. IsWrite(op'[r]) = w
    BY <2>8, Zenon DEF w
  <2>10. Queues'
    <3> SUFFICES ASSUME NEW v \in BOOLEAN
                 PROVE  /\ Distinct(queue'[v])
                        /\ \A x \in Reqs : In(x, queue'[v]) =>
                             at'[x] = "throttled" /\ IsWrite(op'[x]) = v /\ ~In(x, ready')
      BY Zenon DEF Queues
    <3>1. \A x \in Reqs : In(x, queue[v]) =>
            x # r /\ at[x] = "throttled" /\ IsWrite(op[x]) = v
      BY <1>4, Zenon DEF ThrottleInv, Queues
    <3>2. \A x : ~In(x, ready')
      BY <1>1, <1>5, InNone, Zenon
    <3>3. Distinct(queue[v])
      BY Zenon DEF ThrottleInv, Queues
    <3>4. CASE v = w
      <4>1. Distinct(queue'[v])
        BY <2>2, <2>3, <3>4, Zenon
      <4>2. ASSUME NEW x \in Reqs, In(x, queue'[v])
            PROVE  at'[x] = "throttled" /\ IsWrite(op'[x]) = v
        <5>1. x = r \/ In(x, queue[v])
          BY <2>2, <2>3, <3>4, <4>2, Zenon
        <5>2. CASE x = r
          BY <2>8, <2>9, <3>4, <5>2, Zenon
        <5>3. CASE In(x, queue[v])
          BY <1>3, <2>8, <3>1, <5>3, Zenon
        <5> QED
          BY <5>1, <5>2, <5>3, Zenon
      <4> QED
        BY <3>2, <4>1, <4>2, Zenon
    <3>5. CASE v # w
      BY <1>3, <2>3, <2>8, <3>1, <3>2, <3>3, <3>5, Zenon
    <3> QED
      BY <3>4, <3>5, Zenon
  <2>11. LookedAfter'
    <3>1. drain' \in {"none", "start"} /\ (drain' = "none" => drain = "none")
      BY <1>1, Zenon
    <3>2. ASSUME drain = "none", NEW v \in BOOLEAN, queue'[v] # <<>> PROVE timer'[v]
      <4>1. \A u \in BOOLEAN : ~Entered(u)
        BY <1>1, InNone, Zenon DEF Entered
      <4>2. \A u \in BOOLEAN : queue[u] # <<>> => timer[u]
        BY <3>2, <4>1, Zenon DEF ThrottleInv, LookedAfter
      <4>3. CASE v = w
        BY <1>2, <1>5, <2>5, <4>2, <4>3, Zenon
      <4>4. CASE v # w
        BY <2>3, <2>5, <3>2, <4>2, <4>4, Zenon
      <4> QED
        BY <4>3, <4>4, Zenon
    <3> QED
      BY <3>1, <3>2, Zenon DEF LookedAfter
  <2> QED
    BY <2>7, <2>10, <2>11, Zenon DEF ThrottleInv
<1>6. ASSUME NEW a, at' = [at EXCEPT ![r] = a], ready' = <<r>>, UNCHANGED <<queue, timer>>
      PROVE  ThrottleInv'
  <2>1. \A x \in Reqs : at[x] = "throttled" => x # r /\ at'[x] = at[x]
    BY <1>1, <1>6, Zenon DEF WaitInv, Typed
  <2>2. \A x \in Reqs : at[x] = "throttled" =>
          at'[x] = "throttled" /\ op'[x] = op[x] /\ (In(x, ready') <=> In(x, ready))
    BY <1>1, <1>3, <1>6, <2>1, InOne, InNone, Zenon
  <2>3. ready' \in Seq(Reqs) /\ drain' \in {"none", "start"} /\ (drain' = "none" => drain = "none")
    BY <1>1, <1>6, InOne, Zenon
  <2> QED
    BY <1>6, <2>2, <2>3, ThrottleKept, Zenon
<1> QED
  BY <1>5, <1>6, Zenon DEF Submit

\* The rest of bdrv_io_limits_intercept wakes the next one or arms the timer for it.
LEMMA ThrottleAdmit ==
  ASSUME WaitInv, ThrottleInv, NEW r \in Reqs, Admit(r) PROVE ThrottleInv'
<1> DEFINE w == IsWrite(op[r])
<1>1. /\ ready \in Seq(Reqs) /\ ready # <<>> /\ Head(ready) = r /\ at[r] = "throttled"
      /\ at' = [at EXCEPT ![r] = "begin"] /\ op' = op /\ drain' = drain
  BY Zenon DEF Admit, drainVars, ThrottleInv, ThrottleTyped
<1>2. w \in BOOLEAN
  BY WriteOrNot, Zenon
<1>3. In(r, ready) /\ Tail(ready) \in Seq(Reqs) /\ \A x : In(x, ready) <=> x = r \/ In(x, Tail(ready))
  BY <1>1, InParts, Zenon
<1>4. \A v \in BOOLEAN : ~In(r, queue[v])
  BY <1>3, Zenon DEF ThrottleInv, Queues
<1>5. \A x \in Reqs \ {r} : at'[x] = at[x]
  BY <1>1, Zenon DEF WaitInv, Typed
<1>6. drain \in {"none", "start"}
  BY <1>1, Zenon DEF ThrottleInv, ThrottleTyped, LookedAfter
<1>7. PICK must \in BOOLEAN :
        /\ timer' = [timer EXCEPT ![w] = @ \/ must]
        /\ IF must
           THEN UNCHANGED <<queue, ready>>
           ELSE /\ queue' = [queue EXCEPT ![w] = Rest(@)]
                /\ ready' = <<r>> \o First(queue[w]) \o Tail(ready)
  BY Zenon DEF Admit, ScheduleTimer
<1> HIDE DEF w
<1>8. timer' \in [BOOLEAN -> BOOLEAN]
  BY <1>7, Zenon DEF ThrottleInv, ThrottleTyped
<1>9. /\ \A v \in BOOLEAN : timer[v] => timer'[v]
      /\ must => timer'[w]
  BY <1>2, <1>7, Zenon DEF ThrottleInv, ThrottleTyped
<1>10. \A v \in BOOLEAN \ {w}, x \in Reqs : IsWrite(op[x]) = v => x # r
  BY Zenon DEF w
<1>11. CASE must
  <2>1. queue' = queue /\ ready' = ready
    BY <1>7, <1>11, Zenon
  <2>2. ThrottleTyped'
    BY <1>1, <1>8, <2>1, Zenon DEF ThrottleInv, ThrottleTyped
  <2>3. Queues'
    BY <1>1, <1>4, <1>5, <2>1, Zenon DEF ThrottleInv, Queues
  <2>4. \A v \in BOOLEAN \ {w} : Entered(v) => Entered(v)'
    BY <1>1, <1>5, <1>10, <2>1, Zenon DEF Entered
  <2>5. LookedAfter'
    <3>1. ASSUME drain = "none", NEW v \in BOOLEAN, queue[v] # <<>> PROVE timer'[v] \/ Entered(v)'
      <4>1. timer[v] \/ Entered(v)
        BY <3>1, Zenon DEF ThrottleInv, LookedAfter
      <4>2. CASE v = w
        BY <1>9, <1>11, <4>2, Zenon
      <4>3. CASE v # w
        BY <1>9, <2>4, <4>1, <4>3, Zenon
      <4> QED
        BY <4>2, <4>3, Zenon
    <3> QED
      BY <1>1, <1>6, <2>1, <3>1, Zenon DEF LookedAfter
  <2> QED
    BY <2>2, <2>3, <2>5, Zenon DEF ThrottleInv
<1>12. CASE ~must
  <2>1. /\ queue' = [queue EXCEPT ![w] = Rest(@)]
        /\ ready' = <<r>> \o First(queue[w]) \o Tail(ready)
    BY <1>7, <1>12, Zenon
  <2>2. queue[w] \in Seq(Reqs) /\ Distinct(queue[w])
    BY <1>2, Zenon DEF ThrottleInv, ThrottleTyped, Queues
  <2>3. /\ First(queue[w]) \in Seq(Reqs) /\ Rest(queue[w]) \in Seq(Reqs)
        /\ Distinct(Rest(queue[w]))
        /\ \A x : In(x, queue[w]) <=> In(x, First(queue[w])) \/ In(x, Rest(queue[w]))
        /\ \A x : ~(In(x, First(queue[w])) /\ In(x, Rest(queue[w])))
        /\ queue[w] # <<>> => Head(queue[w]) \in Reqs /\ In(Head(queue[w]), First(queue[w]))
        /\ queue[w] = <<>> => Rest(queue[w]) = <<>>
    BY <2>2, Taken, Zenon
  <2>4. /\ ready' \in Seq(Reqs)
        /\ \A x : In(x, ready') <=> x = r \/ In(x, First(queue[w])) \/ In(x, Tail(ready))
    <3>1. /\ <<r>> \o First(queue[w]) \in Seq(Reqs)
          /\ \A x : In(x, <<r>> \o First(queue[w])) <=> x = r \/ In(x, First(queue[w]))
      BY <2>3, InOne, InJoined, Joins, Zenon
    <3> QED
      BY <1>3, <2>1, <3>1, InJoined, Joins, Zenon
  <2>5. queue'[w] = Rest(queue[w]) /\ \A v \in BOOLEAN \ {w} : queue'[v] = queue[v]
    BY <1>2, <2>1, Zenon DEF ThrottleInv, ThrottleTyped
  <2>6. queue' \in [BOOLEAN -> Seq(Reqs)]
    BY <1>2, <2>1, <2>3, Zenon DEF ThrottleInv, ThrottleTyped
  <2>7. ThrottleTyped'
    BY <1>1, <1>8, <2>4, <2>6, Zenon DEF ThrottleInv, ThrottleTyped
  <2>8. Queues'
    <3> SUFFICES ASSUME NEW v \in BOOLEAN
                 PROVE  /\ Distinct(queue'[v])
                        /\ \A x \in Reqs : In(x, queue'[v]) =>
                             at'[x] = "throttled" /\ IsWrite(op'[x]) = v /\ ~In(x, ready')
      BY Zenon DEF Queues
    <3>1. \A x \in Reqs : In(x, queue[v]) =>
            /\ x # r /\ at[x] = "throttled" /\ IsWrite(op[x]) = v
            /\ ~In(x, ready) /\ (v # w => ~In(x, queue[w]))
      BY <1>2, <1>4 DEF ThrottleInv, Queues
    <3>2. Distinct(queue[v])
      BY Zenon DEF ThrottleInv, Queues
    <3>3. CASE v = w
      BY <1>1, <1>3, <1>5, <2>3, <2>4, <2>5, <3>1, <3>3, ZenonT(60)
    <3>4. CASE v # w
      BY <1>1, <1>3, <1>5, <2>3, <2>4, <2>5, <3>1, <3>2, <3>4, Zenon
    <3> QED
      BY <3>3, <3>4, Zenon
  <2>9. LookedAfter'
    <3>1. ASSUME drain = "none", NEW v \in BOOLEAN, queue'[v] # <<>> PROVE timer'[v] \/ Entered(v)'
      <4>1. CASE v = w
        <5>1. queue[w] # <<>>
          BY <2>3, <2>5, <3>1, <4>1, Zenon
        <5> DEFINE x == Head(queue[w])
        <5>2. x \in Reqs /\ In(x, queue[w]) /\ In(x, ready')
          BY <2>3, <2>4, <5>1, Zenon
        <5>3. at[x] = "throttled" /\ IsWrite(op[x]) = w /\ x # r
          BY <1>2, <1>4, <5>2, Zenon DEF ThrottleInv, Queues
        <5>4. In(x, ready') /\ at'[x] = "throttled" /\ IsWrite(op'[x]) = v
          BY <1>1, <1>5, <4>1, <5>2, <5>3, Zenon
        <5>5. Entered(v)'
          BY <5>2, <5>4, Zenon DEF Entered
        <5> QED
          BY <5>5, Zenon
      <4>2. CASE v # w
        <5>1. timer[v] \/ Entered(v)
          BY <2>5, <3>1, <4>2, Zenon DEF ThrottleInv, LookedAfter
        <5>2. Entered(v) => Entered(v)'
          BY <1>1, <1>3, <1>5, <1>10, <2>4, <4>2, Zenon DEF Entered
        <5> QED
          BY <1>9, <5>1, <5>2, Zenon
      <4> QED
        BY <4>1, <4>2, Zenon
    <3> QED
      BY <1>1, <1>6, <3>1, Zenon DEF LookedAfter
  <2> QED
    BY <2>7, <2>8, <2>9, Zenon DEF ThrottleInv
<1> QED
  BY <1>11, <1>12, Zenon


\* The coroutines that go on are not throttled.
LEMMA ThrottleGo ==
  ASSUME WaitInv, ThrottleInv, NEW r \in Reqs, Go(r) PROVE ThrottleInv'
<1>1. /\ ready \in Seq(Reqs) /\ ready # <<>> /\ Head(ready) = r
      /\ ready' = Tail(ready) /\ at[r] \in {"begin", "woken", "next"}
      /\ UNCHANGED <<op, queue, timer, drain>>
  BY Zenon DEF Go, throttleVars, drainVars, ThrottleInv, ThrottleTyped
<1>2. PICK a : at' = [at EXCEPT ![r] = a]
  BY Zenon DEF Go
<1>3. \A x \in Reqs : at[x] = "throttled" => x # r /\ at'[x] = at[x]
  BY <1>1, <1>2, Zenon DEF WaitInv, Typed
<1>4. Tail(ready) \in Seq(Reqs) /\ \A x : In(x, ready) <=> x = r \/ In(x, Tail(ready))
  BY <1>1, InParts, Zenon
<1>5. drain \in {"none", "start"}
  BY <1>1, Zenon DEF ThrottleInv, ThrottleTyped, LookedAfter
<1> QED
  BY <1>1, <1>3, <1>4, <1>5, ThrottleKept, Zenon

LEMMA ThrottleEffect ==
  ASSUME WaitInv, ThrottleInv, NEW r \in Reqs, Effect(r) PROVE ThrottleInv'
<1>1. /\ at[r] = "io" /\ at' = [at EXCEPT ![r] = "landed"]
      /\ UNCHANGED <<op, queue, timer, ready, drain>>
  BY Zenon DEF Effect, throttleVars, drainVars
<1>2. \A x \in Reqs : at[x] = "throttled" => at'[x] = at[x]
  BY <1>1, Zenon DEF WaitInv, Typed
<1> QED
  BY <1>1, <1>2, ThrottleKept, Zenon DEF ThrottleInv, ThrottleTyped, LookedAfter

LEMMA ThrottleResume ==
  ASSUME WaitInv, ThrottleInv, NEW r \in Reqs, Resume(r) PROVE ThrottleInv'
<1>1. /\ at[r] = "landed" /\ at' = [at EXCEPT ![r] = "next"]
      /\ ready = <<>> /\ ready' = <<r>>
      /\ UNCHANGED <<op, queue, timer>>
      /\ drain' \in {"none", "start"} /\ (drain' = "none" => drain = "none")
  BY Zenon DEF Resume, InEventLoop, Progress, throttleVars
<1>2. \A x \in Reqs : at[x] = "throttled" => x # r /\ at'[x] = at[x]
  BY <1>1, Zenon DEF WaitInv, Typed
<1>3. ready' \in Seq(Reqs) /\ \A x \in Reqs : x # r => (In(x, ready') <=> In(x, ready))
  BY <1>1, InOne, InNone, Zenon
<1> QED
  BY <1>1, <1>2, <1>3, ThrottleKept, Zenon

\* tracked_request_end restarts requests that wait, not throttled ones.
LEMMA ThrottleEnd ==
  ASSUME WaitInv, ThrottleInv, NEW r \in Reqs, End(r) PROVE ThrottleInv'
<1>1. /\ at[r] \in {"io", "landed"}
      /\ at' = [q \in Reqs |-> IF q = r THEN "done"
                                ELSE IF q \in Range(waitQueue[r]) THEN "woken" ELSE at[q]]
      /\ op' = [op EXCEPT ![r] = NoOp]
      /\ ready = <<>> /\ ready' = waitQueue[r]
      /\ UNCHANGED <<queue, timer>>
      /\ drain' \in {"none", "start"} /\ (drain' = "none" => drain = "none")
  BY Zenon DEF End, Restarted, InEventLoop, Progress, throttleVars
<1>2. waitQueue[r] \in Seq(Reqs)
  BY Zenon DEF WaitInv, Typed
<1>3. \A x \in Reqs : at[x] = "throttled" => x # r /\ ~In(x, waitQueue[r])
  BY <1>1, Zenon DEF WaitInv, WaitsRecorded, In
<1>4. \A x \in Reqs : x \in Range(waitQueue[r]) <=> In(x, waitQueue[r])
  BY Zenon DEF Range, In
<1>5. \A x \in Reqs : at[x] = "throttled" => at'[x] = at[x] /\ op'[x] = op[x]
  BY <1>1, <1>3, <1>4, Zenon DEF WaitInv, Typed
<1>6. \A x \in Reqs : at[x] = "throttled" => (In(x, ready') <=> In(x, ready))
  BY <1>1, <1>3, InNone, Zenon
<1> QED
  BY <1>1, <1>2, <1>5, <1>6, ThrottleKept, Zenon

\* bdrv_drain_all looks at the queues itself.
LEMMA ThrottleDrain ==
  ASSUME ThrottleInv, DrainBegin \/ DrainPolls \/ DrainEnds PROVE ThrottleInv'
<1>1. /\ UNCHANGED <<op, at, queue, timer, ready>> /\ ready = <<>>
      /\ \/ drain' = "start"
         \/ drain = "start" /\ NothingThrottled /\ drain' \in {"poll", "last"}
         \/ drain = "last" /\ drain' = "none"
  BY Zenon DEF DrainBegin, DrainPolls, DrainEnds, throttleVars
<1>2. /\ drain' \in {"none", "start", "poll", "last"}
      /\ drain' = "none" => \A w \in BOOLEAN : queue[w] = <<>>
      /\ drain' \in {"poll", "last"} => \A w \in BOOLEAN : queue[w] = <<>>
  BY <1>1, Zenon DEF ThrottleInv, LookedAfter, NothingThrottled
<1> QED
  BY <1>1, <1>2, ThrottleKept, Zenon DEF ThrottleInv, ThrottleTyped


\* The first requests of the queues in D are entered; each looks after the rest of its queue.
LEMMA ThrottleTakes ==
  ASSUME ThrottleInv, NEW D \in SUBSET BOOLEAN,
         ready = <<>>, drain \in {"none", "start"}, UNCHANGED <<at, op, drain>>,
         ready' \in Seq(Reqs), timer' \in [BOOLEAN -> BOOLEAN],
         queue' = [v \in BOOLEAN |-> IF v \in D THEN Rest(queue[v]) ELSE queue[v]],
         \A x : In(x, ready') <=> \E v \in D : In(x, First(queue[v])),
         \A v \in BOOLEAN \ D : timer[v] => timer'[v]
  PROVE  ThrottleInv'
<1>1. ASSUME NEW v \in BOOLEAN
      PROVE  /\ queue[v] \in Seq(Reqs) /\ Distinct(queue[v])
             /\ First(queue[v]) \in Seq(Reqs) /\ Rest(queue[v]) \in Seq(Reqs)
             /\ Distinct(Rest(queue[v]))
             /\ \A x : In(x, queue[v]) <=> In(x, First(queue[v])) \/ In(x, Rest(queue[v]))
             /\ \A x : ~(In(x, First(queue[v])) /\ In(x, Rest(queue[v])))
             /\ queue[v] # <<>> => Head(queue[v]) \in Reqs /\ In(Head(queue[v]), First(queue[v]))
             /\ queue[v] = <<>> => Rest(queue[v]) = <<>>
  <2>1. queue[v] \in Seq(Reqs) /\ Distinct(queue[v])
    BY Zenon DEF ThrottleInv, ThrottleTyped, Queues
  <2> QED
    BY <2>1, Taken, Zenon
<1>2. \A v \in BOOLEAN : queue'[v] = IF v \in D THEN Rest(queue[v]) ELSE queue[v]
  BY Zenon
<1>3. queue' \in [BOOLEAN -> Seq(Reqs)]
  BY <1>1, Zenon
<1>4. ThrottleTyped'
  BY <1>3, Zenon DEF ThrottleInv, ThrottleTyped
<1>5. \A v \in BOOLEAN, x \in Reqs : In(x, queue[v]) => at[x] = "throttled" /\ IsWrite(op[x]) = v
  BY Zenon DEF ThrottleInv, Queues
<1>6. Queues'
  <2> SUFFICES ASSUME NEW v \in BOOLEAN
               PROVE  /\ Distinct(queue'[v])
                      /\ \A x \in Reqs : In(x, queue'[v]) =>
                           at'[x] = "throttled" /\ IsWrite(op'[x]) = v /\ ~In(x, ready')
    BY Zenon DEF Queues
  <2>1. Distinct(queue'[v]) /\ \A x : In(x, queue'[v]) => In(x, queue[v])
    BY <1>1, <1>2, Zenon
  <2>2. ASSUME NEW x \in Reqs, In(x, queue'[v]), In(x, ready') PROVE FALSE
    <3>1. PICK u \in D : In(x, First(queue[u]))
      BY <2>2, Zenon
    <3>2. u = v
      BY <1>1, <1>5, <2>1, <2>2, <3>1, Zenon
    <3> QED
      BY <1>1, <1>2, <2>2, <3>1, <3>2, Zenon
  <2> QED
    BY <1>5, <2>1, <2>2, Zenon
<1>7. ASSUME drain = "none", NEW v \in BOOLEAN, queue'[v] # <<>> PROVE timer'[v] \/ Entered(v)'
  <2>1. CASE v \in D
    <3> DEFINE x == Head(queue[v])
    <3>1. queue[v] # <<>>
      BY <1>1, <1>2, <1>7, <2>1, Zenon
    <3>2. x \in Reqs /\ In(x, queue[v]) /\ In(x, ready')
      BY <1>1, <2>1, <3>1, Zenon
    <3>3. at'[x] = "throttled" /\ IsWrite(op'[x]) = v
      BY <1>5, <3>2, Zenon
    <3>4. Entered(v)'
      BY <3>2, <3>3, Zenon DEF Entered
    <3> QED
      BY <3>4, Zenon
  <2>2. CASE v \notin D
    <3>1. ~Entered(v) /\ queue[v] # <<>>
      BY <1>2, <1>7, <2>2, InNone, Zenon DEF Entered
    <3>2. timer[v]
      BY <1>7, <3>1, Zenon DEF ThrottleInv, LookedAfter
    <3> QED
      BY <2>2, <3>2, Zenon
  <2> QED
    BY <2>1, <2>2, Zenon
<1>8. LookedAfter'
  BY <1>7, Zenon DEF LookedAfter
<1> QED
  BY <1>4, <1>6, <1>8, Zenon DEF ThrottleInv

LEMMA ThrottleTimerFires ==
  ASSUME ThrottleInv, NEW w \in BOOLEAN, TimerFires(w) PROVE ThrottleInv'
<1>1. /\ ready = <<>> /\ drain = "none" /\ UNCHANGED <<at, op, drain>>
      /\ timer' = [timer EXCEPT ![w] = FALSE]
      /\ ready' = First(queue[w]) /\ queue' = [queue EXCEPT ![w] = Rest(@)]
  BY Zenon DEF TimerFires, drainVars
<1>2. queue[w] \in Seq(Reqs) /\ Distinct(queue[w]) /\ DOMAIN queue = BOOLEAN
  BY Zenon DEF ThrottleInv, ThrottleTyped, Queues
<1>3. First(queue[w]) \in Seq(Reqs)
  BY <1>2, Taken, Zenon
<1>4. timer' \in [BOOLEAN -> BOOLEAN] /\ \A v \in BOOLEAN \ {w} : timer[v] => timer'[v]
  BY <1>1, Zenon DEF ThrottleInv, ThrottleTyped
<1>5. queue' = [v \in BOOLEAN |-> IF v \in {w} THEN Rest(queue[v]) ELSE queue[v]]
  BY <1>1, <1>2, Zenon
<1>6. \A x : In(x, ready') <=> \E v \in {w} : In(x, First(queue[v]))
  BY <1>1, Zenon
<1> QED
  BY <1>1, <1>3, <1>4, <1>5, <1>6, ThrottleTakes, Zenon

LEMMA ThrottleDrainStarts ==
  ASSUME ThrottleInv, NEW w \in BOOLEAN, DrainStarts(w) PROVE ThrottleInv'
<1>1. /\ ready = <<>> /\ drain = "start" /\ UNCHANGED <<at, op, drain, timer>>
      /\ queue[w] # <<>>
      /\ ready' = <<Head(queue[w])>> /\ queue' = [queue EXCEPT ![w] = Tail(@)]
  BY Zenon DEF DrainStarts, drainVars
<1>2. queue[w] \in Seq(Reqs) /\ Distinct(queue[w]) /\ DOMAIN queue = BOOLEAN
  BY Zenon DEF ThrottleInv, ThrottleTyped, Queues
<1>3. /\ Head(queue[w]) \in Reqs /\ Rest(queue[w]) = Tail(queue[w])
      /\ \A x : In(x, First(queue[w])) <=> x = Head(queue[w])
  BY <1>1, <1>2, Taken, Zenon
<1>4. timer' \in [BOOLEAN -> BOOLEAN] /\ \A v \in BOOLEAN \ {w} : timer[v] => timer'[v]
  BY <1>1, Zenon DEF ThrottleInv, ThrottleTyped
<1>5. queue' = [v \in BOOLEAN |-> IF v \in {w} THEN Rest(queue[v]) ELSE queue[v]]
  BY <1>1, <1>2, <1>3, Zenon
<1>6. ready' \in Seq(Reqs) /\ \A x : In(x, ready') <=> x = Head(queue[w])
  BY <1>1, <1>3, InOne, Zenon
<1>7. \A x : In(x, ready') <=> \E v \in {w} : In(x, First(queue[v]))
  BY <1>3, <1>6, Zenon
<1> QED
  BY <1>1, <1>4, <1>5, <1>6, <1>7, ThrottleTakes, Zenon

\* throttle_config cancels both timers, and both queues are looked at.
LEMMA ThrottleSetIoLimits ==
  ASSUME ThrottleInv, SetIoLimits PROVE ThrottleInv'
<1>1. /\ ready = <<>> /\ drain = "none" /\ UNCHANGED <<at, op, drain>>
      /\ timer' = [w \in BOOLEAN |-> FALSE]
      /\ ready' = First(queue[FALSE]) \o First(queue[TRUE])
      /\ queue' = [w \in BOOLEAN |-> Rest(queue[w])]
  BY Zenon DEF SetIoLimits, drainVars
<1>2. ASSUME NEW v \in BOOLEAN PROVE First(queue[v]) \in Seq(Reqs)
  <2>1. queue[v] \in Seq(Reqs) /\ Distinct(queue[v])
    BY Zenon DEF ThrottleInv, ThrottleTyped, Queues
  <2> QED
    BY <2>1, Taken, Zenon
<1>3. timer' \in [BOOLEAN -> BOOLEAN]
  BY <1>1, Zenon
<1>4. queue' = [v \in BOOLEAN |-> IF v \in BOOLEAN THEN Rest(queue[v]) ELSE queue[v]]
  BY <1>1, Zenon
<1>5. First(queue[FALSE]) \in Seq(Reqs) /\ First(queue[TRUE]) \in Seq(Reqs)
  BY <1>2, Zenon
<1>6. ready' \in Seq(Reqs)
      /\ \A x : In(x, ready') <=> In(x, First(queue[FALSE])) \/ In(x, First(queue[TRUE]))
  BY <1>1, <1>5, Joins, InJoined, Zenon
<1>7. \A x : In(x, ready') <=> \E v \in BOOLEAN : In(x, First(queue[v]))
  BY <1>6, Zenon
<1> QED
  BY <1>1, <1>3, <1>4, <1>6, <1>7, ThrottleTakes, Zenon

LEMMA ThrottleNext == WaitInv /\ ThrottleInv /\ [Next]_vars => ThrottleInv'
<1> SUFFICES ASSUME WaitInv, ThrottleInv, [Next]_vars PROVE ThrottleInv'
  BY Zenon
<1>1. ASSUME NEW r \in Reqs, NEW o \in Ops, Submit(r, o) PROVE ThrottleInv'
  BY <1>1, ThrottleSubmit, Zenon
<1>2. ASSUME NEW r \in Reqs, Runs(r) \/ Effect(r) \/ Resume(r) \/ End(r) PROVE ThrottleInv'
  BY <1>2, ThrottleAdmit, ThrottleGo, ThrottleEffect, ThrottleResume, ThrottleEnd, Zenon DEF Runs
<1>3. ASSUME NEW w \in BOOLEAN, TimerFires(w) \/ DrainStarts(w) PROVE ThrottleInv'
  BY <1>3, ThrottleTimerFires, ThrottleDrainStarts, Zenon
<1>4. CASE SetIoLimits \/ DrainBegin \/ DrainPolls \/ DrainEnds
  BY <1>4, ThrottleSetIoLimits, ThrottleDrain, Zenon
<1>5. CASE UNCHANGED vars
  <2>1. UNCHANGED <<queue, timer, ready, drain, at, op>>
    BY <1>5, Zenon DEF vars, throttleVars, drainVars
  <2> QED
    BY <2>1, ThrottleKept, Zenon DEF ThrottleInv, ThrottleTyped, LookedAfter
<1> QED
  BY <1>1, <1>2, <1>3, <1>4, <1>5, Zenon DEF Next, Drain

\* A request that bdrv_io_limits_intercept has queued is not forgotten: between two
\* events of the main loop its queue has a timer, although timers are cancelled by
\* bdrv_set_io_limits and although bdrv_drain_all empties the queues behind their back.
THEOREM ThrottledIsTimed == Spec => []ThrottledHasTimer
<1>1. ThrottleInv => ThrottledHasTimer
  <2> SUFFICES ASSUME ThrottleInv, NEW w \in BOOLEAN, ready = <<>>, drain = "none",
                      queue[w] # <<>>
               PROVE  timer[w]
    BY Zenon DEF ThrottledHasTimer
  <2>1. ~Entered(w)
    BY InNone, Zenon DEF Entered
  <2> QED
    BY <2>1, Zenon DEF ThrottleInv, LookedAfter
<1> QED
  BY WaitInit, WaitNext, ThrottleInit, ThrottleNext, <1>1, PTL DEF Spec

=============================================================================
