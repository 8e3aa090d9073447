-------------------------- MODULE CoroutineProofs --------------------------
(***************************************************************************)
(* The structure of coroutines that enter, queue and restart each other,   *)
(* for any set of coroutines and queues and any size of the pool.          *)
(*                                                                         *)
(* CoInv is inductive.  Beside the three properties it says that a caller  *)
(* is alive (CallersLive) and that a coroutine that has terminated is      *)
(* given back by one coroutine_swap only (DeletesOnce): a coroutine stays  *)
(* the target of a call while what it had marked is entered, and may be    *)
(* given back and created again before an outer call returns.              *)
(***************************************************************************)
EXTENDS Coroutine, TLAPS

-----------------------------------------------------------------------------
(* Lists of coroutines.                                                    *)

LEMMA Joined ==
  ASSUME NEW u \in Seq(Cos), NEW v \in Seq(Cos)
  PROVE  /\ u \o v \in Seq(Cos) /\ Len(u \o v) = Len(u) + Len(v)
         /\ \A x \in 1 .. Len(u) + Len(v) :
              (u \o v)[x] = IF x <= Len(u) THEN u[x] ELSE v[x - Len(u)]
<1>1. u \o v \in Seq(Cos) /\ Len(u \o v) = Len(u) + Len(v)
  OBVIOUS
<1>2. ASSUME NEW x \in 1 .. Len(u) + Len(v)
      PROVE  (u \o v)[x] = IF x <= Len(u) THEN u[x] ELSE v[x - Len(u)]
  OBVIOUS
<1> QED
  BY <1>1, <1>2, Zenon

\* The pool is a list that is used at its head.
LEMMA Pushed ==
  ASSUME NEW s \in Seq(Cos), IsInjective(s), NEW e \in Cos, e \notin Range(s)
  PROVE  /\ <<e>> \o s \in Seq(Cos) /\ IsInjective(<<e>> \o s)
         /\ Range(<<e>> \o s) = Range(s) \cup {e}
         /\ <<e>> \o s # <<>> /\ Len(<<e>> \o s) = Len(s) + 1
<1> DEFINE t == <<e>> \o s
<1>1. t \in Seq(Cos) /\ Len(t) = Len(s) + 1 /\ DOMAIN t = 1 .. Len(s) + 1
  OBVIOUS
<1>2. t[1] = e /\ \A i \in DOMAIN s : i + 1 \in DOMAIN t /\ t[i + 1] = s[i]
  OBVIOUS
<1>3. \A i \in DOMAIN t : i = 1 \/ (i - 1 \in DOMAIN s /\ t[i] = s[i - 1])
  OBVIOUS
<1> HIDE DEF t
<1>4. IsInjective(t)
  <2> SUFFICES ASSUME NEW i \in DOMAIN t, NEW j \in DOMAIN t, t[i] = t[j] PROVE i = j
    BY Zenon DEF IsInjective
  <2>1. CASE i # 1 /\ j # 1
    <3>1. i - 1 \in DOMAIN s /\ j - 1 \in DOMAIN s /\ s[i - 1] = s[j - 1]
      BY <1>3, <2>1, Zenon
    <3>2. i - 1 = j - 1
      BY <3>1, Zenon DEF IsInjective
    <3> QED
      BY <1>1, <3>2
  <2>2. CASE i = 1 \/ j = 1
    BY <1>2, <1>3, <2>2 DEF Range
  <2> QED
    BY <2>1, <2>2, Zenon
<1>5. Range(t) = Range(s) \cup {e}
  <2>1. ASSUME NEW i \in DOMAIN t PROVE t[i] \in Range(s) \cup {e}
    BY <1>2, <1>3, Zenon DEF Range
  <2>2. ASSUME NEW x \in Range(s) PROVE x \in Range(t)
    BY <1>2, Zenon DEF Range
  <2>3. e \in Range(t)
    BY <1>1, <1>2 DEF Range
  <2> QED
    BY <2>1, <2>2, <2>3, Zenon DEF Range
<1> QED
  BY <1>1, <1>4, <1>5 DEF t

\* qemu_co_queue_wait adds at the tail.
LEMMA Appended ==
  ASSUME NEW s \in Seq(Cos), IsInjective(s), NEW e \in Cos, e \notin Range(s)
  PROVE  /\ Append(s, e) \in Seq(Cos) /\ IsInjective(Append(s, e))
         /\ Range(Append(s, e)) = Range(s) \cup {e} /\ Len(Append(s, e)) = Len(s) + 1
         /\ Append(s, e) # <<>>
<1> DEFINE t == Append(s, e)
<1>1. /\ t \in Seq(Cos) /\ Len(t) = Len(s) + 1 /\ DOMAIN t = 1 .. Len(s) + 1
      /\ Len(s) \in Nat /\ DOMAIN s = 1 .. Len(s)
  OBVIOUS
<1>2. t[Len(s) + 1] = e /\ \A i \in DOMAIN s : i \in DOMAIN t /\ t[i] = s[i]
  OBVIOUS
<1> HIDE DEF t
<1>3. \A i \in DOMAIN t : i = Len(s) + 1 \/ i \in DOMAIN s
  BY <1>1
<1>4. IsInjective(t)
  <2> SUFFICES ASSUME NEW i \in DOMAIN t, NEW j \in DOMAIN t, t[i] = t[j] PROVE i = j
    BY Zenon DEF IsInjective
  <2> QED
    BY <1>1, <1>2, <1>3, Zenon DEF IsInjective, Range
<1>5. Range(t) = Range(s) \cup {e}
  <2>1. ASSUME NEW i \in DOMAIN t PROVE t[i] \in Range(s) \cup {e}
    BY <1>2, <1>3, Zenon DEF Range
  <2>2. ASSUME NEW x \in Range(s) PROVE x \in Range(t)
    BY <1>2, Zenon DEF Range
  <2>3. e \in Range(t)
    BY <1>1, <1>2 DEF Range
  <2> QED
    BY <2>1, <2>2, <2>3, Zenon DEF Range
<1> QED
  BY <1>1, <1>4, <1>5 DEF t

\* The first one is taken.
LEMMA Popped ==
  ASSUME NEW s \in Seq(Cos), s # <<>>, IsInjective(s)
  PROVE  /\ Head(s) \in Range(s) /\ Head(s) \in Cos
         /\ Tail(s) \in Seq(Cos) /\ IsInjective(Tail(s))
         /\ Range(Tail(s)) = Range(s) \ {Head(s)}
         /\ Len(Tail(s)) = Len(s) - 1
<1> DEFINE t == Tail(s)
<1>1. /\ Len(s) \in Nat /\ Len(s) >= 1 /\ DOMAIN s = 1 .. Len(s)
      /\ t \in Seq(Cos) /\ Len(t) = Len(s) - 1 /\ DOMAIN t = 1 .. Len(s) - 1
  OBVIOUS
<1>2. Head(s) = s[1] /\ \A i \in DOMAIN t : t[i] = s[i + 1]
  OBVIOUS
<1>3. Head(s) \in Range(s) /\ Head(s) \in Cos
  BY <1>1, <1>2 DEF Range
<1> HIDE DEF t
<1>4. /\ \A i \in DOMAIN t : i + 1 \in DOMAIN s /\ i + 1 # 1
      /\ \A i \in DOMAIN s : i # 1 => i - 1 \in DOMAIN t /\ (i - 1) + 1 = i
      /\ \A i, j \in DOMAIN t : i + 1 = j + 1 => i = j
  BY <1>1
<1>5. IsInjective(t)
  BY <1>2, <1>4 DEF IsInjective
<1>6. Range(t) = Range(s) \ {Head(s)}
  <2>1. ASSUME NEW i \in DOMAIN t PROVE t[i] \in Range(s) \ {Head(s)}
    BY <1>1, <1>2, <1>4 DEF Range, IsInjective
  <2>2. ASSUME NEW i \in DOMAIN s, s[i] # Head(s) PROVE s[i] \in Range(t)
    <3>1. i # 1
      BY <1>2, <2>2, Zenon
    <3> QED
      BY <1>2, <1>4, <3>1 DEF Range
  <2> QED
    BY <2>1, <2>2, Zenon DEF Range
<1> QED
  BY <1>1, <1>3, <1>5, <1>6, Zenon DEF t

-----------------------------------------------------------------------------
(* Who has which element.                                                  *)

\* qemu_co_queue_do_restart takes the first n.
LEMMA Divided ==
  ASSUME NEW s \in Seq(Cos), IsInjective(s), NEW n \in 0 .. Len(s)
  PROVE  LET u == SubSeq(s, 1, n)
             v == SubSeq(s, n + 1, Len(s))
         IN  /\ u \in Seq(Cos) /\ v \in Seq(Cos) /\ IsInjective(u) /\ IsInjective(v)
             /\ Range(u) \cup Range(v) = Range(s) /\ Range(u) \cap Range(v) = {}
             /\ n = Len(s) => v = <<>>
             /\ n > 0 => Head(s) \in Range(u)
<1> DEFINE u == SubSeq(s, 1, n)
           v == SubSeq(s, n + 1, Len(s))
<1>1. Len(s) \in Nat /\ n \in Nat /\ n <= Len(s) /\ DOMAIN s = 1 .. Len(s)
  OBVIOUS
<1>2. u \in Seq(Cos) /\ DOMAIN u = 1 .. n /\ \A i \in 1 .. n : u[i] = s[i]
  BY <1>1
<1>3. v \in Seq(Cos) /\ DOMAIN v = 1 .. Len(s) - n
  <2>1. PICK m \in Nat : m = n + 1
    BY <1>1
  <2> QED
    BY <1>1, <2>1 DEF SubSeq
<1>12. ASSUME NEW i \in 1 .. Len(s) - n PROVE v[i] = s[i + n]
  <2>1. i \in Int /\ i >= 1 /\ i + n <= Len(s) /\ i <= Len(s) - n
    BY <1>1
  <2>2. v[i] = s[i + (n + 1) - 1]
    BY <1>1, <2>1
  <2> QED
    BY <1>1, <2>1, <2>2
<1>4. n = Len(s) => v = <<>>
  <2>1. SubSeq(s, Len(s) + 1, Len(s)) = <<>>
    BY <1>1
  <2> QED
    BY <2>1, Zenon
<1>5. n > 0 => s # <<>> /\ Head(s) = s[1] /\ 1 \in DOMAIN u
  BY <1>1, <1>2
<1> HIDE DEF u, v
<1>6. /\ \A i \in DOMAIN u : i \in DOMAIN s /\ u[i] = s[i] /\ i <= n
      /\ \A i \in DOMAIN v : i + n \in DOMAIN s /\ v[i] = s[i + n] /\ ~(i + n <= n)
      /\ \A i \in DOMAIN s : i \in DOMAIN u \/ (i - n \in DOMAIN v /\ (i - n) + n = i)
      /\ \A i, j \in DOMAIN v : i + n = j + n => i = j
  BY <1>1, <1>2, <1>3, <1>12
<1>7. IsInjective(u)
  BY <1>6, Zenon DEF IsInjective
<1>8. IsInjective(v)
  <2> SUFFICES ASSUME NEW i \in DOMAIN v, NEW j \in DOMAIN v, v[i] = v[j] PROVE i = j
    BY Zenon DEF IsInjective
  <2>1. i + n = j + n
    BY <1>6, Zenon DEF IsInjective
  <2> QED
    BY <1>6, <2>1, Zenon
<1>9. Range(u) \cap Range(v) = {}
  <2> SUFFICES ASSUME NEW i \in DOMAIN u, NEW j \in DOMAIN v, u[i] = v[j] PROVE FALSE
    BY Zenon DEF Range
  <2>1. i = j + n
    BY <1>6, Zenon DEF IsInjective
  <2> QED
    BY <1>6, <2>1, Zenon
<1>10. Range(u) \cup Range(v) = Range(s)
  <2>1. ASSUME NEW i \in DOMAIN s PROVE s[i] \in Range(u) \cup Range(v)
    <3>1. CASE i \in DOMAIN u
      BY <1>6, <3>1 DEF Range
    <3>2. CASE i - n \in DOMAIN v /\ (i - n) + n = i
      <4>1. v[i - n] = s[i]
        BY <1>6, <3>2, Zenon
      <4> QED
        BY <3>2, <4>1, Zenon DEF Range
    <3> QED
      BY <1>6, <3>1, <3>2, Zenon
  <2>2. ASSUME NEW i \in DOMAIN u PROVE u[i] \in Range(s)
    BY <1>6, Zenon DEF Range
  <2>3. ASSUME NEW i \in DOMAIN v PROVE v[i] \in Range(s)
    BY <1>6, Zenon DEF Range
  <2> QED
    BY <2>1, <2>2, <2>3, Zenon DEF Range
<1>11. n > 0 => Head(s) \in Range(u)
  BY <1>5, <1>6 DEF Range
<1> QED
  BY <1>2, <1>3, <1>4, <1>7, <1>8, <1>9, <1>10, <1>11, Zenon DEF u, v

\* ... and adds them to the wake-up list.
LEMMA Linked ==
  ASSUME NEW u \in Seq(Cos), NEW v \in Seq(Cos), IsInjective(u), IsInjective(v),
         Range(u) \cap Range(v) = {}
  PROVE  u \o v \in Seq(Cos) /\ IsInjective(u \o v) /\ Range(u \o v) = Range(u) \cup Range(v)
<1> DEFINE s == u \o v
<1>1. /\ s \in Seq(Cos) /\ Len(s) = Len(u) + Len(v)
      /\ \A i \in 1 .. Len(u) + Len(v) : s[i] = IF i <= Len(u) THEN u[i] ELSE v[i - Len(u)]
  BY Joined, Zenon
<1> HIDE DEF s
<1>2. PICK n \in Nat : n = Len(u)
  OBVIOUS
<1>3. /\ DOMAIN u = 1 .. n /\ DOMAIN v = 1 .. Len(v) /\ DOMAIN s = 1 .. n + Len(v)
      /\ Len(v) \in Nat
  BY <1>1, <1>2
<1>7. ASSUME NEW i \in DOMAIN v PROVE i + n \in DOMAIN s /\ s[i + n] = v[i]
  <2>1. i + n \in 1 .. n + Len(v) /\ ~(i + n <= n) /\ (i + n) - n = i
    BY <1>3
  <2> QED
    BY <1>1, <1>2, <1>3, <2>1, Zenon
<1>4. /\ \A i \in DOMAIN u : i \in DOMAIN s /\ s[i] = u[i]
      /\ \A i \in DOMAIN v : i + n \in DOMAIN s /\ s[i + n] = v[i]
      /\ \A i \in DOMAIN s : (i \in DOMAIN u /\ s[i] = u[i])
                             \/ (i - n \in DOMAIN v /\ s[i] = v[i - n])
      /\ \A i, j \in DOMAIN s : i - n = j - n => i = j
  BY <1>1, <1>2, <1>3, <1>7
<1>5. IsInjective(s)
  <2> SUFFICES ASSUME NEW i \in DOMAIN s, NEW j \in DOMAIN s, s[i] = s[j] PROVE i = j
    BY Zenon DEF IsInjective
  <2>1. CASE i \in DOMAIN u /\ s[i] = u[i] /\ j \in DOMAIN u /\ s[j] = u[j]
    BY <2>1, Zenon DEF IsInjective
  <2>2. CASE i - n \in DOMAIN v /\ s[i] = v[i - n] /\ j - n \in DOMAIN v /\ s[j] = v[j - n]
    <3>1. i - n = j - n
      BY <2>2, Zenon DEF IsInjective
    <3> QED
      BY <1>4, <3>1, Zenon
  <2>3. ASSUME NEW k \in DOMAIN u, NEW l \in DOMAIN v, u[k] = v[l] PROVE FALSE
    BY <2>3, Zenon DEF Range
  <2> QED
    BY <1>4, <2>1, <2>2, <2>3, Zenon
<1>6. Range(s) = Range(u) \cup Range(v)
  <2>1. ASSUME NEW i \in DOMAIN s PROVE s[i] \in Range(u) \cup Range(v)
    BY <1>4, Zenon DEF Range
  <2>2. ASSUME NEW i \in DOMAIN u PROVE u[i] \in Range(s)
    BY <1>4, Zenon DEF Range
  <2>3. ASSUME NEW i \in DOMAIN v PROVE v[i] \in Range(s)
    BY <1>4, Zenon DEF Range
  <2> QED
    BY <2>1, <2>2, <2>3 DEF Range
<1> QED
  BY <1>1, <1>5, <1>6, Zenon DEF s

-----------------------------------------------------------------------------
(* The inductive invariant.                                                *)

\* What has terminated and is not deleted yet, according to the calls of coroutine_swap
\* on one stack; and no two calls are about the same.
Ended(s) == {c \in Cos : \E i \in DOMAIN s : s[i].ret = "TERMINATE" /\ s[i].to = c}

EndedOnce(s) ==
  \A i, j \in DOMAIN s :
    s[i].ret = "TERMINATE" /\ s[j].ret = "TERMINATE" /\ s[i].to = s[j].to => i = j

\* A coroutine that has been entered was entered by one that waits for it.
CallersLive ==
  /\ caller[Leader] = Null
  /\ \A c \in Cos : status[c] = "live" /\ caller[c] # Null =>
       /\ caller[c] # current /\ Active(caller[c])
       /\ caller[c] \in Cos => status[caller[c]] = "live"
  /\ \A c \in Cos : status[c] # "live" => stack[c] = <<>>
  /\ \A c \in Cos : status[c] \in {"free", "pooled"} => caller[c] = Null

\* A coroutine that coroutine_swap is going to delete has terminated, and is deleted once.
DeletesOnce ==
  /\ \A x \in All : \A i \in DOMAIN stack[x] : stack[x][i].ret = "TERMINATE" =>
       stack[x][i].to \in Cos /\ status[stack[x][i].to] = "dead"
  /\ \A x \in All : EndedOnce(stack[x])
  /\ \A x, y \in All : x # y => Ended(stack[x]) \cap Ended(stack[y]) = {}

CoInv == TypeOK /\ CallersWait /\ CallersLive /\ DeletesOnce /\ QueuedOnce /\ GivenBackClean

-----------------------------------------------------------------------------
(* The calls of coroutine_swap.                                            *)

\* A call begins.
LEMMA FramePushed ==
  ASSUME NEW s \in Seq(Frames), NEW f \in Frames, f.ret = "YIELD", EndedOnce(s)
  PROVE  LET t == <<f>> \o s
         IN  /\ t \in Seq(Frames) /\ t # <<>> /\ Head(t) = f
             /\ Ended(t) = Ended(s) /\ EndedOnce(t)
<1> DEFINE t == <<f>> \o s
<1>1. /\ t \in Seq(Frames) /\ t # <<>> /\ Head(t) = f /\ DOMAIN t = 1 .. Len(s) + 1
      /\ t[1] = f /\ DOMAIN s = 1 .. Len(s) /\ Len(s) \in Nat
  OBVIOUS
<1>2. \A i \in DOMAIN s : t[i + 1] = s[i]
  OBVIOUS
<1> HIDE DEF t
<1>3. /\ \A i \in DOMAIN s : i + 1 \in DOMAIN t
      /\ \A i \in DOMAIN t : i = 1 \/ (i - 1 \in DOMAIN s /\ t[i] = s[i - 1] /\ (i - 1) + 1 = i)
  BY <1>1, <1>2
<1>4. Ended(t) = Ended(s)
  <2>1. ASSUME NEW c \in Ended(t) PROVE c \in Ended(s)
    BY <1>1, <1>3, Zenon DEF Ended
  <2>2. ASSUME NEW c \in Ended(s) PROVE c \in Ended(t)
    BY <1>2, <1>3, ZenonT(60) DEF Ended
  <2> QED
    BY <2>1, <2>2, Zenon
<1>5. EndedOnce(t)
  <2> SUFFICES ASSUME NEW i \in DOMAIN t, NEW j \in DOMAIN t, t[i].ret = "TERMINATE",
                      t[j].ret = "TERMINATE", t[i].to = t[j].to
               PROVE  i = j
    BY Zenon DEF EndedOnce
  <2>1. i - 1 \in DOMAIN s /\ t[i] = s[i - 1] /\ j - 1 \in DOMAIN s /\ t[j] = s[j - 1]
    BY <1>1, <1>3, Zenon
  <2>2. i - 1 = j - 1
    BY <2>1, Zenon DEF EndedOnce
  <2> QED
    BY <1>3, <1>1, <2>1, <2>2
<1> QED
  BY <1>1, <1>4, <1>5, Zenon DEF t

\* A call ends.
LEMMA FramePopped ==
  ASSUME NEW s \in Seq(Frames), s # <<>>, EndedOnce(s)
  PROVE  LET t == Tail(s)
         IN  /\ t \in Seq(Frames) /\ Ended(t) \subseteq Ended(s) /\ EndedOnce(t)
             /\ \A i \in DOMAIN t : \E j \in DOMAIN s : t[i] = s[j]
             /\ Head(s).ret = "TERMINATE" => Head(s).to \notin Ended(t)
<1> DEFINE t == Tail(s)
<1>1. /\ t \in Seq(Frames) /\ DOMAIN t = 1 .. Len(s) - 1 /\ DOMAIN s = 1 .. Len(s)
      /\ Len(s) \in Nat /\ Len(s) > 0 /\ Head(s) = s[1]
  OBVIOUS
<1>2. \A i \in DOMAIN t : t[i] = s[i + 1]
  OBVIOUS
<1> HIDE DEF t
<1>3. \A i \in DOMAIN t : i + 1 \in DOMAIN s /\ t[i] = s[i + 1] /\ i + 1 # 1 /\ (i + 1) - 1 = i
  BY <1>1, <1>2
<1>4. Ended(t) \subseteq Ended(s)
  BY <1>3 DEF Ended
<1>5. EndedOnce(t)
  <2> SUFFICES ASSUME NEW i \in DOMAIN t, NEW j \in DOMAIN t, t[i].ret = "TERMINATE",
                      t[j].ret = "TERMINATE", t[i].to = t[j].to
               PROVE  i = j
    BY Zenon DEF EndedOnce
  <2>1. i + 1 = j + 1
    BY <1>3 DEF EndedOnce
  <2> QED
    BY <1>3, <2>1, Zenon
<1>6. ASSUME Head(s).ret = "TERMINATE", Head(s).to \in Ended(t) PROVE FALSE
  <2>1. PICK i \in DOMAIN t : t[i].ret = "TERMINATE" /\ t[i].to = Head(s).to
    BY <1>6, Zenon DEF Ended
  <2>2. 1 \in DOMAIN s /\ i + 1 = 1
    BY <1>1, <1>3, <1>6, <2>1 DEF EndedOnce
  <2> QED
    BY <1>3, <2>2, Zenon
<1> QED
  BY <1>1, <1>3, <1>4, <1>5, <1>6, Zenon DEF t

\* A call goes on after the switch.
LEMMA FrameResumed ==
  ASSUME NEW s \in Seq(Frames), EndedOnce(s), NEW a \in {"YIELD", "TERMINATE"},
         a = "TERMINATE" => s # <<>> /\ Head(s).to \in Cos \ Ended(s)
  PROVE  LET t == Resumed(s, a)
         IN  /\ t \in Seq(Frames) /\ EndedOnce(t)
             /\ \A i \in DOMAIN t : (\E j \in DOMAIN s : t[i] = s[j])
                                    \/ (s # <<>> /\ t[i].to = Head(s).to /\ t[i].ret = a)
             /\ Ended(t) \subseteq Ended(s) \cup (IF a = "YIELD" THEN {} ELSE {Head(s).to})
<1>1. CASE s = <<>>
  BY <1>1, Zenon DEF Resumed, Ended, EndedOnce
<1>2. CASE s # <<>>
  <2> DEFINE f == [to |-> Head(s).to, back |-> TRUE, ret |-> a]
             r == Tail(s)
             t == <<f>> \o r
  <2>1. Resumed(s, a) = t
    BY <1>2, Zenon DEF Resumed
  <2>2. /\ r \in Seq(Frames) /\ Ended(r) \subseteq Ended(s) /\ EndedOnce(r)
        /\ \A i \in DOMAIN r : \E j \in DOMAIN s : r[i] = s[j]
    BY <1>2, FramePopped, Zenon
  <2>3. f \in Frames /\ f.to = Head(s).to /\ f.ret = a
    <3>1. Head(s) \in Frames
      BY <1>2
    <3> QED
      BY <3>1, Zenon DEF Frames
  <2> HIDE DEF f, r
  <2>4. /\ t \in Seq(Frames) /\ DOMAIN t = 1 .. Len(r) + 1 /\ t[1] = f
        /\ DOMAIN r = 1 .. Len(r) /\ Len(r) \in Nat
    BY <2>2, <2>3
  <2>5. \A i \in DOMAIN r : t[i + 1] = r[i]
    BY <2>2, <2>3
  <2> HIDE DEF t
  <2>6. \A i \in DOMAIN t : (i = 1 /\ t[i] = f)
                            \/ (i - 1 \in DOMAIN r /\ t[i] = r[i - 1] /\ (i - 1) + 1 = i)
    BY <2>4, <2>5
  <2>7. Ended(t) \subseteq Ended(s) \cup (IF a = "YIELD" THEN {} ELSE {Head(s).to})
    <3> SUFFICES ASSUME NEW c \in Ended(t) PROVE c \in Ended(r) \/ (a # "YIELD" /\ c = Head(s).to)
      BY <2>2, Zenon
    <3> QED
      BY <2>3, <2>6, Zenon DEF Ended
  <2>8. EndedOnce(t)
    <3>1. ASSUME NEW i \in DOMAIN r, r[i].ret = "TERMINATE", r[i].to = f.to, a = "TERMINATE"
          PROVE  FALSE
      <4>1. r[i].to \in Ended(r)
        BY <2>3, <3>1, Zenon DEF Ended
      <4> QED
        BY <2>2, <2>3, <3>1, <4>1, Zenon
    <3> SUFFICES ASSUME NEW i \in DOMAIN t, NEW j \in DOMAIN t, t[i].ret = "TERMINATE",
                        t[j].ret = "TERMINATE", t[i].to = t[j].to
                 PROVE  i = j
      BY Zenon DEF EndedOnce
    <3>2. CASE i - 1 \in DOMAIN r /\ t[i] = r[i - 1] /\ j - 1 \in DOMAIN r /\ t[j] = r[j - 1]
      <4>1. i - 1 = j - 1
        BY <2>2, <3>2, Zenon DEF EndedOnce
      <4> QED
        BY <2>4, <2>6, <4>1
    <3> QED
      BY <2>3, <2>6, <3>1, <3>2
  <2>9. \A i \in DOMAIN t : (\E j \in DOMAIN s : t[i] = s[j])
                            \/ (s # <<>> /\ t[i].to = Head(s).to /\ t[i].ret = a)
    BY <1>2, <2>2, <2>3, <2>6
  <2> QED
    BY <2>1, <2>4, <2>7, <2>8, <2>9, Zenon
<1> QED
  BY <1>1, <1>2, Zenon

-----------------------------------------------------------------------------
(* Who has entered whom.                                                   *)

\* coroutine_swap, seen from every stack.
LEMMA Swaps ==
  ASSUME TypeOK, DeletesOnce, NEW x \in All, NEW y \in All, x # y, Swap(x, y, stack[x])
  PROVE  /\ current' = y /\ stack' \in [All -> Seq(Frames)]
         /\ stack'[x] # <<>> /\ Head(stack'[x]).to = y /\ ~Head(stack'[x]).back
         /\ \A z \in All \ {x, y} : stack'[z] = stack[z]
         /\ \A z \in All : /\ EndedOnce(stack'[z]) /\ Ended(stack'[z]) \subseteq Ended(stack[z])
                           /\ \A i \in DOMAIN stack'[z] : stack'[z][i].ret = "TERMINATE" =>
                                \E j \in DOMAIN stack[z] : stack'[z][i] = stack[z][j]
<1> DEFINE f == [to |-> y, back |-> FALSE, ret |-> "YIELD"]
           s == <<f>> \o stack[x]
           r == Resumed(stack[y], "YIELD")
<1>1. stack \in [All -> Seq(Frames)] /\ \A z \in All : EndedOnce(stack[z])
  BY Zenon DEF TypeOK, DeletesOnce
<1>2. f \in Frames /\ f.ret = "YIELD" /\ f.to = y /\ ~f.back
  BY Zenon DEF Frames
<1>3. /\ s \in Seq(Frames) /\ s # <<>> /\ Head(s) = f /\ Ended(s) = Ended(stack[x]) /\ EndedOnce(s)
      /\ \A i \in DOMAIN s : s[i] = f \/ \E j \in DOMAIN stack[x] : s[i] = stack[x][j]
  <2>1. /\ s \in Seq(Frames) /\ s # <<>> /\ Head(s) = f /\ Ended(s) = Ended(stack[x])
        /\ EndedOnce(s)
    BY <1>1, <1>2, FramePushed, Zenon
  <2>2. \A i \in DOMAIN s : s[i] = f \/ \E j \in DOMAIN stack[x] : s[i] = stack[x][j]
    <3> HIDE DEF f
    <3>1. stack[x] \in Seq(Frames) /\ f \in Frames
      BY <1>1, <1>2, Zenon
    <3>2. DOMAIN s = 1 .. Len(stack[x]) + 1 /\ Len(stack[x]) \in Nat /\ s[1] = f
      BY <3>1
    <3>3. \A i \in DOMAIN s : i = 1 \/ (i - 1 \in DOMAIN stack[x] /\ s[i] = stack[x][i - 1])
      BY <3>1, <3>2
    <3> QED
      BY <3>2, <3>3, Zenon
  <2> QED
    BY <2>1, <2>2, Zenon
<1>4. /\ r \in Seq(Frames) /\ EndedOnce(r) /\ Ended(r) \subseteq Ended(stack[y])
      /\ \A i \in DOMAIN r : (\E j \in DOMAIN stack[y] : r[i] = stack[y][j]) \/ r[i].ret = "YIELD"
  <2>1. stack[y] \in Seq(Frames) /\ EndedOnce(stack[y]) /\ "YIELD" \in {"YIELD", "TERMINATE"}
    BY <1>1, Zenon
  <2> QED
    BY <2>1, FrameResumed, Zenon
<1> HIDE DEF f, s, r
<1>5. stack' = [stack EXCEPT ![x] = s, ![y] = r] /\ current' = y
  <2>1. stack' = [stack EXCEPT ![x] = s, ![y] = Resumed(@, "YIELD")] /\ current' = y
    BY Zenon DEF Swap, s, f
  <2> QED
    BY <1>1, <2>1, Zenon DEF r
<1>6. /\ stack' \in [All -> Seq(Frames)] /\ stack'[x] = s /\ stack'[y] = r
      /\ \A z \in All \ {x, y} : stack'[z] = stack[z]
  BY <1>1, <1>3, <1>4, <1>5, Zenon
<1>7. \A z \in All : EndedOnce(stack'[z]) /\ Ended(stack'[z]) \subseteq Ended(stack[z])
  BY <1>1, <1>3, <1>4, <1>6, Zenon
<1>8. ASSUME NEW z \in All, NEW i \in DOMAIN stack'[z], stack'[z][i].ret = "TERMINATE"
      PROVE  \E j \in DOMAIN stack[z] : stack'[z][i] = stack[z][j]
  <2>1. CASE z = x
    BY <1>2, <1>3, <1>6, <1>8, <2>1, Zenon
  <2>2. CASE z = y
    BY <1>4, <1>6, <1>8, <2>2, Zenon
  <2>3. CASE z \notin {x, y}
    BY <1>6, <2>3, Zenon
  <2> QED
    BY <2>1, <2>2, <2>3, Zenon
<1> QED
  BY <1>2, <1>3, <1>5, <1>6, <1>7, <1>8, Zenon

\* A switch between two that stay what they are deletes nothing.
LEMMA SwapsDelete ==
  ASSUME TypeOK, DeletesOnce, NEW x \in All, NEW y \in All, x # y, Swap(x, y, stack[x]),
         UNCHANGED status
  PROVE  DeletesOnce'
<1>1. \A z \in All : /\ EndedOnce(stack'[z]) /\ Ended(stack'[z]) \subseteq Ended(stack[z])
                     /\ \A i \in DOMAIN stack'[z] : stack'[z][i].ret = "TERMINATE" =>
                          \E j \in DOMAIN stack[z] : stack'[z][i] = stack[z][j]
  BY Swaps, Zenon
<1>2. \A z \in All : \A i \in DOMAIN stack'[z] : stack'[z][i].ret = "TERMINATE" =>
        stack'[z][i].to \in Cos /\ status'[stack'[z][i].to] = "dead"
  BY <1>1 DEF DeletesOnce
<1>3. \A a, b \in All : a # b => Ended(stack'[a]) \cap Ended(stack'[b]) = {}
  BY <1>1 DEF DeletesOnce
<1> QED
  BY <1>1, <1>2, <1>3, Zenon DEF DeletesOnce, Ended, EndedOnce

\* Whoever runs has been entered, and nobody waits for it.
LEMMA Runs ==
  ASSUME TypeOK, CallersWait, CallersLive
  PROVE  /\ current \in All /\ Active(current) /\ (current \in Cos => status[current] = "live")
         /\ current \in Cos => /\ caller[current] \in All /\ caller[current] # current
                               /\ stack[caller[current]] # <<>>
                               /\ Head(stack[caller[current]]).to = current
                               /\ caller[current] \in Cos => status[caller[current]] = "live"
         /\ \A c \in Cos : status[c] = "live" /\ caller[c] # Null => caller[c] # current
<1>1. current \in All /\ (current \in Cos => current # Leader)
  BY LeaderAssumption, Zenon DEF TypeOK, All
<1>2. Active(current) /\ (current \in Cos => status[current] = "live" /\ caller[current] # Null)
  BY <1>1, Zenon DEF CallersWait, Active
<1>3. current \in Cos => caller[current] \in All
  BY <1>1, <1>2, Zenon DEF TypeOK
<1> QED
  BY <1>1, <1>2, <1>3, Zenon DEF CallersWait, CallersLive

\* qemu_coroutine_enter, of one that has not been entered.
LEMMA EntersSwitch ==
  ASSUME TypeOK, CallersWait, CallersLive, DeletesOnce, NEW x \in All, current = x, NEW c \in Cos,
         status[c] = "live", caller[c] = Null, EnterFrom(x, c, stack[x]), UNCHANGED status
  PROVE  /\ current' \in All /\ caller' \in [All -> All \cup {Null}]
         /\ stack' \in [All -> Seq(Frames)]
         /\ CallersWait' /\ CallersLive' /\ DeletesOnce'
<1>1. /\ Leader \notin Cos /\ Null \notin All /\ c \in All /\ Leader \in All
      /\ (\A z \in All : z \in Cos \/ z = Leader) /\ (\A z \in Cos : z \in All)
  BY LeaderAssumption, Zenon DEF All
<1>2. /\ caller \in [All -> All \cup {Null}] /\ caller' = [caller EXCEPT ![c] = x]
      /\ Swap(x, c, stack[x])
  BY Zenon DEF EnterFrom, TypeOK
<1>3. x # c /\ Active(x) /\ (x \in Cos => status[x] = "live")
  BY <1>1, Runs, Zenon DEF Active
<1>4. /\ current' = c /\ stack' \in [All -> Seq(Frames)]
      /\ stack'[x] # <<>> /\ Head(stack'[x]).to = c /\ ~Head(stack'[x]).back
      /\ \A z \in All \ {x, c} : stack'[z] = stack[z]
  BY <1>1, <1>2, <1>3, Swaps, ZenonT(60)
<1>5. /\ caller' \in [All -> All \cup {Null}] /\ caller'[c] = x
      /\ \A z \in All \ {c} : caller'[z] = caller[z]
  BY <1>1, <1>2, Zenon
<1>6. DeletesOnce'
  BY <1>1, <1>2, <1>3, SwapsDelete, Zenon
<1>7. \A d \in Cos \ {c} : status[d] = "live" /\ caller[d] # Null =>
        /\ caller[d] \in All \ {x, c} /\ stack'[caller[d]] = stack[caller[d]]
        /\ caller[d] = Leader \/ (caller[caller[d]] # Null /\ status[caller[d]] = "live")
  <2> SUFFICES ASSUME NEW d \in Cos \ {c}, status[d] = "live", caller[d] # Null
               PROVE  /\ caller[d] \in All \ {x, c} /\ stack'[caller[d]] = stack[caller[d]]
                      /\ caller[d] = Leader \/ (caller[caller[d]] # Null /\ status[caller[d]] = "live")
    BY Zenon
  <2>1. caller[d] \in All /\ caller[d] # current /\ Active(caller[d])
        /\ (caller[d] \in Cos => status[caller[d]] = "live")
    BY <1>1, <1>2, Zenon DEF CallersLive, All
  <2>2. ~Active(c)
    BY <1>1, Zenon DEF Active
  <2>3. caller[d] # c
    BY <2>1, <2>2, Zenon
  <2> QED
    BY <1>1, <1>4, <2>1, <2>3, Zenon DEF Active
<1>8. CallersWait'
  <2>1. ASSUME NEW d \in Cos, status'[d] = "live", caller'[d] # Null
        PROVE  stack'[caller'[d]] # <<>> /\ Head(stack'[caller'[d]]).to = d
               /\ ~Head(stack'[caller'[d]]).back
    BY <1>1, <1>4, <1>5, <1>7, <2>1 DEF CallersWait
  <2>2. current' # Leader => status'[current'] = "live" /\ caller'[current'] # Null
    BY <1>1, <1>4, <1>5, Zenon
  <2>3. ASSUME NEW z \in All, z # current', z = Leader \/ caller'[z] # Null,
               z \in Cos => status'[z] = "live"
        PROVE  \E d \in Cos : status'[d] = "live" /\ caller'[d] = z
    <3>1. CASE z = x
      BY <1>5, <3>1, Zenon
    <3>2. CASE z # x
      <4>1. PICK d \in Cos : status[d] = "live" /\ caller[d] = z
        BY <1>4, <1>5, <2>3, <3>2, Zenon DEF CallersWait, Active
      <4> QED
        BY <1>1, <1>5, <4>1, Zenon
    <3> QED
      BY <3>1, <3>2, Zenon
  <2> QED
    BY <2>1, <2>2, <2>3, Zenon DEF CallersWait, Active
<1>9. CallersLive'
  <2>1. caller'[Leader] = Null
    BY <1>1, <1>5, Zenon DEF CallersLive
  <2>2. ASSUME NEW d \in Cos, status'[d] = "live", caller'[d] # Null
        PROVE  /\ caller'[d] # current' /\ (caller'[d] = Leader \/ caller'[caller'[d]] # Null)
               /\ caller'[d] \in Cos => status'[caller'[d]] = "live"
    <3>1. CASE d = c
      BY <1>1, <1>3, <1>4, <1>5, <3>1, Zenon DEF Active
    <3>2. CASE d # c
      <4>1. caller'[d] = caller[d] /\ status[d] = "live" /\ caller[d] # Null
        BY <1>1, <1>5, <2>2, <3>2, Zenon
      <4>2. /\ caller[d] \in All \ {x, c}
            /\ caller[d] = Leader \/ (caller[caller[d]] # Null /\ status[caller[d]] = "live")
        BY <1>7, <3>2, <4>1, Zenon
      <4> QED
        BY <1>1, <1>4, <1>5, <4>1, <4>2
    <3> QED
      BY <3>1, <3>2, Zenon
  <2>3. \A d \in Cos : status'[d] # "live" => stack'[d] = <<>>
    BY <1>1, <1>3, <1>4, Zenon DEF CallersLive
  <2>4. \A d \in Cos : status'[d] \in {"free", "pooled"} => caller'[d] = Null
    BY <1>1, <1>5, Zenon DEF CallersLive
  <2> QED
    BY <2>1, <2>2, <2>3, <2>4, Zenon DEF CallersLive, Active
<1> QED
  BY <1>1, <1>4, <1>5, <1>6, <1>8, <1>9, Zenon

\* Control returns to the caller, because of a yield or at the end.
LEMMA Returns ==
  ASSUME TypeOK, CallersWait, CallersLive, NEW c \in Cos, current = c, current' = caller[c],
         \A z \in All \ {c, caller[c]} : stack'[z] = stack[z],
         \A z \in All \ {c} : caller'[z] = caller[z],
         \A z \in Cos \ {c} : status'[z] = status[z],
         \/ status'[c] = "live" /\ caller'[c] = Null
         \/ status'[c] = "dead" /\ stack'[c] = <<>>
  PROVE  CallersWait' /\ CallersLive'
<1>1. /\ Leader \notin Cos /\ Null \notin All /\ Leader \in All
      /\ (\A z \in All : z \in Cos \/ z = Leader) /\ (\A z \in Cos : z \in All)
  BY LeaderAssumption, Zenon DEF All
<1>2. PICK y \in All : /\ y = caller[c] /\ y # c /\ stack[y] # <<>> /\ Head(stack[y]).to = c
                       /\ y \in Cos => status[y] = "live"
  BY <1>1, Runs, Zenon
<1>3. caller \in [All -> All \cup {Null}]
  BY Zenon DEF TypeOK
<1>4. \A d \in Cos \ {c} : status[d] = "live" /\ caller[d] # Null =>
        /\ caller[d] \in All \ {c, y} /\ stack'[caller[d]] = stack[caller[d]]
        /\ caller[d] = Leader \/ (caller[caller[d]] # Null /\ status[caller[d]] = "live")
  <2> SUFFICES ASSUME NEW d \in Cos \ {c}, status[d] = "live", caller[d] # Null
               PROVE  /\ caller[d] \in All \ {c, y} /\ stack'[caller[d]] = stack[caller[d]]
                      /\ caller[d] = Leader \/ (caller[caller[d]] # Null /\ status[caller[d]] = "live")
    BY Zenon
  <2>1. caller[d] \in All /\ caller[d] # c /\ Active(caller[d])
        /\ (caller[d] \in Cos => status[caller[d]] = "live")
    BY <1>1, <1>3, Zenon DEF CallersLive, All
  <2>2. Head(stack[caller[d]]).to = d
    BY Zenon DEF CallersWait
  <2>3. caller[d] # y
    BY <1>2, <2>2, Zenon
  <2> QED
    BY <1>1, <1>2, <2>1, <2>3, Zenon DEF Active
<1>5. y = Leader \/ caller[y] # Null
  BY <1>2, <1>1, Runs, Zenon DEF CallersLive, CallersWait, Active
<1>6. CallersWait'
  <2>1. ASSUME NEW d \in Cos, status'[d] = "live", caller'[d] # Null
        PROVE  stack'[caller'[d]] # <<>> /\ Head(stack'[caller'[d]]).to = d
               /\ ~Head(stack'[caller'[d]]).back
    BY <1>1, <1>4, <2>1 DEF CallersWait
  <2>2. current' # Leader => status'[current'] = "live" /\ caller'[current'] # Null
    BY <1>1, <1>2, <1>5, Zenon
  <2>3. ASSUME NEW z \in All, z # current', z = Leader \/ caller'[z] # Null,
               z \in Cos => status'[z] = "live"
        PROVE  \E d \in Cos : status'[d] = "live" /\ caller'[d] = z
    <3>1. z # c
      BY <1>1, <2>3, Zenon
    <3>2. PICK d \in Cos : status[d] = "live" /\ caller[d] = z
      BY <1>1, <2>3, <3>1, ZenonT(60) DEF CallersWait, Active
    <3> QED
      BY <1>1, <1>2, <2>3, <3>2, Zenon
  <2> QED
    BY <2>1, <2>2, <2>3, Zenon DEF CallersWait, Active
<1>7. CallersLive'
  <2>1. caller'[Leader] = Null
    BY <1>1, Zenon DEF CallersLive
  <2>2. ASSUME NEW d \in Cos, status'[d] = "live", caller'[d] # Null
        PROVE  /\ caller'[d] # current' /\ (caller'[d] = Leader \/ caller'[caller'[d]] # Null)
               /\ caller'[d] \in Cos => status'[caller'[d]] = "live"
    BY <1>1, <1>2, <1>4, <2>2
  <2>3. \A d \in Cos : status'[d] # "live" => stack'[d] = <<>>
    BY <1>1, <1>2, ZenonT(60) DEF CallersLive
  <2>4. \A d \in Cos : status'[d] \in {"free", "pooled"} => caller'[d] = Null
    BY <1>1, Zenon DEF CallersLive
  <2> QED
    BY <2>1, <2>2, <2>3, <2>4, Zenon DEF CallersLive, Active
<1> QED
  BY <1>6, <1>7, Zenon

\* qemu_coroutine_yield.
LEMMA YieldsSwitch ==
  ASSUME TypeOK, CallersWait, CallersLive, DeletesOnce, NEW c \in Cos, current = c, YieldFrom(c),
         UNCHANGED status
  PROVE  /\ current' \in All /\ caller' \in [All -> All \cup {Null}]
         /\ stack' \in [All -> Seq(Frames)]
         /\ CallersWait' /\ CallersLive' /\ DeletesOnce'
<1>1. c \in All /\ Null \notin All /\ caller[c] \in All /\ caller[c] # c /\ status[c] = "live"
  BY LeaderAssumption, Runs, Zenon DEF All
<1>2. caller' = [caller EXCEPT ![c] = Null] /\ Swap(c, caller[c], stack[c])
  BY Zenon DEF YieldFrom
<1>3. /\ caller' \in [All -> All \cup {Null}] /\ caller'[c] = Null
      /\ \A z \in All \ {c} : caller'[z] = caller[z]
  BY <1>1, <1>2, Zenon DEF TypeOK
<1>4. /\ current' = caller[c] /\ stack' \in [All -> Seq(Frames)]
      /\ \A z \in All \ {c, caller[c]} : stack'[z] = stack[z]
  BY <1>1, <1>2, Swaps, Zenon
<1>5. DeletesOnce'
  BY <1>1, <1>2, SwapsDelete, Zenon
<1>6. CallersWait' /\ CallersLive'
  BY <1>1, <1>3, <1>4, Returns, Zenon
<1> QED
  BY <1>1, <1>3, <1>4, <1>5, <1>6, Zenon

\* The end of coroutine_trampoline.
LEMMA TerminatesSwitch ==
  ASSUME TypeOK, CallersWait, CallersLive, DeletesOnce, NEW c \in Cos, Terminate(c)
  PROVE  /\ current' \in All /\ stack' \in [All -> Seq(Frames)]
         /\ CallersWait' /\ CallersLive' /\ DeletesOnce'
<1>1. /\ status' = [status EXCEPT ![c] = "dead"] /\ caller' = caller
      /\ current' = caller[c] /\ current = c /\ stack[c] = <<>>
      /\ stack' = [stack EXCEPT ![caller[c]] = Resumed(@, "TERMINATE")]
  BY Zenon DEF Terminate, Running
<1>2. PICK y \in All : y = caller[c] /\ y # c /\ stack[y] # <<>> /\ Head(stack[y]).to = c
  BY <1>1, Runs, Zenon
<1>3. status[c] = "live" /\ c \in All
  BY <1>1, Runs, Zenon DEF All
<1>4. stack \in [All -> Seq(Frames)] /\ status \in [Cos -> {"free", "pooled", "live", "dead"}]
      /\ \A z \in All : EndedOnce(stack[z])
  BY Zenon DEF TypeOK, DeletesOnce
<1>5. \A z \in All : c \notin Ended(stack[z])
  BY <1>3, Zenon DEF DeletesOnce, Ended
<1>6. PICK r : r = Resumed(stack[y], "TERMINATE")
  BY Zenon
<1>7. /\ r \in Seq(Frames) /\ EndedOnce(r) /\ Ended(r) \subseteq Ended(stack[y]) \cup {c}
      /\ \A i \in DOMAIN r : (\E j \in DOMAIN stack[y] : r[i] = stack[y][j]) \/ r[i].to = c
  <2>1. stack[y] \in Seq(Frames) /\ EndedOnce(stack[y]) /\ Head(stack[y]).to \in Cos \ Ended(stack[y])
    BY <1>2, <1>4, <1>5, Zenon
  <2>2. "TERMINATE" \in {"YIELD", "TERMINATE"}
    BY Zenon
  <2> QED
    <3>1. LET t == Resumed(stack[y], "TERMINATE")
          IN  /\ t \in Seq(Frames) /\ EndedOnce(t)
              /\ \A i \in DOMAIN t : (\E j \in DOMAIN stack[y] : t[i] = stack[y][j])
                   \/ (stack[y] # <<>> /\ t[i].to = Head(stack[y]).to /\ t[i].ret = "TERMINATE")
              /\ Ended(t) \subseteq Ended(stack[y])
                   \cup (IF "TERMINATE" = "YIELD" THEN {} ELSE {Head(stack[y]).to})
      BY <1>2, <2>1, <2>2, FrameResumed, Zenon
    <3> QED
      BY <1>2, <1>6, <3>1, Zenon
<1>8. /\ stack' \in [All -> Seq(Frames)] /\ stack'[y] = r
      /\ \A z \in All \ {y} : stack'[z] = stack[z]
  BY <1>1, <1>2, <1>4, <1>6, <1>7, Zenon
<1>9. status'[c] = "dead" /\ \A z \in Cos \ {c} : status'[z] = status[z]
  BY <1>1, <1>4, Zenon
<1>10. CallersWait' /\ CallersLive'
  BY <1>1, <1>2, <1>3, <1>8, <1>9, Returns, Zenon
<1>11. DeletesOnce'
  <2>1. ASSUME NEW z \in All, NEW i \in DOMAIN stack'[z], stack'[z][i].ret = "TERMINATE"
        PROVE  stack'[z][i].to \in Cos /\ status'[stack'[z][i].to] = "dead"
    <3>1. CASE stack'[z][i].to = c
      BY <1>9, <3>1, Zenon
    <3>2. CASE stack'[z][i].to # c
      <4>1. PICK j \in DOMAIN stack[z] : stack'[z][i] = stack[z][j]
        BY <1>7, <1>8, <3>2, Zenon
      <4>2. stack'[z][i].to \in Cos /\ status[stack'[z][i].to] = "dead"
        BY <2>1, <4>1, Zenon DEF DeletesOnce
      <4> QED
        BY <1>9, <3>2, <4>2, Zenon
    <3> QED
      BY <3>1, <3>2, Zenon
  <2>2. \A z \in All : EndedOnce(stack'[z])
    BY <1>4, <1>7, <1>8, Zenon
  <2>3. ASSUME NEW a \in All, NEW b \in All, a # b
        PROVE  Ended(stack'[a]) \cap Ended(stack'[b]) = {}
    <3>1. Ended(stack[a]) \cap Ended(stack[b]) = {} /\ c \notin Ended(stack[a])
          /\ c \notin Ended(stack[b])
      BY <1>5, <2>3, Zenon DEF DeletesOnce
    <3>2. CASE a = y
      BY <1>7, <1>8, <2>3, <3>1, <3>2, Zenon
    <3>3. CASE b = y
      BY <1>7, <1>8, <2>3, <3>1, <3>3, Zenon
    <3>4. CASE a # y /\ b # y
      BY <1>8, <3>1, <3>4
    <3> QED
      BY <3>2, <3>3, <3>4, Zenon
  <2> QED
    BY <2>1, <2>2, <2>3, Zenon DEF DeletesOnce, Ended, EndedOnce
<1> QED
  BY <1>1, <1>2, <1>8, <1>10, <1>11, Zenon

-----------------------------------------------------------------------------
(* The queues and the wake-up lists.                                       *)

\* Nobody is added to a list.
LEMMA ListsShrink ==
  ASSUME QueuedOnce,
         \A x \in All : IsInjective(wakeup'[x]) /\ Range(wakeup'[x]) \subseteq Range(wakeup[x]),
         \A q \in Queues : IsInjective(entries'[q]) /\ Range(entries'[q]) \subseteq Range(entries[q]),
         \A c \in Cos : Queued(c)' /\ Queued(c) => status'[c] = "live" /\ caller'[c] = Null
  PROVE  QueuedOnce'
<1>1. \A x, y \in All : x # y => Range(wakeup'[x]) \cap Range(wakeup'[y]) = {}
  BY Zenon DEF QueuedOnce
<1>2. \A p, q \in Queues : p # q => Range(entries'[p]) \cap Range(entries'[q]) = {}
  BY Zenon DEF QueuedOnce
<1>3. \A x \in All, q \in Queues : Range(wakeup'[x]) \cap Range(entries'[q]) = {}
  BY Zenon DEF QueuedOnce
<1>4. \A c \in Cos : Queued(c)' => Queued(c)
  <2> SUFFICES ASSUME NEW c \in Cos, Queued(c)' PROVE Queued(c)
    BY Zenon
  <2>1. \/ \E q \in Queues : c \in Range(entries'[q])
        \/ \E x \in All : c \in Range(wakeup'[x])
    BY Zenon DEF Queued, Range
  <2> QED
    BY <2>1, Zenon DEF Queued
<1>5. \A c \in Cos : Queued(c)' => status'[c] = "live" /\ caller'[c] = Null
  BY <1>4, Zenon
<1>6. /\ \A x \in All : IsInjective(wakeup[x])'
      /\ \A q \in Queues : IsInjective(entries[q])'
  BY Zenon DEF IsInjective
<1> QED
  BY <1>1, <1>2, <1>3, <1>5, <1>6, Zenon DEF QueuedOnce, Range

\* The lists stay, and what is in them.
LEMMA ListsKept ==
  ASSUME QueuedOnce, UNCHANGED <<wakeup, entries>>,
         \A c \in Cos : Queued(c) => status'[c] = status[c] /\ caller'[c] = caller[c]
  PROVE  QueuedOnce'
<1>1. /\ \A x \in All : IsInjective(wakeup'[x]) /\ Range(wakeup'[x]) \subseteq Range(wakeup[x])
      /\ \A q \in Queues : IsInjective(entries'[q]) /\ Range(entries'[q]) \subseteq Range(entries[q])
  BY Zenon DEF QueuedOnce
<1>2. \A c \in Cos : Queued(c)' /\ Queued(c) => status'[c] = "live" /\ caller'[c] = Null
  BY Zenon DEF QueuedOnce
<1> QED
  BY <1>1, <1>2, ListsShrink, Zenon

\* The first of a wake-up list is taken and entered.
LEMMA WakeupTaken ==
  ASSUME TypeOK, QueuedOnce, NEW to \in All, wakeup[to] # <<>>,
         wakeup' = [wakeup EXCEPT ![to] = Tail(@)], UNCHANGED <<entries, status>>,
         \A d \in Cos \ {Head(wakeup[to])} : caller'[d] = caller[d]
  PROVE  /\ QueuedOnce' /\ wakeup' \in [All -> Seq(Cos)]
         /\ Head(wakeup[to]) \in Cos /\ Queued(Head(wakeup[to]))
         /\ \A d \in Cos \ {Head(wakeup[to])} : Queued(d) => Queued(d)'
<1>1. wakeup \in [All -> Seq(Cos)] /\ IsInjective(wakeup[to])
  BY Zenon DEF TypeOK, QueuedOnce
<1>3. PICK h \in Cos : h = Head(wakeup[to])
  BY <1>1
<1>2. /\ h \in Range(wakeup[to]) /\ Tail(wakeup[to]) \in Seq(Cos) /\ IsInjective(Tail(wakeup[to]))
      /\ Range(Tail(wakeup[to])) = Range(wakeup[to]) \ {h}
  BY <1>1, <1>3, Popped, Zenon
<1>4. /\ wakeup' \in [All -> Seq(Cos)] /\ wakeup'[to] = Tail(wakeup[to])
      /\ \A z \in All \ {to} : wakeup'[z] = wakeup[z]
  BY <1>1, <1>2, Zenon
<1>5. \A x \in All : IsInjective(wakeup'[x]) /\ Range(wakeup'[x]) \subseteq Range(wakeup[x])
  BY <1>2, <1>4, Zenon DEF QueuedOnce
<1>6. \A q \in Queues : IsInjective(entries'[q]) /\ Range(entries'[q]) \subseteq Range(entries[q])
  BY Zenon DEF QueuedOnce
<1>7. ~Queued(h)'
  <2>1. \A x \in All : h \notin Range(wakeup'[x])
    BY <1>2, <1>4, Zenon DEF QueuedOnce
  <2>2. \A q \in Queues : h \notin Range(entries'[q])
    BY <1>2, Zenon DEF QueuedOnce
  <2> QED
    BY <2>1, <2>2, Zenon DEF Queued, Range
<1>8. \A c \in Cos : Queued(c)' /\ Queued(c) => status'[c] = "live" /\ caller'[c] = Null
  BY <1>3, <1>7, Zenon DEF QueuedOnce
<1>9. Queued(h)
  BY <1>2, Zenon DEF Queued
<1>10. \A d \in Cos \ {h} : Queued(d) => Queued(d)'
  <2> SUFFICES ASSUME NEW d \in Cos \ {h}, Queued(d) PROVE Queued(d)'
    BY Zenon
  <2>1. \/ \E q \in Queues : d \in Range(entries'[q])
        \/ \E x \in All : d \in Range(wakeup'[x])
    BY <1>2, <1>4, Zenon DEF Queued
  <2> QED
    BY <2>1, Zenon DEF Queued, Range
<1>11. QueuedOnce'
  BY <1>5, <1>6, <1>8, ListsShrink, Zenon
<1> QED
  BY <1>3, <1>4, <1>9, <1>10, <1>11, Zenon

\* The first of a queue is taken and entered.
LEMMA EntryTaken ==
  ASSUME TypeOK, QueuedOnce, NEW q \in Queues, entries[q] # <<>>,
         entries' = [entries EXCEPT ![q] = Tail(@)], UNCHANGED <<wakeup, status>>,
         \A d \in Cos \ {Head(entries[q])} : caller'[d] = caller[d]
  PROVE  /\ QueuedOnce' /\ entries' \in [Queues -> Seq(Cos)]
         /\ Head(entries[q]) \in Cos /\ Queued(Head(entries[q]))
<1>1. entries \in [Queues -> Seq(Cos)] /\ IsInjective(entries[q])
  BY Zenon DEF TypeOK, QueuedOnce
<1>3. PICK h \in Cos : h = Head(entries[q])
  BY <1>1
<1>2. /\ h \in Range(entries[q]) /\ Tail(entries[q]) \in Seq(Cos) /\ IsInjective(Tail(entries[q]))
      /\ Range(Tail(entries[q])) = Range(entries[q]) \ {h}
  BY <1>1, <1>3, Popped, Zenon
<1>4. /\ entries' \in [Queues -> Seq(Cos)] /\ entries'[q] = Tail(entries[q])
      /\ \A p \in Queues \ {q} : entries'[p] = entries[p]
  BY <1>1, <1>2, Zenon
<1>5. \A p \in Queues : IsInjective(entries'[p]) /\ Range(entries'[p]) \subseteq Range(entries[p])
  BY <1>2, <1>4, Zenon DEF QueuedOnce
<1>6. \A x \in All : IsInjective(wakeup'[x]) /\ Range(wakeup'[x]) \subseteq Range(wakeup[x])
  BY Zenon DEF QueuedOnce
<1>7. ~Queued(h)'
  <2>1. \A p \in Queues : h \notin Range(entries'[p])
    BY <1>2, <1>4, Zenon DEF QueuedOnce
  <2>2. \A x \in All : h \notin Range(wakeup'[x])
    BY <1>2, Zenon DEF QueuedOnce
  <2> QED
    BY <2>1, <2>2, Zenon DEF Queued, Range
<1>8. \A c \in Cos : Queued(c)' /\ Queued(c) => status'[c] = "live" /\ caller'[c] = Null
  BY <1>3, <1>7, Zenon DEF QueuedOnce
<1>9. Queued(h)
  BY <1>2, Zenon DEF Queued
<1> QED
  BY <1>3, <1>4, <1>5, <1>6, <1>8, <1>9, ListsShrink, Zenon

\* A coroutine that is in no list queues itself.
LEMMA EntryAdded ==
  ASSUME TypeOK, QueuedOnce, NEW q \in Queues, NEW c \in Cos, ~Queued(c), status[c] = "live",
         entries' = [entries EXCEPT ![q] = Append(@, c)], UNCHANGED <<wakeup, status>>,
         caller'[c] = Null, \A d \in Cos \ {c} : caller'[d] = caller[d]
  PROVE  /\ QueuedOnce' /\ entries' \in [Queues -> Seq(Cos)] /\ Queued(c)'
         /\ Range(entries'[q]) = Range(entries[q]) \cup {c}
         /\ \A p \in Queues \ {q} : entries'[p] = entries[p]
         /\ \A d \in Cos : Queued(d)' <=> Queued(d) \/ d = c
<1>1. entries \in [Queues -> Seq(Cos)] /\ IsInjective(entries[q]) /\ c \notin Range(entries[q])
  BY Zenon DEF TypeOK, QueuedOnce, Queued
<1>2. /\ Append(entries[q], c) \in Seq(Cos) /\ IsInjective(Append(entries[q], c))
      /\ Range(Append(entries[q], c)) = Range(entries[q]) \cup {c}
  BY <1>1, Appended, Zenon
<1>3. /\ entries' \in [Queues -> Seq(Cos)] /\ IsInjective(entries'[q])
      /\ Range(entries'[q]) = Range(entries[q]) \cup {c}
      /\ \A p \in Queues \ {q} : entries'[p] = entries[p]
  BY <1>1, <1>2, Zenon
<1>4. /\ \A p \in Queues : c \notin Range(entries[p])
      /\ \A x \in All : c \notin Range(wakeup[x])
  BY Zenon DEF Queued
<1>5. \A p \in Queues : IsInjective(entries'[p])
  BY <1>3, Zenon DEF QueuedOnce
<1>6. \A a, b \in Queues : a # b => Range(entries'[a]) \cap Range(entries'[b]) = {}
  <2> SUFFICES ASSUME NEW a \in Queues, NEW b \in Queues, a # b
               PROVE  Range(entries'[a]) \cap Range(entries'[b]) = {}
    BY Zenon
  <2>1. Range(entries[a]) \cap Range(entries[b]) = {}
    BY Zenon DEF QueuedOnce
  <2> QED
    BY <1>3, <1>4, <2>1, ZenonT(60)
<1>7. \A x \in All, p \in Queues : Range(wakeup'[x]) \cap Range(entries'[p]) = {}
  <2> SUFFICES ASSUME NEW x \in All, NEW p \in Queues
               PROVE  Range(wakeup'[x]) \cap Range(entries'[p]) = {}
    BY Zenon
  <2>1. Range(wakeup[x]) \cap Range(entries[p]) = {}
    BY Zenon DEF QueuedOnce
  <2> QED
    BY <1>3, <1>4, <2>1, Zenon
<1>8. \A d \in Cos : Queued(d)' <=> Queued(d) \/ d = c
  <2> SUFFICES ASSUME NEW d \in Cos PROVE Queued(d)' <=> Queued(d) \/ d = c
    BY Zenon
  <2>1. Queued(d)' <=> \/ \E p \in Queues : d \in Range(entries'[p])
                       \/ \E x \in All : d \in Range(wakeup[x])
    BY ZenonT(60) DEF Queued, Range
  <2> QED
    BY <1>3, <2>1, Zenon DEF Queued
<1>9. \A d \in Cos : Queued(d)' => status'[d] = "live" /\ caller'[d] = Null
  BY <1>8, Zenon DEF QueuedOnce
<1>10. \A x \in All : IsInjective(wakeup'[x])
  BY Zenon DEF QueuedOnce
<1>11. \A x, y \in All : x # y => Range(wakeup'[x]) \cap Range(wakeup'[y]) = {}
  BY Zenon DEF QueuedOnce
<1>12. QueuedOnce'
  BY <1>5, <1>6, <1>7, <1>9, <1>10, <1>11, Zenon DEF QueuedOnce, Range, IsInjective
<1> QED
  BY <1>3, <1>8, <1>12, Zenon

\* The first n of a queue are marked for restart.
LEMMA EntriesMarked ==
  ASSUME TypeOK, QueuedOnce, NEW q \in Queues, NEW c \in Cos, NEW n \in 0 .. Len(entries[q]),
         wakeup' = [wakeup EXCEPT ![c] = @ \o SubSeq(entries[q], 1, n)],
         entries' = [entries EXCEPT ![q] = SubSeq(@, n + 1, Len(@))],
         UNCHANGED <<status, caller>>
  PROVE  /\ QueuedOnce' /\ entries' \in [Queues -> Seq(Cos)] /\ wakeup' \in [All -> Seq(Cos)]
         /\ \A d \in Cos : Queued(d)' <=> Queued(d)
         /\ \A x \in All \ {c} : wakeup'[x] = wakeup[x]
         /\ \A p \in Queues \ {q} : entries'[p] = entries[p]
         /\ Range(entries'[q]) \subseteq Range(entries[q])
         /\ n = Len(entries[q]) => entries'[q] = <<>>
         /\ n > 0 => Head(entries[q]) \in Range(entries[q]) \ Range(entries'[q])
<1> DEFINE s == entries[q]
           u == SubSeq(s, 1, n)
           v == SubSeq(s, n + 1, Len(s))
           w == wakeup[c] \o u
<1>1. /\ entries \in [Queues -> Seq(Cos)] /\ wakeup \in [All -> Seq(Cos)] /\ c \in All
      /\ IsInjective(s) /\ IsInjective(wakeup[c]) /\ Range(wakeup[c]) \cap Range(s) = {}
  BY Zenon DEF TypeOK, QueuedOnce, All
<1>2. /\ u \in Seq(Cos) /\ v \in Seq(Cos) /\ IsInjective(u) /\ IsInjective(v)
      /\ Range(u) \cup Range(v) = Range(s) /\ Range(u) \cap Range(v) = {}
      /\ n = Len(s) => v = <<>>
      /\ n > 0 => Head(s) \in Range(u)
  <2>1. s \in Seq(Cos) /\ n \in 0 .. Len(s)
    BY <1>1, Zenon
  <2> QED
    BY <1>1, <2>1, Divided, Zenon
<1>3. w \in Seq(Cos) /\ IsInjective(w) /\ Range(w) = Range(wakeup[c]) \cup Range(u)
  <2>1. wakeup[c] \in Seq(Cos) /\ Range(wakeup[c]) \cap Range(u) = {}
    BY <1>1, <1>2, Zenon
  <2> HIDE DEF u
  <2> QED
    BY <1>1, <1>2, <2>1, Linked, Zenon
<1>4. wakeup' = [wakeup EXCEPT ![c] = w] /\ entries' = [entries EXCEPT ![q] = v]
  BY <1>1, Zenon
<1> HIDE DEF u, v, w
<1>5. /\ wakeup' \in [All -> Seq(Cos)] /\ wakeup'[c] = w
      /\ \A x \in All \ {c} : wakeup'[x] = wakeup[x]
  BY <1>1, <1>3, <1>4
<1>6. /\ entries' \in [Queues -> Seq(Cos)] /\ entries'[q] = v
      /\ \A p \in Queues \ {q} : entries'[p] = entries[p]
  BY <1>1, <1>2, <1>4
<1>7. (\A x \in All : IsInjective(wakeup'[x])) /\ (\A p \in Queues : IsInjective(entries'[p]))
  BY <1>2, <1>3, <1>5, <1>6, Zenon DEF QueuedOnce
<1>8. \A x, y \in All : x # y => Range(wakeup'[x]) \cap Range(wakeup'[y]) = {}
  <2> SUFFICES ASSUME NEW x \in All, NEW y \in All, x # y
               PROVE  Range(wakeup'[x]) \cap Range(wakeup'[y]) = {}
    BY Zenon
  <2>1. /\ Range(wakeup[x]) \cap Range(wakeup[y]) = {} /\ Range(wakeup[x]) \cap Range(s) = {}
        /\ Range(wakeup[y]) \cap Range(s) = {}
    BY Zenon DEF QueuedOnce
  <2> QED
    BY <1>2, <1>3, <1>5, <2>1, Zenon
<1>9. \A a, b \in Queues : a # b => Range(entries'[a]) \cap Range(entries'[b]) = {}
  <2> SUFFICES ASSUME NEW a \in Queues, NEW b \in Queues, a # b
               PROVE  Range(entries'[a]) \cap Range(entries'[b]) = {}
    BY Zenon
  <2>1. Range(entries[a]) \cap Range(entries[b]) = {}
    BY Zenon DEF QueuedOnce
  <2> QED
    BY <1>2, <1>6, <2>1, Zenon
<1>10. \A x \in All, p \in Queues : Range(wakeup'[x]) \cap Range(entries'[p]) = {}
  <2> SUFFICES ASSUME NEW x \in All, NEW p \in Queues
               PROVE  Range(wakeup'[x]) \cap Range(entries'[p]) = {}
    BY Zenon
  <2>1. /\ Range(wakeup[x]) \cap Range(entries[p]) = {}
        /\ p # q => Range(entries[p]) \cap Range(s) = {}
    BY Zenon DEF QueuedOnce
  <2> QED
    BY <1>2, <1>3, <1>5, <1>6, <2>1, Zenon
<1>11. \A d \in Cos : Queued(d)' <=> Queued(d)
  <2> SUFFICES ASSUME NEW d \in Cos PROVE Queued(d)' <=> Queued(d)
    BY Zenon
  <2>1. Queued(d)' <=> \/ \E p \in Queues : d \in Range(entries'[p])
                       \/ \E x \in All : d \in Range(wakeup'[x])
    BY Zenon DEF Queued, Range
  <2>2. ASSUME NEW p \in Queues, d \in Range(entries'[p]) PROVE Queued(d)
    BY <1>2, <1>6, <2>2, Zenon DEF Queued
  <2>3. ASSUME NEW x \in All, d \in Range(wakeup'[x]) PROVE Queued(d)
    BY <1>2, <1>3, <1>5, <2>3, Zenon DEF Queued
  <2>4. ASSUME NEW p \in Queues, d \in Range(entries[p]) PROVE Queued(d)'
    BY <1>1, <1>2, <1>3, <1>5, <1>6, <2>1, <2>4, Zenon
  <2>5. ASSUME NEW x \in All, d \in Range(wakeup[x]) PROVE Queued(d)'
    BY <1>1, <1>3, <1>5, <2>1, <2>5, Zenon
  <2> QED
    BY <2>1, <2>2, <2>3, <2>4, <2>5, Zenon DEF Queued
<1>12. \A d \in Cos : Queued(d)' => status'[d] = "live" /\ caller'[d] = Null
  BY <1>11, Zenon DEF QueuedOnce
<1>13. QueuedOnce'
  BY <1>7, <1>8, <1>9, <1>10, <1>12, Zenon DEF QueuedOnce, Range, IsInjective
<1> QED
  BY <1>2, <1>5, <1>6, <1>11, <1>13, Zenon

-----------------------------------------------------------------------------
(* The steps.                                                              *)

\* Nothing is taken from the pool or given back.
LEMMA PoolKept ==
  ASSUME GivenBackClean, TypeOK', CallersLive', UNCHANGED pool,
         \A c \in Cos : /\ status'[c] = "pooled" <=> status[c] = "pooled"
                        /\ status'[c] = "free" <=> status[c] = "free"
                        /\ status[c] \in {"pooled", "free"} => wakeup'[c] = wakeup[c]
  PROVE  GivenBackClean'
<1>1. \A c \in Cos : status'[c] \in {"pooled", "free"} => wakeup'[c] = <<>> /\ stack'[c] = <<>>
  BY Zenon DEF GivenBackClean, CallersLive
<1>2. Range(pool') = {c \in Cos : status'[c] = "pooled"} /\ IsInjective(pool')
  BY Zenon DEF GivenBackClean
<1> QED
  BY <1>1, <1>2, Zenon DEF GivenBackClean, Range, IsInjective

\* qemu_coroutine_enter, whoever is entered and for whatever reason.
LEMMA EnterKeeps ==
  ASSUME CoInv, NEW x \in All, current = x, NEW c \in Cos, status[c] = "live", caller[c] = Null,
         EnterFrom(x, c, stack[x]), UNCHANGED <<status, pool>>, QueuedOnce',
         wakeup' \in [All -> Seq(Cos)], entries' \in [Queues -> Seq(Cos)],
         \A d \in Cos : status[d] \in {"pooled", "free"} => wakeup'[d] = wakeup[d]
  PROVE  CoInv'
<1>1. /\ current' \in All /\ caller' \in [All -> All \cup {Null}]
      /\ stack' \in [All -> Seq(Frames)]
      /\ CallersWait' /\ CallersLive' /\ DeletesOnce'
  BY EntersSwitch, Zenon DEF CoInv
<1>2. TypeOK'
  BY <1>1, Zenon DEF CoInv, TypeOK
<1>3. GivenBackClean'
  BY <1>1, <1>2, PoolKept, Zenon DEF CoInv
<1> QED
  BY <1>1, <1>2, <1>3, Zenon DEF CoInv

\* Only the one that is entered gets a caller.
LEMMA OnlyEntered ==
  ASSUME TypeOK, NEW x \in All, NEW c \in Cos, EnterFrom(x, c, stack[x])
  PROVE  /\ \A d \in Cos \ {c} : caller'[d] = caller[d]
         /\ caller'[c] = x
  BY Zenon DEF EnterFrom, TypeOK, All

LEMMA EnterStep ==
  ASSUME CoInv, NEW x \in All, NEW c \in Cos, Enter(x, c) PROVE CoInv'
<1>1. /\ current = x /\ status[c] = "live" /\ caller[c] = Null /\ ~Queued(c)
      /\ EnterFrom(x, c, stack[x]) /\ UNCHANGED <<status, wakeup, entries, pool>>
  BY Zenon DEF Enter, Running, Active
<1>2. \A d \in Cos : Queued(d) => status'[d] = status[d] /\ caller'[d] = caller[d]
  BY <1>1, OnlyEntered, Zenon DEF CoInv
<1>3. QueuedOnce'
  BY <1>1, <1>2, ListsKept, Zenon DEF CoInv
<1>4. wakeup' \in [All -> Seq(Cos)] /\ entries' \in [Queues -> Seq(Cos)]
  BY <1>1, Zenon DEF CoInv, TypeOK
<1> QED
  BY <1>1, <1>3, <1>4, EnterKeeps, Zenon

LEMMA RunRestartStep ==
  ASSUME CoInv, NEW x \in All, RunRestart(x)
  PROVE  /\ CoInv' /\ UNCHANGED <<status, entries>>
         /\ \A d \in Cos : Queued(d) => Queued(d)' \/ caller'[d] # Null
         /\ \A d \in Cos : caller[d] # Null => caller'[d] # Null
<1>1. PICK to \in All : to = Head(stack[x]).to
  <2>1. stack[x] \in Seq(Frames) /\ stack[x] # <<>>
    BY Zenon DEF RunRestart, CoInv, TypeOK
  <2>2. Head(stack[x]) \in Frames
    BY <2>1
  <2> QED
    BY <2>2, Zenon DEF Frames
<1>2. /\ current = x /\ wakeup[to] # <<>> /\ wakeup' = [wakeup EXCEPT ![to] = Tail(@)]
      /\ EnterFrom(x, Head(wakeup[to]), stack[x]) /\ UNCHANGED <<status, entries, pool>>
  BY <1>1, Zenon DEF RunRestart
<1>3. PICK h \in Cos : h = Head(wakeup[to])
  BY <1>2 DEF CoInv, TypeOK
<1>8. caller'[h] = x /\ x # Null /\ \A d \in Cos \ {h} : caller'[d] = caller[d]
  BY <1>2, <1>3, OnlyEntered, LeaderAssumption, Zenon DEF CoInv, All
<1>4. /\ QueuedOnce' /\ wakeup' \in [All -> Seq(Cos)] /\ Queued(h)
      /\ \A d \in Cos \ {h} : Queued(d) => Queued(d)'
  BY <1>2, <1>3, <1>8, WakeupTaken, Zenon DEF CoInv
<1>5. status[h] = "live" /\ caller[h] = Null
  BY <1>4, Zenon DEF CoInv, QueuedOnce
<1>6. entries' \in [Queues -> Seq(Cos)]
  BY <1>2, Zenon DEF CoInv, TypeOK
<1>7. \A d \in Cos : status[d] \in {"pooled", "free"} => wakeup'[d] = wakeup[d]
  <2>1. \A d \in Cos : status[d] \in {"pooled", "free"} => d # to
    BY <1>2, Zenon DEF CoInv, GivenBackClean
  <2> QED
    BY <1>2, <2>1, Zenon DEF CoInv, TypeOK, All
<1>9. CoInv'
  BY <1>2, <1>3, <1>4, <1>5, <1>6, <1>7, EnterKeeps, Zenon
<1> QED
  BY <1>2, <1>4, <1>8, <1>9, Zenon

LEMMA EnterNextStep ==
  ASSUME CoInv, NEW x \in All, NEW q \in Queues, EnterNext(x, q) PROVE CoInv'
<1>2. /\ current = x /\ entries[q] # <<>> /\ entries' = [entries EXCEPT ![q] = Tail(@)]
      /\ EnterFrom(x, Head(entries[q]), stack[x]) /\ UNCHANGED <<status, wakeup, pool>>
  BY Zenon DEF EnterNext, Running
<1>3. PICK h \in Cos : h = Head(entries[q])
  BY <1>2 DEF CoInv, TypeOK
<1>4. QueuedOnce' /\ entries' \in [Queues -> Seq(Cos)] /\ Queued(h)
  <2>1. \A d \in Cos \ {h} : caller'[d] = caller[d]
    BY <1>2, <1>3, OnlyEntered, Zenon DEF CoInv
  <2> QED
    BY <1>2, <1>3, <2>1, EntryTaken, Zenon DEF CoInv
<1>5. status[h] = "live" /\ caller[h] = Null
  BY <1>4, Zenon DEF CoInv, QueuedOnce
<1>6. wakeup' \in [All -> Seq(Cos)]
  BY <1>2, Zenon DEF CoInv, TypeOK
<1> QED
  BY <1>2, <1>3, <1>4, <1>5, <1>6, EnterKeeps, Zenon

\* Whoever runs is in no list.
LEMMA RunsUnqueued ==
  ASSUME CoInv, NEW c \in Cos, current = c
  PROVE  c # Leader /\ status[c] = "live" /\ caller[c] # Null /\ ~Queued(c)
<1>1. c # Leader
  BY LeaderAssumption, Zenon
<1> QED
  BY <1>1, Zenon DEF CoInv, CallersWait, QueuedOnce

\* qemu_coroutine_yield, with or without qemu_co_queue_wait.
LEMMA YieldKeeps ==
  ASSUME CoInv, NEW c \in Cos, current = c, YieldFrom(c), UNCHANGED <<status, wakeup, pool>>,
         QueuedOnce', entries' \in [Queues -> Seq(Cos)]
  PROVE  CoInv'
<1>1. /\ current' \in All /\ caller' \in [All -> All \cup {Null}]
      /\ stack' \in [All -> Seq(Frames)]
      /\ CallersWait' /\ CallersLive' /\ DeletesOnce'
  BY YieldsSwitch, Zenon DEF CoInv
<1>2. TypeOK'
  BY <1>1, Zenon DEF CoInv, TypeOK
<1>3. GivenBackClean'
  BY <1>1, <1>2, PoolKept, Zenon DEF CoInv
<1> QED
  BY <1>1, <1>2, <1>3, Zenon DEF CoInv

\* Only the one that yields loses its caller.
LEMMA OnlyYields ==
  ASSUME TypeOK, NEW c \in Cos, YieldFrom(c)
  PROVE  /\ \A d \in Cos \ {c} : caller'[d] = caller[d]
         /\ caller'[c] = Null
  BY Zenon DEF YieldFrom, TypeOK, All

LEMMA YieldStep ==
  ASSUME CoInv, NEW c \in Cos, Yield(c) PROVE CoInv'
<1>1. current = c /\ YieldFrom(c) /\ UNCHANGED <<status, wakeup, entries, pool>>
  BY Zenon DEF Yield, Running
<1>2. \A d \in Cos : Queued(d) => status'[d] = status[d] /\ caller'[d] = caller[d]
  BY <1>1, OnlyYields, RunsUnqueued, Zenon DEF CoInv
<1>3. QueuedOnce' /\ entries' \in [Queues -> Seq(Cos)]
  BY <1>1, <1>2, ListsKept, Zenon DEF CoInv, TypeOK
<1> QED
  BY <1>1, <1>3, YieldKeeps, Zenon

LEMMA QueueWaitStep ==
  ASSUME CoInv, NEW c \in Cos, NEW q \in Queues, QueueWait(c, q)
  PROVE  /\ CoInv'
         /\ Range(entries'[q]) = Range(entries[q]) \cup {c}
         /\ \A p \in Queues \ {q} : entries'[p] = entries[p]
         /\ \A d \in Cos : Queued(d)' <=> Queued(d) \/ d = c
<1>1. /\ current = c /\ YieldFrom(c) /\ UNCHANGED <<status, wakeup, pool>>
      /\ entries' = [entries EXCEPT ![q] = Append(@, c)]
  BY Zenon DEF QueueWait, Running
<1>2. /\ ~Queued(c) /\ status[c] = "live" /\ caller'[c] = Null
      /\ \A d \in Cos \ {c} : caller'[d] = caller[d]
  BY <1>1, OnlyYields, RunsUnqueued, Zenon DEF CoInv
<1>3. /\ QueuedOnce' /\ entries' \in [Queues -> Seq(Cos)]
      /\ Range(entries'[q]) = Range(entries[q]) \cup {c}
      /\ \A p \in Queues \ {q} : entries'[p] = entries[p]
      /\ \A d \in Cos : Queued(d)' <=> Queued(d) \/ d = c
  BY <1>1, <1>2, EntryAdded, Zenon DEF CoInv
<1> QED
  BY <1>1, <1>3, YieldKeeps, Zenon

LEMMA TerminateStep ==
  ASSUME CoInv, NEW c \in Cos, Terminate(c) PROVE CoInv'
<1>1. /\ current = c /\ status' = [status EXCEPT ![c] = "dead"]
      /\ UNCHANGED <<caller, wakeup, entries, pool>>
  BY Zenon DEF Terminate, Running
<1>2. /\ current' \in All /\ stack' \in [All -> Seq(Frames)]
      /\ CallersWait' /\ CallersLive' /\ DeletesOnce'
  BY TerminatesSwitch, Zenon DEF CoInv
<1>3. /\ status' \in [Cos -> {"free", "pooled", "live", "dead"}] /\ status'[c] = "dead"
      /\ \A d \in Cos \ {c} : status'[d] = status[d]
  BY <1>1, Zenon DEF CoInv, TypeOK
<1>4. status[c] = "live" /\ ~Queued(c)
  BY <1>1, RunsUnqueued, Zenon
<1>5. TypeOK'
  BY <1>1, <1>2, <1>3, Zenon DEF CoInv, TypeOK
<1>6. QueuedOnce'
  BY <1>1, <1>3, <1>4, ListsKept, Zenon DEF CoInv
<1>7. GivenBackClean'
  BY <1>1, <1>2, <1>3, <1>4, <1>5, PoolKept, Zenon DEF CoInv
<1> QED
  BY <1>2, <1>5, <1>6, <1>7, Zenon DEF CoInv

\* qemu_co_queue_do_restart.
LEMMA MarkStep ==
  ASSUME CoInv, NEW c \in Cos, NEW q \in Queues, current = c, NEW n \in 0 .. Len(entries[q]),
         Mark(c, q, n), UNCHANGED <<current, status, caller, pool, stack>>
  PROVE  /\ CoInv'
         /\ \A d \in Cos : Queued(d)' <=> Queued(d)
         /\ \A p \in Queues \ {q} : entries'[p] = entries[p]
         /\ Range(entries'[q]) \subseteq Range(entries[q])
         /\ n = Len(entries[q]) => entries'[q] = <<>>
         /\ n > 0 => Head(entries[q]) \in Range(entries[q]) \ Range(entries'[q])
<1>1. /\ wakeup' = [wakeup EXCEPT ![c] = @ \o SubSeq(entries[q], 1, n)]
      /\ entries' = [entries EXCEPT ![q] = SubSeq(@, n + 1, Len(@))]
  BY Zenon DEF Mark
<1>2. /\ QueuedOnce' /\ entries' \in [Queues -> Seq(Cos)] /\ wakeup' \in [All -> Seq(Cos)]
      /\ \A d \in Cos : Queued(d)' <=> Queued(d)
      /\ \A x \in All \ {c} : wakeup'[x] = wakeup[x]
      /\ \A p \in Queues \ {q} : entries'[p] = entries[p]
      /\ Range(entries'[q]) \subseteq Range(entries[q])
      /\ n = Len(entries[q]) => entries'[q] = <<>>
      /\ n > 0 => Head(entries[q]) \in Range(entries[q]) \ Range(entries'[q])
  BY <1>1, EntriesMarked, Zenon DEF CoInv
<1>3. CallersWait' /\ CallersLive'
  BY ZenonT(60) DEF CoInv, CallersWait, CallersLive, Active
<1>4. DeletesOnce'
  BY DEF CoInv, DeletesOnce, Ended, EndedOnce
<1>5. TypeOK'
  BY <1>2, Zenon DEF CoInv, TypeOK
<1>6. GivenBackClean'
  <2>1. \A d \in Cos : status[d] \in {"pooled", "free"} => d # c /\ d \in All
    BY RunsUnqueued, Zenon DEF All
  <2> QED
    BY <1>2, <1>3, <1>5, <2>1, PoolKept, Zenon DEF CoInv
<1> QED
  BY <1>2, <1>3, <1>4, <1>5, <1>6, Zenon DEF CoInv

LEMMA QueueNextStep ==
  ASSUME CoInv, NEW c \in Cos, NEW q \in Queues, QueueNext(c, q)
  PROVE  /\ CoInv' /\ UNCHANGED <<status, caller>>
         /\ \A d \in Cos : Queued(d)' <=> Queued(d)
         /\ \A p \in Queues \ {q} : entries'[p] = entries[p]
         /\ Range(entries'[q]) \subseteq Range(entries[q])
         /\ Head(entries[q]) \in Range(entries[q]) \ Range(entries'[q])
<1>1. entries[q] \in Seq(Cos) /\ entries[q] # <<>>
  BY Zenon DEF CoInv, TypeOK, QueueNext, HasWaiters
<1>2. 1 \in 0 .. Len(entries[q]) /\ 1 > 0
  BY <1>1
<1>3. current = c /\ Mark(c, q, 1) /\ UNCHANGED <<current, status, caller, pool, stack>>
  BY Zenon DEF QueueNext, Running, HowMany
<1> QED
  BY <1>2, <1>3, MarkStep, Zenon

LEMMA QueueRestartAllStep ==
  ASSUME CoInv, NEW c \in Cos, NEW q \in Queues, QueueRestartAll(c, q)
  PROVE  /\ CoInv' /\ UNCHANGED <<status, caller>>
         /\ \A d \in Cos : Queued(d)' <=> Queued(d)
         /\ \A p \in Queues \ {q} : entries'[p] = entries[p]
         /\ entries'[q] = <<>>
<1>1. entries[q] \in Seq(Cos)
  BY Zenon DEF CoInv, TypeOK
<1>2. PICK n \in 0 .. Len(entries[q]) : n = Len(entries[q])
  BY <1>1
<1>3. current = c /\ Mark(c, q, n) /\ UNCHANGED <<current, status, caller, pool, stack>>
  BY <1>2, Zenon DEF QueueRestartAll, Running, HowMany
<1> QED
  BY <1>2, <1>3, MarkStep, Zenon

LEMMA CreateStep ==
  ASSUME CoInv, NEW x \in All, NEW c \in Cos, Create(x, c)
  PROVE  /\ CoInv' /\ UNCHANGED <<wakeup, entries, caller>>
         /\ \A d \in Cos : status[d] = "live" => status'[d] = "live"
<1>1. /\ IF pool # <<>> THEN c = Head(pool) ELSE status[c] = "free"
      /\ pool' = IF pool # <<>> THEN Tail(pool) ELSE pool
      /\ status' = [status EXCEPT ![c] = "live"]
      /\ wakeup' = [wakeup EXCEPT ![c] = <<>>]
      /\ UNCHANGED <<current, caller, entries, stack>>
  BY Zenon DEF Create
<1>2. pool \in Seq(Cos) /\ IsInjective(pool) /\ Range(pool) = {d \in Cos : status[d] = "pooled"}
      /\ Len(pool) <= PoolMaxSize
  BY Zenon DEF CoInv, GivenBackClean, TypeOK
<1>3. pool # <<>> => /\ Head(pool) \in Range(pool) /\ Tail(pool) \in Seq(Cos)
                     /\ IsInjective(Tail(pool)) /\ Range(Tail(pool)) = Range(pool) \ {Head(pool)}
                     /\ Len(Tail(pool)) <= PoolMaxSize
  <2>1. pool # <<>> => Len(Tail(pool)) <= PoolMaxSize
    BY <1>2, PoolAssumption
  <2> QED
    BY <1>2, <2>1, Popped, Zenon
<1>4. /\ pool' \in Seq(Cos) /\ IsInjective(pool') /\ Range(pool') = Range(pool) \ {c}
      /\ Len(pool') <= PoolMaxSize
  BY <1>1, <1>2, <1>3, Zenon
<1>5. status[c] \in {"free", "pooled"}
  BY <1>1, <1>2, <1>3, Zenon
<1>6. caller[c] = Null /\ stack[c] = <<>> /\ wakeup[c] = <<>> /\ ~Queued(c)
  BY <1>5, Zenon DEF CoInv, GivenBackClean, CallersLive, QueuedOnce
<1>7. /\ status' \in [Cos -> {"free", "pooled", "live", "dead"}] /\ status'[c] = "live"
      /\ \A d \in Cos \ {c} : status'[d] = status[d]
  BY <1>1, Zenon DEF CoInv, TypeOK
<1>8. wakeup' = wakeup
  BY <1>1, <1>6, Zenon DEF CoInv, TypeOK, All
<1>9. TypeOK'
  BY <1>1, <1>4, <1>7, <1>8, Zenon DEF CoInv, TypeOK
<1>10. CallersWait'
  <2>1. \A d \in Cos : status'[d] = "live" /\ caller[d] # Null => status[d] = "live"
    BY <1>6, <1>7, Zenon
  <2>2. \A d \in Cos : status[d] = "live" => status'[d] = "live"
    BY <1>7, Zenon
  <2>3. current # Leader => current \in Cos
    BY Zenon DEF CoInv, TypeOK, All
  <2>4. \A d \in Cos : status'[d] = "live" /\ caller'[d] # Null =>
          LET s == stack'[caller'[d]] IN s # <<>> /\ Head(s).to = d /\ ~Head(s).back
    BY <1>1, <2>1, ZenonT(60) DEF CoInv, CallersWait
  <2>5. current' # Leader => status'[current'] = "live" /\ caller'[current'] # Null
    BY <1>1, <2>2, <2>3, Zenon DEF CoInv, CallersWait
  <2>6. ASSUME NEW z \in All, z # current, Active(z), z \in Cos => status'[z] = "live"
        PROVE  \E d \in Cos : status'[d] = "live" /\ caller[d] = z
    <3>1. z \in Cos => status[z] = "live"
      BY <2>1, <2>6, LeaderAssumption, Zenon DEF Active
    <3> QED
      BY <2>2, <2>6, <3>1, Zenon DEF CoInv, CallersWait
  <2> QED
    BY <1>1, <2>4, <2>5, <2>6, Zenon DEF CallersWait, Active
<1>11. CallersLive'
  <2>1. \A d \in Cos : status'[d] = "live" /\ caller[d] # Null => status[d] = "live"
    BY <1>6, <1>7, Zenon
  <2> QED
    BY <1>1, <1>6, <1>7, <2>1, ZenonT(60) DEF CoInv, CallersLive, Active
<1>12. DeletesOnce'
  <2>1. \A d \in Cos : status[d] = "dead" => status'[d] = "dead"
    BY <1>5, <1>7, Zenon
  <2> QED
    BY <1>1, <2>1 DEF CoInv, DeletesOnce, Ended, EndedOnce
<1>13. QueuedOnce'
  BY <1>1, <1>6, <1>7, <1>8, ListsKept, Zenon DEF CoInv
<1>14. GivenBackClean'
  <2>1. \A d \in Cos : status'[d] \in {"pooled", "free"} => wakeup'[d] = <<>> /\ stack'[d] = <<>>
    BY <1>1, <1>7, <1>8, Zenon DEF CoInv, GivenBackClean
  <2>2. Range(pool') = {d \in Cos : status'[d] = "pooled"}
    BY <1>2, <1>4, <1>7, Zenon
  <2> QED
    BY <1>4, <1>9, <2>1, <2>2, Zenon DEF GivenBackClean, Range, IsInjective
<1> QED
  BY <1>1, <1>7, <1>8, <1>9, <1>10, <1>11, <1>12, <1>13, <1>14, Zenon DEF CoInv

\* A call of coroutine_swap ends, and nothing is deleted unless it has terminated.
LEMMA SwapEndStep ==
  ASSUME CoInv, NEW x \in All, SwapEnd(x)
  PROVE  /\ CoInv' /\ UNCHANGED <<wakeup, entries>>
         /\ \A d \in Cos : status[d] # "dead" => status'[d] = status[d] /\ caller'[d] = caller[d]
<1>1. /\ current = x /\ stack[x] # <<>> /\ stack' = [stack EXCEPT ![x] = Tail(@)]
      /\ UNCHANGED <<current, wakeup, entries>>
  BY Zenon DEF SwapEnd
<1>2. /\ stack \in [All -> Seq(Frames)] /\ stack[x] \in Seq(Frames) /\ EndedOnce(stack[x])
      /\ caller \in [All -> All \cup {Null}]
      /\ status \in [Cos -> {"free", "pooled", "live", "dead"}]
  BY Zenon DEF CoInv, TypeOK, DeletesOnce
<1>3. PICK f \in Frames : f = Head(stack[x]) /\ f = stack[x][1] /\ 1 \in DOMAIN stack[x]
  BY <1>1, <1>2
<1>4. PICK t \in Seq(Frames) :
        /\ t = Tail(stack[x]) /\ Ended(t) \subseteq Ended(stack[x]) /\ EndedOnce(t)
        /\ \A i \in DOMAIN t : \E j \in DOMAIN stack[x] : t[i] = stack[x][j]
        /\ f.ret = "TERMINATE" => f.to \notin Ended(t)
  BY <1>1, <1>2, <1>3, FramePopped, Zenon
<1>5. /\ stack' \in [All -> Seq(Frames)] /\ stack'[x] = t
      /\ \A z \in All \ {x} : stack'[z] = stack[z]
  BY <1>1, <1>2, <1>4, Zenon
<1>6. \A z \in All : /\ EndedOnce(stack'[z]) /\ Ended(stack'[z]) \subseteq Ended(stack[z])
                     /\ \A i \in DOMAIN stack'[z] : \E j \in DOMAIN stack[z] :
                          stack'[z][i] = stack[z][j]
  <2>1. \A z \in All : EndedOnce(stack[z])
    BY Zenon DEF CoInv, DeletesOnce
  <2> SUFFICES ASSUME NEW z \in All
               PROVE  /\ EndedOnce(stack'[z]) /\ Ended(stack'[z]) \subseteq Ended(stack[z])
                      /\ \A i \in DOMAIN stack'[z] : \E j \in DOMAIN stack[z] :
                           stack'[z][i] = stack[z][j]
    BY Zenon
  <2>2. CASE z = x
    <3>1. stack'[z] = t /\ stack[z] = stack[x]
      BY <1>5, <2>2, Zenon
    <3>2. \A i \in DOMAIN stack'[z] : \E j \in DOMAIN stack[z] : stack'[z][i] = stack[z][j]
      BY <1>4, <3>1, Zenon
    <3> QED
      BY <1>4, <3>1, <3>2, Zenon
  <2>3. CASE z # x
    BY <1>5, <2>1, <2>3, Zenon
  <2> QED
    BY <2>2, <2>3, Zenon
<1>7. ASSUME NEW e \in SUBSET Cos,
             \A c \in e : status[c] = "dead" /\ \A z \in All : c \notin Ended(stack'[z]),
             status' \in [Cos -> {"free", "pooled", "live", "dead"}],
             caller' \in [All -> All \cup {Null}],
             \A c \in e : status'[c] \in {"free", "pooled"} /\ caller'[c] = Null,
             \A c \in Cos \ e : status'[c] = status[c],
             \A z \in All \ e : caller'[z] = caller[z]
      PROVE  CallersWait' /\ CallersLive' /\ DeletesOnce' /\ QueuedOnce'
  <2>1. /\ Leader \notin Cos /\ Leader \in All /\ Null \notin All
        /\ \A z \in All : z \in Cos \/ z = Leader
        /\ \A c \in Cos : c \in All
    BY LeaderAssumption, Zenon DEF All
  <2>2. \A c \in Cos : status'[c] = "live" <=> status[c] = "live"
    BY <1>7, Zenon
  <2>3. \A c \in Cos : status[c] = "live" => caller'[c] = caller[c]
    BY <1>7, <2>1, Zenon
  <2>4. caller'[Leader] = caller[Leader]
    BY <1>7, <2>1, Zenon
  <2>5. \A c \in Cos : status[c] = "live" /\ caller[c] # Null =>
          /\ caller[c] \in All \ {x} /\ stack'[caller[c]] = stack[caller[c]]
          /\ caller'[caller[c]] = caller[caller[c]]
    <3> SUFFICES ASSUME NEW c \in Cos, status[c] = "live", caller[c] # Null
                 PROVE  /\ caller[c] \in All \ {x} /\ stack'[caller[c]] = stack[caller[c]]
                        /\ caller'[caller[c]] = caller[caller[c]]
      BY Zenon
    <3>1. caller[c] \in All /\ caller[c] # x
      BY <1>1, <1>2, <2>1, Zenon DEF CoInv, CallersLive
    <3>2. caller[c] \in Cos => status[caller[c]] = "live"
      BY Zenon DEF CoInv, CallersLive
    <3> QED
      BY <1>5, <2>1, <2>3, <2>4, <3>1, <3>2, Zenon
  <2>6. CallersWait'
    <3>1. ASSUME NEW d \in Cos, status'[d] = "live", caller'[d] # Null
          PROVE  stack'[caller'[d]] # <<>> /\ Head(stack'[caller'[d]]).to = d
                 /\ ~Head(stack'[caller'[d]]).back
      BY <2>2, <2>3, <2>5, <3>1, SMTT(30) DEF CoInv, CallersWait
    <3>2. current # Leader => status'[current] = "live" /\ caller'[current] # Null
      BY <1>1, <2>1, <2>2, <2>3, Zenon DEF CoInv, CallersWait
    <3>3. ASSUME NEW z \in All, z # current, z = Leader \/ caller'[z] # Null,
                 z \in Cos => status'[z] = "live"
          PROVE  \E d \in Cos : status'[d] = "live" /\ caller'[d] = z
      <4>1. z = Leader \/ caller[z] # Null
        BY <2>1, <2>2, <2>3, <3>3, Zenon
      <4>2. PICK d \in Cos : status[d] = "live" /\ caller[d] = z
        BY <2>2, <3>3, <4>1, Zenon DEF CoInv, CallersWait, Active
      <4> QED
        BY <2>2, <2>3, <4>2, Zenon
    <3> QED
      BY <1>1, <3>1, <3>2, <3>3, ZenonT(60) DEF CallersWait, Active
  <2>7. CallersLive'
    <3>1. \A c \in Cos : status'[c] = "live" /\ caller'[c] # Null =>
            /\ caller'[c] # current /\ (caller'[c] = Leader \/ caller'[caller'[c]] # Null)
            /\ caller'[c] \in Cos => status'[caller'[c]] = "live"
      BY <2>2, <2>3, <2>5, SMTT(30) DEF CoInv, CallersLive, Active
    <3>2. \A c \in Cos : status'[c] # "live" => stack'[c] = <<>>
      BY <1>1, <1>5, <2>1, <2>2, Zenon DEF CoInv, CallersLive
    <3>3. \A c \in Cos : status'[c] \in {"free", "pooled"} => caller'[c] = Null
      BY <1>7, <2>1, Zenon DEF CoInv, CallersLive
    <3>4. caller'[Leader] = Null
      BY <2>4, Zenon DEF CoInv, CallersLive
    <3> QED
      BY <1>1, <3>1, <3>2, <3>3, <3>4, Zenon DEF CallersLive, Active
  <2>8. DeletesOnce'
    <3>1. ASSUME NEW z \in All, NEW i \in DOMAIN stack'[z], stack'[z][i].ret = "TERMINATE"
          PROVE  stack'[z][i].to \in Cos /\ status'[stack'[z][i].to] = "dead"
      <4>1. PICK j \in DOMAIN stack[z] : stack'[z][i] = stack[z][j]
        BY <1>6, Zenon
      <4>2. stack'[z][i].to \in Cos /\ status[stack'[z][i].to] = "dead"
        BY <3>1, <4>1, ZenonT(60) DEF CoInv, DeletesOnce
      <4>3. stack'[z][i].to \in Ended(stack'[z])
        BY <3>1, <4>2, Zenon DEF Ended
      <4> QED
        BY <1>7, <4>2, <4>3, Zenon
    <3>2. \A a, b \in All : a # b => Ended(stack'[a]) \cap Ended(stack'[b]) = {}
      BY <1>6, Zenon DEF CoInv, DeletesOnce
    <3> QED
      BY <1>6, <3>1, <3>2, Zenon DEF DeletesOnce, Ended, EndedOnce
  <2>9. QueuedOnce'
    <3>1. \A c \in Cos : Queued(c) => status[c] = "live"
      BY Zenon DEF CoInv, QueuedOnce
    <3> QED
      BY <1>1, <2>2, <2>3, <3>1, ListsKept, Zenon DEF CoInv
  <2> QED
    BY <2>6, <2>7, <2>8, <2>9, Zenon
<1>8. CASE f.ret # "TERMINATE"
  <2>1. UNCHANGED <<status, caller, pool>>
    BY <1>3, <1>8, Zenon DEF SwapEnd
  <2>2. CallersWait' /\ CallersLive' /\ DeletesOnce' /\ QueuedOnce'
    <3>1. {} \in SUBSET Cos
      BY Zenon
    <3> QED
      BY <1>2, <1>7, <2>1, <3>1, Zenon
  <2>3. TypeOK'
    BY <1>1, <1>5, <2>1, Zenon DEF CoInv, TypeOK
  <2>4. GivenBackClean'
    BY <1>1, <2>1, <2>2, <2>3, PoolKept, Zenon DEF CoInv
  <2> QED
    BY <1>1, <2>1, <2>2, <2>3, <2>4, Zenon DEF CoInv
<1>9. CASE f.ret = "TERMINATE"
  <2>1. PICK c \in Cos : c = f.to /\ status[c] = "dead" /\ c \in All
    BY <1>1, <1>3, <1>9, Zenon DEF CoInv, DeletesOnce, All
  <2>2. /\ wakeup[c] = <<>> /\ caller' = [caller EXCEPT ![c] = Null]
        /\ IF PoolHasRoom
           THEN pool' = <<c>> \o pool /\ status' = [status EXCEPT ![c] = "pooled"]
           ELSE status' = [status EXCEPT ![c] = "free"] /\ pool' = pool
    BY <1>3, <1>9, <2>1, Zenon DEF SwapEnd, Delete, AllRestarted
  <2>3. \A z \in All : c \notin Ended(stack'[z])
    <3>1. c \in Ended(stack[x])
      BY <1>3, <1>9, <2>1, Zenon DEF Ended
    <3>2. \A z \in All \ {x} : c \notin Ended(stack[z])
      BY <3>1, Zenon DEF CoInv, DeletesOnce
    <3> QED
      BY <1>4, <1>5, <1>9, <2>1, <3>2, Zenon
  <2>4. /\ caller' \in [All -> All \cup {Null}] /\ caller'[c] = Null
        /\ \A z \in All \ {c} : caller'[z] = caller[z]
    BY <1>2, <2>1, <2>2, Zenon
  <2>5. /\ status' \in [Cos -> {"free", "pooled", "live", "dead"}]
        /\ status'[c] = IF PoolHasRoom THEN "pooled" ELSE "free"
        /\ \A d \in Cos \ {c} : status'[d] = status[d]
    BY <1>2, <2>1, <2>2, Zenon
  <2>6. CallersWait' /\ CallersLive' /\ DeletesOnce' /\ QueuedOnce'
    <3>1. PICK e \in SUBSET Cos : e = {c}
      BY Zenon
    <3>2. /\ \A d \in e : status[d] = "dead" /\ \A z \in All : d \notin Ended(stack'[z])
          /\ \A d \in e : status'[d] \in {"free", "pooled"} /\ caller'[d] = Null
          /\ \A d \in Cos \ e : status'[d] = status[d]
          /\ \A z \in All \ e : caller'[z] = caller[z]
      BY <2>1, <2>3, <2>4, <2>5, <3>1
    <3> QED
      BY <1>7, <2>4, <2>5, <3>2, Zenon
  <2>7. /\ pool \in Seq(Cos) /\ IsInjective(pool) /\ Len(pool) <= PoolMaxSize
        /\ Range(pool) = {d \in Cos : status[d] = "pooled"}
    BY Zenon DEF CoInv, GivenBackClean, TypeOK
  <2>8. /\ pool' \in Seq(Cos) /\ IsInjective(pool') /\ Len(pool') <= PoolMaxSize
        /\ Range(pool') = {d \in Cos : status'[d] = "pooled"}
    <3>1. CASE PoolHasRoom
      <4>1. c \notin Range(pool)
        BY <2>1, <2>7, Zenon
      <4>2. /\ <<c>> \o pool \in Seq(Cos) /\ IsInjective(<<c>> \o pool)
            /\ Range(<<c>> \o pool) = {c} \cup Range(pool)
        BY <2>7, <4>1, Pushed
      <4>3. Len(<<c>> \o pool) <= PoolMaxSize
        BY <2>7, <3>1, PoolAssumption DEF PoolHasRoom
      <4>4. {d \in Cos : status'[d] = "pooled"} = {c} \cup {d \in Cos : status[d] = "pooled"}
        BY <2>5, <3>1, Zenon
      <4> QED
        BY <2>2, <2>7, <3>1, <4>2, <4>3, <4>4, Zenon
    <3>2. CASE ~PoolHasRoom
      <4>1. {d \in Cos : status'[d] = "pooled"} = {d \in Cos : status[d] = "pooled"}
        BY <2>1, <2>5, <3>2, Zenon
      <4> QED
        BY <2>2, <2>7, <3>2, <4>1, Zenon
    <3> QED
      BY <3>1, <3>2, Zenon
  <2>9. TypeOK'
    BY <1>1, <1>5, <2>4, <2>5, <2>8, Zenon DEF CoInv, TypeOK
  <2>10. GivenBackClean'
    <3>1. \A d \in Cos : status'[d] \in {"pooled", "free"} => wakeup'[d] = <<>> /\ stack'[d] = <<>>
      BY <1>1, <2>2, <2>5, <2>6, Zenon DEF CoInv, GivenBackClean, CallersLive
    <3> QED
      BY <2>8, <2>9, <3>1, Zenon DEF GivenBackClean, Range, IsInjective
  <2> QED
    BY <1>1, <2>1, <2>4, <2>5, <2>6, <2>9, <2>10, Zenon DEF CoInv, All
<1> QED
  BY <1>8, <1>9, Zenon

LEMMA CoInit == Init => CoInv
<1> SUFFICES ASSUME Init PROVE CoInv
  BY Zenon
<1>1. /\ current = Leader /\ status = [c \in Cos |-> "free"] /\ caller = [x \in All |-> Null]
      /\ wakeup = [x \in All |-> <<>>] /\ entries = [q \in Queues |-> <<>>] /\ pool = <<>>
      /\ stack = [x \in All |-> <<>>]
  BY Zenon DEF Init
<1>2. TypeOK
  BY <1>1, PoolAssumption DEF TypeOK, All
<1>3. Range(<<>>) = {} /\ IsInjective(<<>>)
  BY DEF Range, IsInjective
<1>4. CallersWait /\ CallersLive
  BY <1>1, Zenon DEF CallersWait, CallersLive, Active, All
<1>5. DeletesOnce
  BY <1>1 DEF DeletesOnce, Ended, EndedOnce
<1>6. QueuedOnce
  BY <1>1, <1>3, Zenon DEF QueuedOnce, Queued
<1>7. GivenBackClean
  BY <1>1, <1>2, <1>3, Zenon DEF GivenBackClean, All
<1> QED
  BY <1>2, <1>4, <1>5, <1>6, <1>7, Zenon DEF CoInv

LEMMA CoNext == CoInv /\ [Next]_coVars => CoInv'
<1> SUFFICES ASSUME CoInv, [Next]_coVars PROVE CoInv'
  BY Zenon
<1>1. CASE UNCHANGED coVars
  <2>1. UNCHANGED <<current, status, caller, wakeup, entries, pool, stack>>
    BY <1>1, Zenon DEF coVars
  <2> QED
    <3>1. TypeOK' /\ CallersWait' /\ CallersLive'
      BY <2>1, Zenon DEF CoInv, TypeOK, CallersWait, CallersLive, Active
    <3>2. DeletesOnce'
      BY <2>1 DEF CoInv, DeletesOnce, Ended, EndedOnce
    <3>3. QueuedOnce'
      BY <2>1, ListsKept, Zenon DEF CoInv
    <3>4. GivenBackClean'
      BY <2>1, <3>1, PoolKept, Zenon DEF CoInv
    <3> QED
      BY <3>1, <3>2, <3>3, <3>4, Zenon DEF CoInv
<1>2. CASE CoreStep
  BY <1>2, RunRestartStep, SwapEndStep, Zenon DEF CoreStep
<1>3. CASE \E x \in All, c \in Cos : Create(x, c) \/ Enter(x, c)
  BY <1>3, CreateStep, EnterStep, Zenon
<1>4. CASE \E c \in Cos : Yield(c) \/ Terminate(c)
  BY <1>4, YieldStep, TerminateStep, Zenon
<1>5. CASE \E c \in Cos, q \in Queues : QueueWait(c, q) \/ QueueNext(c, q) \/ QueueRestartAll(c, q)
  BY <1>5, QueueWaitStep, QueueNextStep, QueueRestartAllStep, Zenon
<1>6. CASE \E x \in All, q \in Queues : EnterNext(x, q)
  BY <1>6, EnterNextStep, Zenon
<1> QED
  BY <1>1, <1>2, <1>3, <1>4, <1>5, <1>6, Zenon DEF Next

LEMMA CoAlways == Spec => []CoInv
  BY CoInit, CoNext, PTL DEF Spec

\* However coroutines create, enter and queue each other, the callers form a chain from
\* the running coroutine to the leader in which each waits for the one it entered, so
\* qemu_coroutine_yield never meets "Co-routine is yielding to no one".
THEOREM CallersFormChain == Spec => []CallersWait
<1>1. CoInv => CallersWait
  BY Zenon DEF CoInv
<1> QED
  BY <1>1, CoAlways, PTL

\* No coroutine is in two queues or wake-up lists, or in one twice, and a queued one is
\* suspended, so qemu_co_queue_run_restart never re-enters a coroutine that is running.
THEOREM NobodyQueuedTwice == Spec => []QueuedOnce
<1>1. CoInv => QueuedOnce
  BY Zenon DEF CoInv
<1> QED
  BY <1>1, CoAlways, PTL

\* What coroutine_delete gives to the pool or the heap has entered everything it had
\* marked for restart and is inside no coroutine_swap, and the pool holds it once.
THEOREM PoolIsClean == Spec => []GivenBackClean
<1>1. CoInv => GivenBackClean
  BY Zenon DEF CoInv
<1> QED
  BY <1>1, CoAlways, PTL

=============================================================================
