---------------------------- MODULE Qcow2Proofs -----------------------------
(***************************************************************************)
(* For any sizes of the caches, any image and any requests, errors and     *)
(* crashes: the caches of a qcow2 image never depend on each other, and    *)
(* flushing one never recurses into flushing it again; what a flush was    *)
(* told to save is saved; a crash leaves refcounts that cover the L2       *)
(* tables it leaves; and no table points to a cluster before it is copied. *)
(***************************************************************************)
EXTENDS Qcow2, TLAPS

\* The prover of steps that need no arithmetic.
USE Zenon

\* The entries of two sequences one after the other.
LEMMA Joins ==
  ASSUME NEW S, NEW a \in Seq(S), NEW b \in Seq(S)
  PROVE  /\ a \o b \in Seq(S) /\ Len(a \o b) = Len(a) + Len(b)
         /\ \A i \in 1 .. Len(a) + Len(b) :
              (a \o b)[i] = IF i <= Len(a) THEN a[i] ELSE b[i - Len(a)]
  BY SMT

\* The entries of a sequence without its first.
LEMMA TailShifts ==
  ASSUME NEW S, NEW s \in Seq(S), s # <<>>
  PROVE  /\ Tail(s) \in Seq(S) /\ Len(Tail(s)) = Len(s) - 1
         /\ \A i \in 1 .. Len(Tail(s)) : Tail(s)[i] = s[i + 1]
  BY SMT

Results == {"ok", "error"}

FlushFrames == [f : {"flush"}, c : Caches, i : Int, result : Results]
EntryFrames == [f : {"entry"}, c : Caches, i : Int]
DependencyFrames == [f : {"dependency"}, c : Caches]
SetFrames == [f : {"set"}, c : Caches, d : Caches]
\* T is a set that has the tables that the frames mention.
GetFrames(T) == [f : {"get"}, c : Caches, t : T, i : Int]
Frames(T) == FlushFrames \cup EntryFrames \cup DependencyFrames \cup SetFrames \cup GetFrames(T)

\* Which function of qcow2-cache.c calls which, and for which cache.
Calls(caller, callee) ==
  \/ caller.f \in {"flush", "get"} /\ callee.f = "entry" /\ callee.c = caller.c
  \/ caller.f = "entry" /\ callee.f = "dependency" /\ callee.c = caller.c
  \/ caller.f = "dependency" /\ callee.f = "flush" /\ callee.c = depends[caller.c]
  \/ caller.f = "set" /\ callee.f = "dependency"

\* A cache that another one depends on has no dependency itself.
OneDeep ==
  /\ depends \in [Caches -> Caches \cup {Null}]
  /\ \A c \in Caches : depends[c] # Null => depends[c] # c /\ depends[depends[c]] = Null

StackShape(T) ==
  /\ stack \in Seq(Frames(T))
  /\ \A i \in 1 .. Len(stack) : i + 1 <= Len(stack) => Calls(stack[i + 1], stack[i])
  /\ stack # <<>> => stack[Len(stack)].f \in {"flush", "get", "set"}
  /\ \A i \in 1 .. Len(stack) : stack[i].f = "set" => stack[i].c # stack[i].d
  /\ \A i \in 1 .. Len(stack) : stack[i].f = "dependency" => depends[stack[i].c] # Null

\* Calls into qcow2-cache.c are made with s->lock held.
LockHeld == holder = Null => stack = <<>>

CallsInv(T) == OneDeep /\ StackShape(T) /\ LockHeld

\* Above qcow2_cache_flush_dependency there is a flush of the other cache and one of
\* its entries, at most: that cache has no dependency.
LEMMA DependencyNearTop ==
  ASSUME NEW T, OneDeep, StackShape(T), NEW i \in 1 .. Len(stack), stack[i].f = "dependency"
  PROVE  /\ i <= 3
         /\ i >= 2 => stack[i - 1].f = "flush"
         /\ i = 3 => stack[1].f = "entry"
<1>1. Len(stack) \in Nat /\ \A j \in 1 .. Len(stack) : stack[j] \in Frames(T)
  BY SMT DEF StackShape
<1>2. stack[i].c \in Caches /\ depends[stack[i].c] # Null /\ depends[stack[i].c] \in Caches
  BY <1>1, ZenonT(60) DEF OneDeep, StackShape, Frames, FlushFrames, EntryFrames, DependencyFrames,
              SetFrames, GetFrames
<1> DEFINE Called(j) == j >= 2 => Calls(stack[j], stack[j - 1])
<1>n. \A j \in 1 .. Len(stack) : Called(j)
  <2> SUFFICES ASSUME NEW j \in 1 .. Len(stack), j >= 2 PROVE Calls(stack[j], stack[j - 1])
    OBVIOUS
  <2>1. j - 1 \in 1 .. Len(stack) /\ (j - 1) + 1 = j
    BY <1>1, SMT
  <2> QED
    BY <2>1, SMT DEF StackShape
<1>3. i >= 2 => stack[i - 1].f = "flush" /\ stack[i - 1].c = depends[stack[i].c]
  BY <1>n DEF Calls
<1>4. i >= 3 => stack[i - 2].f = "entry" /\ stack[i - 2].c = depends[stack[i].c]
  <2>1. i >= 3 => i - 1 \in 1 .. Len(stack) /\ i - 1 >= 2 /\ (i - 1) - 1 = i - 2
    BY <1>1, SMT
  <2> QED
    BY <1>n, <1>3, <2>1, SMT DEF Calls
<1>5. i >= 4 => stack[i - 3].f = "dependency" /\ stack[i - 3].c = depends[stack[i].c]
  <2>1. i >= 4 => i - 2 \in 1 .. Len(stack) /\ i - 2 >= 2 /\ (i - 2) - 1 = i - 3
    BY <1>1, SMT
  <2> QED
    BY <1>n, <1>4, <2>1, SMT DEF Calls
<1>6. depends[depends[stack[i].c]] = Null
  BY <1>2 DEF OneDeep
<1>7. ~(i >= 4)
  BY <1>1, <1>5, <1>6, SMT DEF StackShape
<1> QED
  BY <1>1, <1>3, <1>4, <1>7, SMT

\* At most five calls are in progress.
LEMMA Shallow ==
  ASSUME NEW T, OneDeep, StackShape(T)
  PROVE  Len(stack) <= 5
<1> SUFFICES ASSUME Len(stack) > 5 PROVE FALSE
  BY SMT DEF StackShape
<1> DEFINE n == Len(stack)
<1>1. n \in Nat /\ n >= 6 /\ \A j \in 1 .. n : j + 1 <= n => Calls(stack[j + 1], stack[j])
  BY SMT DEF StackShape
<1>2. stack[n].f \in {"flush", "get", "set"}
  BY <1>1, SMT DEF StackShape
<1> HIDE DEF n
<1>3. stack[n - 1].f \in {"entry", "dependency"}
  BY <1>1, <1>2, SMT DEF Calls
<1>4. stack[n - 1].f # "dependency"
  BY <1>1, DependencyNearTop, SMT DEF n
<1>5. stack[n - 2].f = "dependency"
  BY <1>1, <1>3, <1>4, SMT DEF Calls
<1> QED
  BY <1>1, <1>5, DependencyNearTop, SMT DEF n

LEMMA InvImplies == ASSUME NEW T, CallsInv(T) PROVE NoDependencyLoop
<1>1. \E c \in Caches : depends[c] = Null
  BY DEF CallsInv, OneDeep, Caches
<1>2. Len(stack) <= 5
  BY Shallow DEF CallsInv
<1>3. \A i \in DOMAIN stack : stack[i].f = "dependency" => depends[stack[i].c] # Null
  BY SMT DEF CallsInv, StackShape
<1> QED
  BY <1>1, <1>2, <1>3 DEF NoDependencyLoop

LEMMA InitInv == ASSUME NEW T, Init PROVE CallsInv(T)
  BY SMT DEF Init, CacheInit, NoDependencies, CallsInv, OneDeep, StackShape, LockHeld

-----------------------------------------------------------------------------
(* Calls and returns.                                                      *)

LEMMA PushShape ==
  ASSUME NEW T, StackShape(T), UNCHANGED depends, NEW fr \in Frames(T), stack' = <<fr>> \o stack,
         stack # <<>> => Calls(Head(stack), fr),
         stack = <<>> => fr.f \in {"flush", "get", "set"},
         fr.f = "set" => fr.c # fr.d,
         fr.f = "dependency" => depends[fr.c] # Null
  PROVE  StackShape(T)'
<1>1. stack \in Seq(Frames(T)) /\ Len(stack) \in Nat /\ <<fr>> \in Seq(Frames(T)) /\ Len(<<fr>>) = 1
  BY SMT DEF StackShape
<1>2. /\ stack' \in Seq(Frames(T)) /\ Len(stack') = Len(stack) + 1
      /\ stack'[1] = fr
      /\ \A i \in 1 .. Len(stack) : stack'[i + 1] = stack[i]
  BY <1>1, Joins, SMT
<1>3. stack # <<>> => Head(stack) = stack[1] /\ Len(stack) >= 1
  BY <1>1, SMT
<1>4. ASSUME NEW i \in 1 .. Len(stack'), i + 1 <= Len(stack')
      PROVE  Calls(stack[i + 1], stack[i])'
  <2>1. Len(stack) >= 1 /\ stack # <<>>
    BY <1>1, <1>2, <1>4, SMT
  <2>2. CASE i = 1
    BY <1>2, <1>3, <2>1, <2>2, SMT DEF Calls
  <2>3. CASE i > 1
    <3>1. i - 1 \in 1 .. Len(stack) /\ i \in 1 .. Len(stack)
      BY <1>1, <1>2, <1>4, <2>3, SMT
    <3>2. Calls(stack[(i - 1) + 1], stack[i - 1])
      BY <1>1, <1>2, <1>4, <3>1, SMT DEF StackShape
    <3>3. stack'[i + 1] = stack[i] /\ stack'[(i - 1) + 1] = stack[i - 1]
      BY <1>2, <3>1
    <3> QED
      BY <3>1, <3>2, <3>3, SMT DEF Calls
  <2> QED
    BY <1>4, <2>2, <2>3, SMT
<1>5. \A i \in 1 .. Len(stack') : i = 1 \/ (i - 1 \in 1 .. Len(stack) /\ stack'[i] = stack[i - 1])
  <2> TAKE i \in 1 .. Len(stack')
  <2>1. i # 1 => i - 1 \in 1 .. Len(stack) /\ (i - 1) + 1 = i
    BY <1>1, <1>2, SMT
  <2> QED
    BY <1>2, <2>1
<1>6. stack'[Len(stack')].f \in {"flush", "get", "set"}
  <2>1. CASE stack = <<>>
    BY <1>2, <2>1, SMT
  <2>2. CASE stack # <<>>
    BY <1>1, <1>2, <1>3, <2>2, SMT DEF StackShape
  <2> QED
    BY <2>1, <2>2
<1>7. \A i \in 1 .. Len(stack') : /\ stack'[i].f = "set" => stack'[i].c # stack'[i].d
                                 /\ stack'[i].f = "dependency" => depends'[stack'[i].c] # Null
  BY <1>2, <1>5, ZenonT(60) DEF StackShape
<1> QED
  BY <1>2, <1>4, <1>6, <1>7, SMT DEF StackShape

\* What remains of the stack after a return keeps its shape if the dependencies that
\* its frames mention are unchanged.
LEMMA PopShape ==
  ASSUME NEW T, StackShape(T), stack # <<>>, stack' = Tail(stack),
         \A i \in 2 .. Len(stack) :
           stack[i].f = "dependency" => depends'[stack[i].c] = depends[stack[i].c]
  PROVE  StackShape(T)'
<1>1. stack \in Seq(Frames(T)) /\ Len(stack) \in Nat /\ Len(stack) >= 1
  BY SMT DEF StackShape
<1>2. /\ stack' \in Seq(Frames(T)) /\ Len(stack') = Len(stack) - 1
      /\ \A i \in 1 .. Len(stack') : stack'[i] = stack[i + 1]
  BY <1>1, TailShifts
<1>3. ASSUME NEW i \in 1 .. Len(stack'), i + 1 <= Len(stack')
      PROVE  Calls(stack[i + 1], stack[i])'
  <2>1. i + 1 \in 2 .. Len(stack) /\ (i + 1) + 1 \in 2 .. Len(stack) /\ i + 1 \in 1 .. Len(stack')
    BY <1>1, <1>2, <1>3, SMT
  <2>2. Calls(stack[(i + 1) + 1], stack[i + 1])
    BY <1>1, <2>1, SMT DEF StackShape
  <2>3. stack'[i + 1] = stack[(i + 1) + 1] /\ stack'[i] = stack[i + 1]
    BY <1>2, <2>1
  <2> QED
    BY <2>1, <2>2, <2>3 DEF Calls
<1>4. stack' # <<>> => stack'[Len(stack')].f \in {"flush", "get", "set"}
  BY <1>1, <1>2, SMT DEF StackShape
<1>5. \A i \in 1 .. Len(stack') : /\ stack'[i].f = "set" => stack'[i].c # stack'[i].d
                                 /\ stack'[i].f = "dependency" => depends'[stack'[i].c] # Null
  <2> TAKE i \in 1 .. Len(stack')
  <2>1. i + 1 \in 2 .. Len(stack) /\ i + 1 \in 1 .. Len(stack) /\ stack'[i] = stack[i + 1]
    BY <1>1, <1>2, SMT
  <2> QED
    BY <2>1 DEF StackShape
<1> QED
  BY <1>2, <1>3, <1>4, <1>5, SMT DEF StackShape

-----------------------------------------------------------------------------
(* The functions of qcow2-cache.c.                                         *)

LEMMA CalleeNotSet == ASSUME NEW x, NEW y, Calls(x, y) PROVE y.f # "set"
  BY DEF Calls

LEMMA CalleeNotGet == ASSUME NEW x, NEW y, Calls(x, y) PROVE y.f # "get"
  BY DEF Calls

LEMMA FlushFrameUpdate ==
  ASSUME NEW fr \in FlushFrames, NEW n \in Int, NEW r \in Results
  PROVE  LET new == [fr EXCEPT !.i = n, !.result = r]
         IN  new \in FlushFrames /\ new.f = fr.f /\ new.c = fr.c
<1>1. /\ [fr EXCEPT !.i = n, !.result = r].f = fr.f
      /\ [fr EXCEPT !.i = n, !.result = r].c = fr.c
  BY DEF FlushFrames
<1>2. [fr EXCEPT !.i = n, !.result = r] \in FlushFrames
  BY DEF FlushFrames
<1> QED
  BY <1>1, <1>2

LEMMA TopFrame ==
  ASSUME NEW T, StackShape(T), stack # <<>>
  PROVE  /\ Top = stack[1] /\ Len(stack) \in Nat /\ Len(stack) >= 1
         /\ Top.c \in Caches
         /\ Top.f = "flush" => Top \in FlushFrames
         /\ Top.f = "get" => Top \in GetFrames(T)
         /\ Top.f = "set" => Top.d \in Caches /\ Top.c # Top.d /\ Len(stack) = 1
         /\ Top.f = "dependency" => depends[Top.c] # Null
<1>1. /\ stack \in Seq(Frames(T)) /\ Top = stack[1] /\ Len(stack) \in Nat /\ Len(stack) >= 1
  BY SMT DEF StackShape, Top
<1>2. Top \in Frames(T)
  BY <1>1, SMT
<1>3. /\ Top.c \in Caches
      /\ Top.f = "flush" => Top \in FlushFrames
      /\ Top.f = "get" => Top \in GetFrames(T)
      /\ Top.f = "set" => Top.d \in Caches
  BY <1>2 DEF Frames, FlushFrames, EntryFrames, DependencyFrames, SetFrames, GetFrames
<1>4. Top.f = "set" => Top.c # Top.d
  BY <1>1, SMT DEF StackShape
<1>5. Top.f = "set" => Len(stack) = 1
  <2>1. Len(stack) > 1 => Calls(stack[1 + 1], stack[1])
    BY <1>1, SMT DEF StackShape
  <2>2. Len(stack) > 1 => Top.f # "set"
    BY <1>1, <2>1, CalleeNotSet
  <2>3. Len(stack) > 1 \/ Len(stack) = 1
    <3>1. \A n \in Nat : n >= 1 => n > 1 \/ n = 1
      BY SMT
    <3> QED
      BY <1>1, <3>1
  <2> QED
    BY <2>2, <2>3
<1>6. Top.f = "dependency" => depends[Top.c] # Null
  BY <1>1, SMT DEF StackShape
<1> QED
  BY <1>1, <1>3, <1>4, <1>5, <1>6

\* A return that leaves the dependencies alone.
LEMMA ReturnInv ==
  ASSUME NEW T, CallsInv(T), stack # <<>>, stack' = Tail(stack), UNCHANGED <<depends, holder>>
  PROVE  CallsInv(T)'
<1>1. StackShape(T)'
  BY PopShape DEF CallsInv
<1> QED
  BY <1>1 DEF CallsInv, OneDeep, LockHeld

LEMMA CacheStepInv == ASSUME NEW T, CallsInv(T), CacheStep, UNCHANGED holder PROVE CallsInv(T)'
<1>CallInv.
       ASSUME stack # <<>>, UNCHANGED <<depends, holder>>, NEW fr \in Frames(T), stack' = <<fr>> \o stack,
              Calls(Top, fr), fr.f # "set", fr.f = "dependency" => depends[fr.c] # Null
       PROVE  CallsInv(T)'
  <2> USE <1>CallInv
  <2>1. StackShape(T)'
    BY PushShape DEF CallsInv, Top
  <2> QED
    BY <2>1 DEF CallsInv, OneDeep, LockHeld
<1>UnwindInv. CASE Unwind
  BY <1>UnwindInv, ReturnInv DEF Unwind, Return, cacheVars
<1>FlushNextInv. CASE FlushNext
  <2> USE <1>FlushNextInv
  \* The innermost call changes its local variables.
  <2>TopShape.
         ASSUME StackShape(T), UNCHANGED depends, stack # <<>>, NEW top \in Frames(T),
                stack' = <<top>> \o Tail(stack), top.f = Head(stack).f, top.c = Head(stack).c, top.f # "set"
         PROVE  StackShape(T)'
    <3> USE <2>TopShape
    <3>1. stack \in Seq(Frames(T)) /\ Len(stack) \in Nat /\ Len(stack) >= 1
          /\ <<top>> \in Seq(Frames(T)) /\ Len(<<top>>) = 1 /\ Head(stack) = stack[1]
      BY SMT DEF StackShape
    <3>2. /\ Tail(stack) \in Seq(Frames(T)) /\ Len(Tail(stack)) = Len(stack) - 1
          /\ \A i \in 1 .. Len(stack) - 1 : Tail(stack)[i] = stack[i + 1]
      BY <3>1, TailShifts, SMT
    <3>3. /\ stack' \in Seq(Frames(T)) /\ Len(stack') = Len(stack)
          /\ stack'[1] = top
          /\ \A i \in 2 .. Len(stack) : stack'[i] = Tail(stack)[i - 1]
      BY <3>1, <3>2, Joins, SMT
    <3>4. \A i \in 2 .. Len(stack) : stack'[i] = stack[i]
      <4> TAKE i \in 2 .. Len(stack)
      <4>1. i - 1 \in 1 .. Len(stack) - 1 /\ (i - 1) + 1 = i
        BY <3>1, SMT
      <4> QED
        BY <3>2, <3>3, <4>1
    <3>5. \A i \in 1 .. Len(stack) : /\ stack'[i].f = stack[i].f /\ stack'[i].c = stack[i].c
                                    /\ stack'[i].f = "set" => stack'[i] = stack[i]
      BY <3>1, <3>3, <3>4, SMT
    <3>6. ASSUME NEW i \in 1 .. Len(stack), i + 1 <= Len(stack)
          PROVE  Calls(stack[i + 1], stack[i])'
      <4>1. Calls(stack[i + 1], stack[i]) /\ i + 1 \in 1 .. Len(stack)
        BY <3>1, <3>6, SMT DEF StackShape
      <4> QED
        BY <3>5, <4>1, SMT DEF Calls
    <3>7. stack'[Len(stack')].f \in {"flush", "get", "set"}
      BY <3>1, <3>3, <3>5, SMT DEF StackShape
    <3>8. \A i \in 1 .. Len(stack') : /\ stack'[i].f = "set" => stack'[i].c # stack'[i].d
                                     /\ stack'[i].f = "dependency" => depends'[stack'[i].c] # Null
      <4> TAKE i \in 1 .. Len(stack')
      <4>1. stack[i].f = "set" => stack[i].c # stack[i].d
        BY <3>3 DEF StackShape
      <4>2. stack[i].f = "dependency" => depends[stack[i].c] # Null
        BY <3>3 DEF StackShape
      <4> QED
        BY <3>3, <3>5, <4>1, <4>2, SMT
    <3>9. \A i \in 1 .. Len(stack') : i + 1 <= Len(stack') => Calls(stack[i + 1], stack[i])'
      BY <3>3, <3>6
    <3>10. stack' \in Seq(Frames(T))
      BY <3>3
    <3> QED
      BY <3>7, <3>8, <3>9, <3>10, SMT DEF StackShape
  <2>1. stack # <<>> /\ Top.f = "flush" /\ UNCHANGED depends
    BY DEF FlushNext, In, cacheVars
  <2>2. Top \in FlushFrames
    BY <2>1, TopFrame DEF CallsInv
  <2>3. CASE ret = Null
    <3>1. EntryFrame(Top.c, Top.i) \in Frames(T) /\ Calls(Top, EntryFrame(Top.c, Top.i))
      BY <2>1, <2>2 DEF EntryFrame, Frames, EntryFrames, FlushFrames, Calls
    <3>2. stack' = <<EntryFrame(Top.c, Top.i)>> \o stack
      BY <2>3 DEF FlushNext, Call
    <3>3. EntryFrame(Top.c, Top.i).f = "entry"
      BY DEF EntryFrame
    <3> QED
      BY <2>1, <3>1, <3>2, <3>3, <1>CallInv
  <2>4. CASE ret # Null
    <3> DEFINE top == [Top EXCEPT !.i = @ + 1, !.result = FlushResult(@)]
    <3>1. stack' = <<top>> \o Tail(stack)
      BY <2>4 DEF FlushNext
    <3>2. top \in FlushFrames /\ top.f = Top.f /\ top.c = Top.c
      <4>1. FlushResult(Top.result) \in Results /\ Top.i + 1 \in Int
        BY <2>2, SMT DEF FlushFrames, FlushResult, Results
      <4> QED
        BY <2>2, <4>1, FlushFrameUpdate
    <3>3. StackShape(T)'
      <4> HIDE DEF top
      <4> QED
        BY <2>1, <3>1, <3>2, <2>TopShape DEF CallsInv, Frames, Top
    <3> QED
      BY <2>1, <3>3 DEF CallsInv, OneDeep, LockHeld
  <2> QED
    BY <2>3, <2>4
<1>FlushEndInv. CASE FlushEnd
  BY <1>FlushEndInv, ReturnInv DEF FlushEnd, In, Return, cacheVars
\* c->depends is cleared by the one call of qcow2_cache_flush_dependency in progress.
<1>FlushDependencyInv. CASE FlushDependency
  <2> USE <1>FlushDependencyInv
  <2>1. stack # <<>> /\ Top.f = "dependency" /\ OneDeep /\ StackShape(T)
    BY DEF FlushDependency, In, CallsInv
  <2>2. Top.c \in Caches /\ depends[Top.c] # Null /\ depends[Top.c] \in Caches /\ Top = stack[1]
    BY <2>1, TopFrame DEF OneDeep
  <2>3. CASE ret = Null
    <3>1. FlushFrame(depends[Top.c]) \in Frames(T) /\ Calls(Top, FlushFrame(depends[Top.c]))
      BY <2>1, <2>2, SMT DEF FlushFrame, Frames, FlushFrames, Results, Calls
    <3>2. stack' = <<FlushFrame(depends[Top.c])>> \o stack /\ UNCHANGED depends
      BY <2>3 DEF FlushDependency, Call
    <3>3. FlushFrame(depends[Top.c]).f = "flush"
      BY DEF FlushFrame
    <3> QED
      BY <2>1, <3>1, <3>2, <3>3, <1>CallInv
  <2>4. CASE ret # Null
    <3>1. depends' = [depends EXCEPT ![Top.c] = Null] /\ stack' = Tail(stack)
      BY <2>4 DEF FlushDependency, Return
    <3>2. OneDeep'
      BY <2>2, <3>1 DEF CallsInv, OneDeep
    <3>3. \A i \in 2 .. Len(stack) : stack[i].f # "dependency"
      <4> SUFFICES ASSUME NEW i \in 2 .. Len(stack), stack[i].f = "dependency" PROVE FALSE
        OBVIOUS
      <4>1. Len(stack) \in Nat /\ i \in 1 .. Len(stack)
        BY <2>1, TopFrame, SMT
      <4>2. i <= 3 /\ stack[i - 1].f = "flush" /\ (i = 3 => stack[1].f = "entry")
        BY <2>1, <4>1, DependencyNearTop, SMT
      <4>3. CASE i = 2
        BY <2>1, <2>2, <4>2, <4>3, SMT
      <4>4. CASE i = 3
        BY <2>1, <2>2, <4>2, <4>4
      <4> QED
        BY <4>1, <4>2, <4>3, <4>4, SMT
    <3>4. StackShape(T)'
      BY <2>1, <3>1, <3>3, PopShape
    <3> QED
      BY <2>1, <3>2, <3>4 DEF CallsInv, LockHeld
  <2> QED
    BY <2>3, <2>4
<1>EntryFlushInv. CASE EntryFlush
  <2> USE <1>EntryFlushInv
  <2>1. stack # <<>> /\ Top.f = "entry" /\ UNCHANGED depends
    BY DEF EntryFlush, In, cacheVars
  <2>2. CASE stack' = Tail(stack)
    BY <2>1, <2>2, ReturnInv
  <2>3. CASE UNCHANGED stack
    BY <2>1, <2>3 DEF CallsInv, OneDeep, StackShape, LockHeld, Calls
  <2>4. CASE MustFlushFirst(Top.c) /\ Call(DependencyFrame(Top.c))
    <3>1. DependencyFrame(Top.c) \in Frames(T) /\ Calls(Top, DependencyFrame(Top.c))
      BY <2>1, TopFrame DEF CallsInv, DependencyFrame, Frames, DependencyFrames, Calls
    <3>2. DependencyFrame(Top.c).f = "dependency" /\ DependencyFrame(Top.c).c = Top.c
      BY DEF DependencyFrame
    <3> QED
      BY <2>1, <2>4, <3>1, <3>2, <1>CallInv DEF Call, MustFlushFirst
  <2>5. \/ stack' = Tail(stack)
        \/ UNCHANGED stack
        \/ MustFlushFirst(Top.c) /\ Call(DependencyFrame(Top.c))
    BY DEF EntryFlush, Return, Continue
  <2> QED
    BY <2>2, <2>3, <2>4, <2>5
\* c->depends is set when neither cache depends on anything else.
<1>SetDependencyInv. CASE SetDependency
  <2> USE <1>SetDependencyInv
  <2>1. stack # <<>> /\ Top.f = "set" /\ OneDeep /\ StackShape(T)
    BY DEF SetDependency, In, CallsInv
  <2>2. Top.c \in Caches /\ Top.d \in Caches /\ Top.c # Top.d /\ Len(stack) = 1
    BY <2>1, TopFrame
  <2> DEFINE owed == Owed(Top.c, Top.d)
  <2>3. CASE owed # Null
    <3>1. owed \in Caches /\ depends[owed] # Null
      BY <2>2, <2>3 DEF Owed
    <3>2. stack' = <<DependencyFrame(owed)>> \o stack /\ UNCHANGED depends
      BY <2>3 DEF SetDependency, Call
    <3> HIDE DEF owed
    <3>3. /\ DependencyFrame(owed) \in Frames(T) /\ Calls(Top, DependencyFrame(owed))
          /\ DependencyFrame(owed).f = "dependency" /\ DependencyFrame(owed).c = owed
      BY <2>1, <3>1 DEF DependencyFrame, Frames, DependencyFrames, Calls
    <3> QED
      BY <2>1, <3>1, <3>2, <3>3, <1>CallInv
  <2>4. CASE owed = Null
    <3>1. depends' = [depends EXCEPT ![Top.c] = Top.d] /\ stack' = Tail(stack)
      BY <2>4 DEF SetDependency, Return
    <3>2. Null \notin Caches /\ depends[Top.d] = Null
      BY <2>2, <2>4, Qcow2Assumption DEF Owed
    <3>3. \A c \in Caches : c = Top.c \/ c = Top.d
      BY <2>2 DEF Caches
    <3>4. OneDeep'
      BY <2>1, <2>2, <3>1, <3>2, <3>3 DEF OneDeep
    <3>5. StackShape(T)'
      BY <2>1, <2>2, <3>1, PopShape, SMT
    <3> QED
      BY <2>1, <3>4, <3>5 DEF CallsInv, LockHeld
  <2> QED
    BY <2>3, <2>4
\* qcow2_cache_do_get writes an entry back, to read the table into it.
<1>CacheGetInv. CASE CacheGet
  <2> USE <1>CacheGetInv
  <2>1. stack # <<>> /\ Top.f = "get" /\ UNCHANGED depends
    BY DEF CacheGet, In
  <2>2. Top \in GetFrames(T)
    BY <2>1, TopFrame DEF CallsInv
  <2>3. CASE stack' = Tail(stack)
    BY <2>1, <2>3, ReturnInv
  <2>4. ASSUME NEW i \in Int, CallFrom([Top EXCEPT !.i = i], EntryFrame(Top.c, i))
        PROVE  CallsInv(T)'
    <3> DEFINE top == [Top EXCEPT !.i = i]
    <3> DEFINE mid == <<top>> \o Tail(stack)
    <3> DEFINE fr == EntryFrame(Top.c, i)
    <3>1. top \in Frames(T) /\ top.f = "get" /\ top.c = Top.c
      BY <2>1, <2>2 DEF GetFrames, Frames
    <3>2. fr \in Frames(T) /\ fr.f = "entry" /\ fr.c = Top.c
      BY <2>2 DEF EntryFrame, EntryFrames, Frames, GetFrames
    <3>3. stack' = <<fr, top>> \o Tail(stack)
      BY <2>4 DEF CallFrom
    <3> HIDE DEF top, fr
    <3>4. /\ stack \in Seq(Frames(T)) /\ Len(stack) \in Nat /\ Len(stack) >= 1 /\ Top = stack[1]
          /\ Tail(stack) \in Seq(Frames(T)) /\ Len(Tail(stack)) = Len(stack) - 1
          /\ \A j \in 1 .. Len(stack) - 1 : Tail(stack)[j] = stack[j + 1]
      BY <2>1, TopFrame, TailShifts, SMT DEF CallsInv, StackShape
    <3>5. <<fr, top>> \in Seq(Frames(T)) /\ Len(<<fr, top>>) = 2
      BY <3>1, <3>2, SMT
    <3>6. /\ stack' \in Seq(Frames(T)) /\ Len(stack') = Len(stack) + 1
          /\ stack'[1] = fr /\ stack'[2] = top
          /\ \A j \in 3 .. Len(stack) + 1 : stack'[j] = Tail(stack)[j - 2]
      BY <3>3, <3>4, <3>5, Joins, SMT
    <3>7. \A j \in 3 .. Len(stack) + 1 : stack'[j] = stack[j - 1]
      <4> TAKE j \in 3 .. Len(stack) + 1
      <4>1. j - 2 \in 1 .. Len(stack) - 1 /\ (j - 2) + 1 = j - 1
        BY <3>4, SMT
      <4> QED
        BY <3>4, <3>6, <4>1
    <3>8. Len(stack) = 1
      <4>1. Len(stack) > 1 => Calls(stack[1 + 1], stack[1])
        BY <3>4, SMT DEF CallsInv, StackShape
      <4>2. ~(Len(stack) > 1)
        BY <2>1, <3>4, <4>1, CalleeNotGet
      <4> QED
        BY <3>4, <4>2, SMT
    <3>9. Calls(stack[1 + 1], stack[1])'
      BY <3>1, <3>2, <3>6, SMT DEF Calls
    <3>10. StackShape(T)'
      <4>1. \A j \in 1 .. Len(stack') : j = 1 \/ j = 2
        BY <3>6, <3>8, SMT
      <4> QED
        BY <3>1, <3>2, <3>6, <3>8, <3>9, <4>1, SMT DEF StackShape
    <3> QED
      BY <2>1, <3>10 DEF CallsInv, OneDeep, LockHeld
  <2> QED
    <3>1. Size[Top.c] \in Int
      BY <2>2, Qcow2Assumption, SMT DEF GetFrames
    <3>2. \A i \in 1 .. Size[Top.c] : i \in Int
      BY <3>1, SMT
    <3>3. stack' = Tail(stack) \/ \E i \in 1 .. Size[Top.c] :
                                   CallFrom([Top EXCEPT !.i = i], EntryFrame(Top.c, i))
      BY DEF CacheGet, Return
    <3> QED
      BY <2>3, <2>4, <3>2, <3>3
<1>1. CASE CacheRead
  BY <1>1, ReturnInv DEF CacheRead, In, Return
<1> QED
  BY <1>1, <1>UnwindInv, <1>FlushNextInv, <1>FlushEndInv, <1>FlushDependencyInv, <1>EntryFlushInv, <1>SetDependencyInv, <1>CacheGetInv DEF CacheStep

-----------------------------------------------------------------------------
(* The requests.                                                           *)

LEMMA CachesDiffer == l2 \in Caches /\ refcount \in Caches /\ l2 # refcount
  BY Qcow2Assumption DEF Caches

LEMMA ReopenInv ==
  ASSUME NEW image, NEW kept, Reopen(image, kept)
  PROVE  \E T : CallsInv(T)'
<1>1. stack' = <<>> /\ depends' = NoDependencies
  BY DEF Reopen
<1>2. CallsInv({})'
  BY <1>1, SMT DEF CallsInv, OneDeep, StackShape, LockHeld, NoDependencies
<1> QED
  BY <1>2

\* A step of a request makes a call or none, while none is in progress.
LEMMA RequestInv ==
  ASSUME NEW T, CallsInv(T), NEW r \in Reqs, RequestStep(r)
  PROVE  \E U : CallsInv(U)'
<1>NoCallInv. ASSUME stack = <<>>, UNCHANGED <<depends, stack>> PROVE CallsInv(T)'
  BY <1>NoCallInv, SMT DEF CallsInv, OneDeep, StackShape, LockHeld, Calls
\* A call by a request, which has or takes s->lock while no call is in progress.
<1>FirstCallInv.
       ASSUME OneDeep, stack = <<>>, UNCHANGED depends, holder' # Null, NEW F, NEW fr \in Frames(F), Call(fr),
              fr.f \in {"flush", "get", "set"}, fr.f = "set" => fr.c # fr.d
       PROVE  CallsInv(F)'
  <2> USE <1>FirstCallInv
  <2>1. StackShape(F)
    BY SMT DEF StackShape
  <2>2. StackShape(F)'
    BY <2>1, PushShape DEF Call
  <2> QED
    BY <2>2 DEF CallsInv, OneDeep, LockHeld
<1>GetCallInv.
       ASSUME OneDeep, stack = <<>>, UNCHANGED depends, holder' # Null, NEW c \in Caches, NEW t,
              Call(GetFrame(c, t))
       PROVE  \E U : CallsInv(U)'
  <2> USE <1>GetCallInv
  <2>1. GetFrame(c, t) \in Frames({t}) /\ GetFrame(c, t).f = "get"
    <3>1. GetFrame(c, t) \in GetFrames({t}) /\ GetFrame(c, t).f = "get"
      BY SMT DEF GetFrame, GetFrames
    <3> QED
      BY <3>1 DEF Frames
  <2>2. CallsInv({t})'
    BY <2>1, <1>FirstCallInv
  <2> QED
    BY <2>2
<1>FlushCallInv. ASSUME OneDeep, stack = <<>>, UNCHANGED depends, holder' # Null, NEW c \in Caches, Call(FlushFrame(c))
       PROVE  \E U : CallsInv(U)'
  <2> USE <1>FlushCallInv
  <2>1. FlushFrame(c) \in Frames({}) /\ FlushFrame(c).f = "flush"
    BY SMT DEF FlushFrame, FlushFrames, Frames, Results
  <2>2. CallsInv({})'
    BY <2>1, <1>FirstCallInv
  <2> QED
    BY <2>2
<1>SetCallInv.
       ASSUME OneDeep, stack = <<>>, UNCHANGED depends, holder' # Null, NEW c \in Caches, NEW d \in Caches,
              c # d, Call(SetFrame(c, d))
       PROVE  \E U : CallsInv(U)'
  <2> USE <1>SetCallInv
  <2>1. /\ SetFrame(c, d) \in Frames({}) /\ SetFrame(c, d).f = "set"
        /\ SetFrame(c, d).c # SetFrame(c, d).d
    BY DEF SetFrame, SetFrames, Frames
  <2>2. CallsInv({})'
    BY <2>1, <1>FirstCallInv
  <2> QED
    BY <2>2
<1> USE DEF cacheVars
<1>1. OneDeep /\ (holder = Null => stack = <<>>) /\ r # Null
  BY ReqsAssumption DEF CallsInv, LockHeld
<1>2. CASE \E s \in Slots : WriteBegin(r, s) \/ DiscardBegin(r, s)
  BY <1>1, <1>2, CachesDiffer, <1>GetCallInv DEF WriteBegin, DiscardBegin, LockAndCall, GetL2
<1>3. CASE WriteLookup(r) \/ WriteAllocate(r) \/ FlushReturns(r) \/ Drop(r)
  <2>1. stack = <<>> /\ UNCHANGED <<depends, stack>>
    BY <1>3 DEF WriteLookup, WriteAllocate, FlushReturns, Drop, At, Finish, GoOn, Unlock, Continue
  <2> QED
    BY <2>1, <1>NoCallInv
<1>4. CASE WriteData(r) \/ WriteCow(r)
  <2>1. stack = <<>> /\ UNCHANGED <<depends, stack>>
    BY <1>1, <1>4 DEF WriteData, WriteCow, Finish, GoOn, Unlock, Continue
  <2> QED
    BY <2>1, <1>NoCallInv
<1>5. CASE WritePick(r)
  <2>1. CASE Finish(r)
    BY <1>5, <2>1, <1>NoCallInv DEF WritePick, At, Finish, Unlock, Continue
  <2>2. CASE \E k \in Clusters : ThenCall(GetRefcount(k))
    BY <1>1, <1>5, <2>2, CachesDiffer, <1>GetCallInv DEF WritePick, At, ThenCall, GetRefcount
  <2> QED
    BY <1>5, <2>1, <2>2 DEF WritePick
<1>6. CASE WriteMark(r)
  <2>1. stack = <<>> /\ holder' # Null /\ UNCHANGED depends
    BY <1>1, <1>6 DEF WriteMark, At, ThenCall
  <2>2. Call(GetL2(req[r].slot)) \/ Call(SetFrame(l2, refcount))
    BY <1>6 DEF WriteMark, ThenCall
  <2> QED
    BY <1>1, <2>1, <2>2, CachesDiffer, <1>GetCallInv, <1>SetCallInv DEF GetL2
<1>7. CASE WriteLink(r) \/ Free(r)
  <2>1. stack = <<>> /\ holder' # Null /\ UNCHANGED depends
    BY <1>1, <1>7 DEF WriteLink, Free, At, ThenCall
  <2>2. Call(GetL2(req[r].slot)) \/ Call(GetRefcount(req[r].cluster))
    BY <1>7 DEF WriteLink, Free, ThenCall
  <2> QED
    BY <1>1, <2>1, <2>2, CachesDiffer, <1>GetCallInv DEF GetL2, GetRefcount
<1>8. CASE WriteUpdate(r) \/ Discard(r)
  <2>1. stack = <<>> /\ holder = r /\ UNCHANGED depends
    BY <1>8 DEF WriteUpdate, Discard, At
  <2>2. Finish(r) \/ ThenCall(SetFrame(refcount, l2))
    BY <1>8 DEF WriteUpdate, Discard
  <2>3. CASE Finish(r)
    BY <2>1, <2>3, <1>NoCallInv DEF Finish, Unlock, Continue
  <2>4. CASE ThenCall(SetFrame(refcount, l2))
    BY <1>1, <2>1, <2>4, CachesDiffer, <1>SetCallInv DEF ThenCall
  <2> QED
    BY <2>2, <2>3, <2>4
<1>9. CASE FlushBegin(r) \/ CloseBegin(r)
  BY <1>1, <1>9, CachesDiffer, <1>FlushCallInv DEF FlushBegin, CloseBegin, LockAndCall
<1>10. CASE FlushRefcounts(r)
  <2>1. CASE Finish(r)
    BY <1>10, <2>1, <1>NoCallInv DEF FlushRefcounts, At, Finish, Unlock, Continue
  <2>2. CASE ThenCall(FlushFrame(refcount))
    BY <1>1, <1>10, <2>2, CachesDiffer, <1>FlushCallInv DEF FlushRefcounts, At, ThenCall
  <2> QED
    BY <1>10, <2>1, <2>2 DEF FlushRefcounts
<1>11. CASE CloseRefcounts(r) \/ CloseMarkClean(r) \/ CloseCleanRefcounts(r)
  <2>1. stack = <<>> /\ holder' # Null /\ UNCHANGED depends
    BY <1>1, <1>11 DEF CloseRefcounts, CloseMarkClean, CloseCleanRefcounts, At, ThenCall
  <2>2. Call(FlushFrame(l2)) \/ Call(FlushFrame(refcount))
    BY <1>11 DEF CloseRefcounts, CloseMarkClean, CloseCleanRefcounts, ThenCall
  <2> QED
    BY <1>1, <2>1, <2>2, CachesDiffer, <1>FlushCallInv
<1>12. CASE CloseUpdateHeader(r)
  BY <1>12, <1>NoCallInv DEF CloseUpdateHeader, At, GoOn, Continue
<1>13. CASE CloseEnd(r)
  BY <1>13, ReopenInv DEF CloseEnd
<1> QED
  BY <1>2, <1>3, <1>4, <1>5, <1>6, <1>7, <1>8, <1>9, <1>10, <1>11, <1>12, <1>13 DEF RequestStep

\* The dependencies of the caches of a qcow2 image have no loop, and settling one does
\* not come back to it, however large the caches and whatever requests, failing calls
\* and crashes there are.
THEOREM DependenciesEnd == Spec => []NoDependencyLoop
<1> DEFINE Inv == \E T : CallsInv(T)
<1>1. Init => Inv
  BY InitInv
<1>2. Inv /\ [Next]_vars => Inv'
  <2> SUFFICES ASSUME NEW T, CallsInv(T), [Next]_vars PROVE \E U : CallsInv(U)'
    OBVIOUS
  <2>1. CASE CacheStep /\ UNCHANGED reqVars
    BY <2>1, CacheStepInv DEF reqVars
  <2>2. CASE \E r \in Reqs : RequestStep(r)
    BY <2>2, RequestInv
  <2>3. CASE Crash
    BY <2>3, ReopenInv DEF Crash
  <2>4. CASE UNCHANGED vars
    <3>1. UNCHANGED <<depends, stack, holder>>
      BY <2>4 DEF vars, cacheVars, callVars, reqVars
    <3>2. CallsInv(T)'
      BY <3>1, ZenonT(60) DEF CallsInv, OneDeep, StackShape, LockHeld, Calls
    <3> QED
      BY <3>2
  <2> QED
    BY <2>1, <2>2, <2>3, <2>4 DEF Next
<1>3. Inv => NoDependencyLoop
  BY InvImplies
<1> QED
  BY <1>1, <1>2, <1>3, PTL DEF Spec

-----------------------------------------------------------------------------
(* The tables in the caches and in the image file.                         *)

\* What a location may hold.
Values(x) ==
  IF x \in Slots THEN Clusters \cup {Null} ELSE IF x \in Clusters THEN Nat ELSE BOOLEAN
Contents == Clusters \cup {Null} \cup Nat \cup BOOLEAN
Entry == [offset : Tables(l2) \cup Tables(refcount) \cup {Null}, dirty : BOOLEAN, ref : Int]

Shaped(es) ==
  /\ es \in [Caches -> UNION {[1 .. Size[c] -> Entry] : c \in Caches}]
  /\ \A c \in Caches : /\ es[c] \in [1 .. Size[c] -> Entry]
                       /\ \A i \in 1 .. Size[c] : es[c][i].offset \in Tables(c) \cup {Null}

\* The table of a location is cached; what reading it gives.
Cached(x) == \E i \in 1 .. Size[CacheOf(x)] : entries[CacheOf(x)][i].offset = HomeOf[x]
Val(x) == IF Cached(x) THEN mem[x] ELSE disk[x]

FileTyped ==
  /\ disk \in [Locations -> Contents] /\ mem \in [Locations -> Contents]
  /\ poss \in [Locations -> SUBSET Contents]
  /\ \A x \in Locations : disk[x] \in poss[x] /\ poss[x] \subseteq Values(x)
  /\ \A x \in Tabled : Cached(x) => mem[x] \in Values(x)

\* A table is cached once, and is the one of the image file unless its entry is dirty.
Coherent ==
  \A c \in Caches : \A i \in 1 .. Size[c] :
    /\ entries[c][i].offset = Null => ~entries[c][i].dirty
    /\ ~entries[c][i].dirty => \A x \in InTable(entries[c][i].offset) : mem[x] = disk[x]
    /\ \A j \in 1 .. Size[c] :
         entries[c][i].offset = entries[c][j].offset /\ i # j => entries[c][i].offset = Null

CacheOK == Shaped(entries) /\ FileTyped /\ Coherent

Clean(c) == \A i \in 1 .. Size[c] : ~entries[c][i].dirty

-----------------------------------------------------------------------------
\* A location is in one table of one cache.
LEMMA Places ==
  /\ \A x \in Tabled : /\ x \in Locations /\ x # header /\ CacheOf(x) \in Caches
                       /\ HomeOf[x] \in Tables(CacheOf(x)) /\ HomeOf[x] # Null
  /\ \A c \in Caches : \A t \in Tables(c) : \A x \in InTable(t) : x \in Tabled /\ CacheOf(x) = c
  /\ InTable(Null) = {}
  /\ header \in Locations
  /\ \A c \in Caches : Size[c] \in Nat /\ Size[c] >= 1
<1>1. \A x \in Tabled : /\ x \in Locations /\ x # header /\ CacheOf(x) \in Caches
                       /\ HomeOf[x] \in Tables(CacheOf(x)) /\ HomeOf[x] # Null
  <2> TAKE x \in Tabled
  <2>1. x \in Locations /\ x # header /\ CacheOf(x) \in Caches
    BY Qcow2Assumption DEF Locations, CacheOf, Caches
  <2>2. HomeOf[x] \in Tables(CacheOf(x))
    BY DEF Tables
  <2>3. Null \notin Tables(CacheOf(x))
    BY <2>1, Qcow2Assumption DEF Caches
  <2> QED
    BY <2>1, <2>2, <2>3
<1>2. ASSUME NEW c \in Caches, NEW t \in Tables(c), NEW x \in InTable(t)
      PROVE  x \in Tabled /\ CacheOf(x) = c
  <2>1. x \in Tabled /\ HomeOf[x] = t
    BY DEF InTable
  <2>2. t \in Tables(CacheOf(x)) /\ CacheOf(x) \in Caches
    BY <1>1, <2>1
  <2>3. Tables(l2) \cap Tables(refcount) = {}
    BY Qcow2Assumption
  <2> QED
    BY <2>1, <2>2, <2>3 DEF Caches
<1>3. InTable(Null) = {}
  BY <1>1 DEF InTable
<1>4. header \in Locations /\ \A c \in Caches : Size[c] \in Nat /\ Size[c] >= 1
  BY Qcow2Assumption, SMT DEF Locations
<1> QED
  BY <1>1, <1>2, <1>3, <1>4

\* An entry is replaced.
Replaced(es, c, i, e) == [es EXCEPT ![c][i] = e]
OneChanged(es, new, c, i, e) ==
  \A d \in Caches : \A j \in 1 .. Size[d] :
    new[d][j] = IF d = c /\ j = i THEN e ELSE es[d][j]

LEMMA Changed ==
  ASSUME NEW es, Shaped(es), NEW c \in Caches, NEW i \in 1 .. Size[c],
         NEW e \in Entry, e.offset \in Tables(c) \cup {Null},
         NEW new, new = Replaced(es, c, i, e)
  PROVE  Shaped(new) /\ OneChanged(es, new, c, i, e)
<1> DEFINE U == UNION {[1 .. Size[d] -> Entry] : d \in Caches}
<1> DEFINE row == [es[c] EXCEPT ![i] = e]
<1>1. es \in [Caches -> U] /\ es[c] \in [1 .. Size[c] -> Entry]
  BY DEF Shaped
<1>2. row \in [1 .. Size[c] -> Entry] /\ \A j \in 1 .. Size[c] : row[j] = IF j = i THEN e ELSE es[c][j]
  BY <1>1
<1>3. new = [es EXCEPT ![c] = row]
  BY DEF Replaced
<1>4. row \in U
  BY <1>2
<1> HIDE DEF U, row
<1>5. new \in [Caches -> U] /\ \A d \in Caches : new[d] = IF d = c THEN row ELSE es[d]
  BY <1>1, <1>3, <1>4
<1>6. \A d \in Caches : \A j \in 1 .. Size[d] : new[d][j] = IF d = c /\ j = i THEN e ELSE es[d][j]
  BY <1>2, <1>5
<1>7. \A d \in Caches : new[d] \in [1 .. Size[d] -> Entry]
  BY <1>2, <1>5 DEF Shaped
<1>8. \A d \in Caches : \A j \in 1 .. Size[d] : new[d][j].offset \in Tables(d) \cup {Null}
  BY <1>6 DEF Shaped
<1> QED
  BY <1>5, <1>6, <1>7, <1>8 DEF Shaped, OneChanged, U

\* The reference counts of entries change at most.
SameTables(es, new) ==
  \A c \in Caches : \A i \in 1 .. Size[c] :
    new[c][i].offset = es[c][i].offset /\ new[c][i].dirty = es[c][i].dirty

LEMMA PutKeeps ==
  ASSUME NEW es, Shaped(es), NEW x \in Tabled
  PROVE  Shaped(Put(es, x)) /\ SameTables(es, Put(es, x))
<1> DEFINE c == CacheOf(x)
<1> DEFINE i == EntryOf(x)
<1>1. c \in Caches
  BY Places
<1>2. CASE i \in 1 .. Size[c]
  <2> DEFINE e == [es[c][i] EXCEPT !.ref = @ - 1]
  <2>1. es[c][i] \in Entry /\ es[c][i].offset \in Tables(c) \cup {Null}
    BY <1>1, <1>2 DEF Shaped
  <2>2. es[c][i].ref - 1 \in Int
    BY <2>1, SMT DEF Entry
  <2>3. /\ e \in Entry /\ e.offset = es[c][i].offset /\ e.dirty = es[c][i].dirty
        /\ e.offset \in Tables(c) \cup {Null}
    BY <2>1, <2>2 DEF Entry
  <2>4. Put(es, x) = Replaced(es, c, i, e)
    BY DEF Put, Replaced
  <2> HIDE DEF e, c, i
  <2>5. Shaped(Put(es, x))
    BY <1>1, <1>2, <2>3, <2>4, Changed
  <2>6. OneChanged(es, Put(es, x), c, i, e)
    BY <1>1, <1>2, <2>3, <2>4, Changed
  <2> QED
    BY <2>3, <2>5, <2>6 DEF SameTables, OneChanged
<1>3. CASE i \notin 1 .. Size[c]
  <2> DEFINE row == [es[c] EXCEPT ![i].ref = @ - 1]
  <2>1. es[c] \in [1 .. Size[c] -> Entry] /\ es \in [Caches -> UNION {[1 .. Size[d] -> Entry] : d \in Caches}]
    BY <1>1 DEF Shaped
  <2>2. row = es[c]
    <3> HIDE DEF i
    <3> QED
      BY <1>3, <2>1
  <2>3. Put(es, x) = [es EXCEPT ![c] = row]
    BY DEF Put
  <2>4. Put(es, x) = es
    <3> HIDE DEF c, i, row
    <3> QED
      BY <1>1, <2>1, <2>2, <2>3, SMT
  <2> QED
    BY <2>4 DEF SameTables
<1> QED
  BY <1>2, <1>3

\* The entry of a cached location.
LEMMA Located ==
  ASSUME NEW x \in Tabled, Cached(x)
  PROVE  /\ EntryOf(x) \in 1 .. Size[CacheOf(x)]
         /\ entries[CacheOf(x)][EntryOf(x)].offset = HomeOf[x]
  BY DEF Cached, EntryOf, Holding

\* Marking an entry dirty.
DirtyOnly(x, new) ==
  \A c \in Caches : \A i \in 1 .. Size[c] :
    /\ new[c][i].offset = entries[c][i].offset
    /\ new[c][i].dirty <=> entries[c][i].dirty \/ (c = CacheOf(x) /\ i = EntryOf(x))

LEMMA DirtiedOne ==
  ASSUME Shaped(entries), NEW x \in Tabled, Cached(x)
  PROVE  Shaped(Dirtied(x)) /\ DirtyOnly(x, Dirtied(x))
<1> DEFINE c == CacheOf(x)
<1> DEFINE i == EntryOf(x)
<1> DEFINE e == [entries[c][i] EXCEPT !.dirty = TRUE]
<1>1. c \in Caches /\ i \in 1 .. Size[c]
  BY Places, Located
<1>2. entries[c][i] \in Entry /\ entries[c][i].offset \in Tables(c) \cup {Null}
  BY <1>1 DEF Shaped
<1>3. /\ e \in Entry /\ e.offset = entries[c][i].offset /\ e.dirty
      /\ e.offset \in Tables(c) \cup {Null}
  BY <1>2 DEF Entry
<1>4. Dirtied(x) = Replaced(entries, c, i, e)
  BY DEF Dirtied, Replaced
<1> HIDE DEF e, c, i
<1>5. Shaped(Dirtied(x)) /\ OneChanged(entries, Dirtied(x), c, i, e)
  BY <1>1, <1>3, <1>4, Changed
<1>6. \A d \in Caches : \A j \in 1 .. Size[d] :
        /\ Dirtied(x)[d][j].offset = entries[d][j].offset
        /\ Dirtied(x)[d][j].dirty <=> entries[d][j].dirty \/ (d = c /\ j = i)
  BY <1>3, <1>5 DEF OneChanged
<1> QED
  BY <1>5, <1>6 DEF DirtyOnly, c, i

\* The tables stay as they are, in the caches and in the image file.
LEMMA SameOK ==
  ASSUME CacheOK, Shaped(entries'), SameTables(entries, entries'), UNCHANGED mem,
         disk' \in [Locations -> Contents], \A x \in Tabled : disk'[x] = disk[x],
         poss' \in [Locations -> SUBSET Contents],
         \A x \in Locations : disk'[x] \in poss'[x] /\ poss'[x] \subseteq Values(x)
  PROVE  /\ CacheOK'
         /\ \A x \in Tabled : (Cached(x)' <=> Cached(x)) /\ Val(x)' = Val(x)
<1>1. \A x \in Tabled : Cached(x)' <=> Cached(x)
  BY Places DEF Cached, SameTables
<1>2. \A x \in Tabled : Val(x)' = Val(x)
  BY <1>1 DEF Val
<1>3. FileTyped'
  BY <1>1 DEF CacheOK, FileTyped
<1>4. \A t : \A x \in InTable(t) : x \in Tabled
  BY DEF InTable
<1>5. Coherent'
  <2> SUFFICES ASSUME NEW c \in Caches, NEW i \in 1 .. Size[c]
               PROVE  /\ entries'[c][i].offset = Null => ~entries'[c][i].dirty
                      /\ ~entries'[c][i].dirty =>
                           \A x \in InTable(entries'[c][i].offset) : mem'[x] = disk'[x]
                      /\ \A j \in 1 .. Size[c] :
                           entries'[c][i].offset = entries'[c][j].offset /\ i # j
                             => entries'[c][i].offset = Null
    BY DEF Coherent
  <2>1. /\ entries'[c][i].offset = entries[c][i].offset /\ entries'[c][i].dirty = entries[c][i].dirty
        /\ \A j \in 1 .. Size[c] : entries'[c][j].offset = entries[c][j].offset
    BY DEF SameTables
  <2>2. ~entries[c][i].dirty => \A x \in InTable(entries[c][i].offset) : mem'[x] = disk'[x]
    BY <1>4 DEF CacheOK, Coherent
  <2>3. entries'[c][i].offset = Null => ~entries'[c][i].dirty
    BY <2>1 DEF CacheOK, Coherent
  <2>4. \A j \in 1 .. Size[c] : entries'[c][i].offset = entries'[c][j].offset /\ i # j => entries'[c][i].offset = Null
    BY <2>1 DEF CacheOK, Coherent
  <2> QED
    BY <2>1, <2>2, <2>3, <2>4
<1> QED
  BY <1>1, <1>2, <1>3, <1>5 DEF CacheOK

\* A location of a cached table is given a value, and its entry marked dirty.
LEMMA TouchOK ==
  ASSUME CacheOK, NEW x \in Tabled, Cached(x), NEW v \in Values(x),
         Shaped(entries'), DirtyOnly(x, entries'),
         mem' = [mem EXCEPT ![x] = v], UNCHANGED <<disk, poss>>
  PROVE  /\ CacheOK'
         /\ \A y \in Tabled : /\ Cached(y)' <=> Cached(y)
                              /\ Val(y)' = IF y = x THEN v ELSE Val(y)
<1>1. \A y \in Tabled : Cached(y)' <=> Cached(y)
  BY Places DEF Cached, DirtyOnly
<1>2. v \in Contents /\ mem \in [Locations -> Contents] /\ x \in Locations
  BY Places DEF Values, Contents, CacheOK, FileTyped
<1>3. mem' \in [Locations -> Contents] /\ \A y \in Locations : mem'[y] = IF y = x THEN v ELSE mem[y]
  BY <1>2
<1>4. \A y \in Tabled : Val(y)' = IF y = x THEN v ELSE Val(y)
  BY <1>1, <1>3, Places DEF Val
<1>5. FileTyped'
  BY <1>1, <1>3, Places DEF CacheOK, FileTyped
<1>6. ASSUME NEW c \in Caches, NEW i \in 1 .. Size[c], ~entries'[c][i].dirty,
             NEW y \in InTable(entries'[c][i].offset)
      PROVE  mem'[y] = disk'[y]
  <2>1. /\ entries'[c][i].offset = entries[c][i].offset /\ ~entries[c][i].dirty
        /\ ~(c = CacheOf(x) /\ i = EntryOf(x))
    BY <1>6 DEF DirtyOnly
  <2>2. y \in Tabled /\ HomeOf[y] = entries[c][i].offset
    BY <1>6, <2>1 DEF InTable
  <2>3. mem[y] = disk[y]
    BY <1>6, <2>1 DEF CacheOK, Coherent
  <2>4. y # x
    <3> SUFFICES ASSUME y = x PROVE FALSE
      OBVIOUS
    <3>1. entries[c][i].offset \in Tables(c) \cup {Null} /\ entries[c][i].offset # Null
      BY <2>2, Places DEF CacheOK, Shaped
    <3>2. CacheOf(x) = c
      BY <1>6, <2>1, <3>1, Places
    <3>3. i = EntryOf(x)
      BY <2>2, <3>1, <3>2, Located DEF CacheOK, Coherent
    <3> QED
      BY <2>1, <3>2, <3>3
  <2> QED
    BY <1>3, <2>2, <2>3, <2>4, Places
<1>7. ASSUME NEW c \in Caches, NEW i \in 1 .. Size[c], entries'[c][i].offset = Null
      PROVE  ~entries'[c][i].dirty
  <2>1. entries[c][i].offset = Null /\ ~entries[c][i].dirty
    BY <1>7 DEF CacheOK, Coherent, DirtyOnly
  <2>2. entries[CacheOf(x)][EntryOf(x)].offset # Null
    BY Located, Places
  <2> QED
    BY <2>1, <2>2 DEF DirtyOnly
<1>8. ASSUME NEW c \in Caches, NEW i \in 1 .. Size[c], NEW j \in 1 .. Size[c],
             entries'[c][i].offset = entries'[c][j].offset, i # j
      PROVE  entries'[c][i].offset = Null
  <2>1. entries'[c][i].offset = entries[c][i].offset /\ entries'[c][j].offset = entries[c][j].offset
    BY DEF DirtyOnly
  <2> QED
    BY <1>8, <2>1 DEF CacheOK, Coherent
<1>9. Coherent'
  BY <1>6, <1>7, <1>8 DEF Coherent
<1> QED
  BY <1>1, <1>4, <1>5, <1>9 DEF CacheOK

\* What may be on the disk changes by the tables of one cache that are written.
Grows(c) ==
  /\ poss'[header] = poss[header]
  /\ \A x \in Tabled : \/ poss'[x] = poss[x]
                       \/ CacheOf(x) = c /\ poss'[x] = poss[x] \cup {Val(x)}

\* One entry may have got clean.
OnlyCleans(c, i) ==
  \A d \in Caches : \A j \in 1 .. Size[d] :
    /\ entries'[d][j].offset = entries[d][j].offset
    /\ entries'[d][j].dirty = entries[d][j].dirty \/ (d = c /\ j = i)

HoldsClean(e, t) == e.offset = t /\ ~e.dirty

\* What the proofs use about the cardinality of finite sets (proved at the end).
Counting ==
  /\ Cardinality({}) = 0
  /\ \A S : IsFiniteSet(S) => Cardinality(S) \in Nat /\ (Cardinality(S) = 0 => S = {})
  /\ \A S : \A T \in SUBSET S :
       IsFiniteSet(S) => IsFiniteSet(T) /\ Cardinality(T) <= Cardinality(S)
  /\ \A S, x : IsFiniteSet(S) /\ x \in S => Cardinality(S \ {x}) = Cardinality(S) - 1

\* What qcow2_check writes.
LEMMA ConsistentImage ==
  ASSUME Counting, NEW im, \A s \in Slots : im[s] \in Values(s)
  PROVE  /\ Consistent(im) \in [Locations -> Contents]
         /\ \A x \in Locations : Consistent(im)[x] \in Values(x)
         /\ \A s \in Slots : Consistent(im)[s] = im[s]
         /\ \A k \in Clusters : Consistent(im)[k] = Cardinality({s \in Slots : im[s] = k}) + Shared(k)
         /\ Consistent(im)[header] = FALSE
<1> DEFINE new == Consistent(im)
<1> DEFINE n(k) == Cardinality({s \in Slots : im[s] = k}) + Shared(k)
<1>1. \A k : n(k) \in Nat
  <2> TAKE k
  <2>1. {s \in Slots : im[s] = k} \in SUBSET Slots /\ IsFiniteSet(Slots)
    BY Qcow2Assumption
  <2>2. Cardinality({s \in Slots : im[s] = k}) \in Nat
    BY <2>1 DEF Counting
  <2> QED
    BY <2>2, SMT DEF Shared
<1>2. new = [x \in Locations |-> IF x \in Slots THEN im[x] ELSE IF x \in Clusters THEN n(x) ELSE FALSE]
  BY DEF Consistent
<1>3. /\ Slots \cap Clusters = {} /\ header \notin Slots /\ header \notin Clusters
      /\ \A x \in Locations : x \in Slots \/ x \in Clusters \/ x = header
      /\ Slots \subseteq Locations /\ Clusters \subseteq Locations /\ header \in Locations
  BY Qcow2Assumption DEF Locations, Tabled
<1> HIDE DEF n, new
<1>4. /\ \A s \in Slots : new[s] = im[s] /\ im[s] \in Values(s)
      /\ \A k \in Clusters : new[k] = n(k) /\ n(k) \in Values(k)
      /\ new[header] = FALSE /\ FALSE \in Values(header)
  BY <1>1, <1>2, <1>3 DEF Values
<1>5. \A x \in Locations : new[x] \in Values(x)
  BY <1>3, <1>4
<1>6. \A x \in Locations : Values(x) \subseteq Contents
  BY DEF Values, Contents
<1>7. new \in [Locations -> Contents]
  BY <1>2, <1>5, <1>6
<1> QED
  BY <1>4, <1>5, <1>7 DEF new, n

\* The image has been opened.
Opened ==
  /\ entries = Empty /\ mem = NotCached /\ disk \in [Locations -> Contents]
  /\ poss \in [Locations -> SUBSET Contents]
  /\ \A x \in Locations : disk[x] \in poss[x] /\ poss[x] \subseteq Values(x)

AsOnDisk == CacheOK /\ \A x \in Tabled : ~Cached(x) /\ Val(x) = disk[x]

LEMMA OpenedOK == Opened => AsOnDisk
\* Nothing is cached.
<1>NothingCached. /\ Shaped(Empty) /\ NotCached \in [Locations -> Contents]
  /\ \A c \in Caches : \A i \in 1 .. Size[c] : Empty[c][i].offset = Null /\ ~Empty[c][i].dirty
  <2>1. NoEntry \in Entry /\ NoEntry.offset = Null /\ ~NoEntry.dirty
    BY SMT DEF NoEntry, Entry
  <2>2. \A c \in Caches : /\ Empty[c] = [i \in 1 .. Size[c] |-> NoEntry]
                          /\ Empty[c] \in [1 .. Size[c] -> Entry]
    BY <2>1 DEF Empty
  <2>3. \A c \in Caches : \A i \in 1 .. Size[c] : Empty[c][i] = NoEntry
    BY <2>2
  <2>4. Empty \in [Caches -> UNION {[1 .. Size[c] -> Entry] : c \in Caches}]
    <3>1. \A c \in Caches : [i \in 1 .. Size[c] |-> NoEntry] \in UNION {[1 .. Size[d] -> Entry] : d \in Caches}
      <4> TAKE c \in Caches
      <4>1. [1 .. Size[c] -> Entry] \in {[1 .. Size[d] -> Entry] : d \in Caches}
        OBVIOUS
      <4>2. [i \in 1 .. Size[c] |-> NoEntry] \in [1 .. Size[c] -> Entry]
        BY <2>1
      <4> QED
        BY <4>1, <4>2
    <3> QED
      BY <3>1 DEF Empty
  <2>5. Shaped(Empty)
    BY <2>1, <2>2, <2>3, <2>4 DEF Shaped
  <2>6. NotCached \in [Locations -> Contents]
    BY DEF NotCached, Contents
  <2> QED
    BY <2>1, <2>3, <2>5, <2>6
<1> SUFFICES ASSUME Opened PROVE AsOnDisk
  OBVIOUS
<1>1. \A c \in Caches : \A i \in 1 .. Size[c] : entries[c][i].offset = Null /\ ~entries[c][i].dirty
  BY <1>NothingCached DEF Opened
<1>2. \A x \in Tabled : ~Cached(x)
  BY <1>1, Places DEF Cached
<1>3. FileTyped
  BY <1>2, <1>NothingCached DEF FileTyped, Opened
<1>4. Coherent
  BY <1>1, Places DEF Coherent
<1>5. CacheOK
  BY <1>3, <1>4, <1>NothingCached DEF CacheOK, Opened
<1> QED
  BY <1>2, <1>5 DEF AsOnDisk, Val

LEMMA OpenedNext == Opened' => AsOnDisk'
  BY OpenedOK, PTL

LEMMA ReopenOK ==
  ASSUME Counting, NEW image \in [Locations -> Contents], NEW left \in [Locations -> SUBSET Contents],
         \A x \in Locations : image[x] \in left[x] /\ left[x] \subseteq Values(x),
         Reopen(image, left)
  PROVE  Opened' /\ AsOnDisk'
<1>1. \A s \in Slots : image[s] \in Values(s)
  BY DEF Locations, Tabled
<1>2. CASE image[header]
  <2> DEFINE new == Consistent(image)
  <2>1. disk' = new /\ poss' = [x \in Locations |-> {disk'[x]}]
    BY <1>2 DEF Reopen
  <2>2. new \in [Locations -> Contents] /\ \A x \in Locations : new[x] \in Values(x)
    BY <1>1, ConsistentImage
  <2> HIDE DEF new
  <2>3. poss' \in [Locations -> SUBSET Contents] /\ \A x \in Locations : poss'[x] = {new[x]}
    BY <2>1, <2>2
  <2>4. Opened'
    BY <2>1, <2>2, <2>3 DEF Reopen, Opened
  <2> QED
    BY <2>4, OpenedNext
<1>3. CASE ~image[header]
  <2>1. Opened'
    BY <1>3 DEF Reopen, Opened
  <2> QED
    BY <2>1, OpenedNext
<1> QED
  BY <1>2, <1>3

LEMMA Survives ==
  ASSUME FileTyped, NEW links \in Survivors(Slots), NEW counts \in Survivors(Clusters),
         NEW mark \in Survivors({header}), NEW image, image = Surviving(links, counts, mark)
  PROVE  image \in [Locations -> Contents] /\ \A x \in Locations : image[x] \in poss[x]
<1>1. image = [x \in Locations |-> IF x \in Slots THEN links[x]
                                   ELSE IF x \in Clusters THEN counts[x] ELSE mark[x]]
  BY DEF Surviving
<1>2. /\ \A x \in Slots : links[x] \in poss[x]
      /\ \A x \in Clusters : counts[x] \in poss[x]
      /\ mark[header] \in poss[header]
  BY DEF Survivors
<1>3. \A x \in Locations : x \in Slots \/ x \in Clusters \/ x = header
  BY DEF Locations, Tabled
<1>4. \A x \in Locations : image[x] \in poss[x]
  BY <1>1, <1>2, <1>3
<1>5. image \in [Locations -> Contents]
  <2>1. \A x \in Locations : image[x] \in Contents
    BY <1>4 DEF FileTyped
  <2> QED
    BY <1>1, <2>1
<1> QED
  BY <1>4, <1>5

-----------------------------------------------------------------------------
(* The calls in progress.                                                  *)

Permanent == \A x \in Locations : poss[x] = {disk[x]}
\* What the caches say of c's locations is on the disk, for good.
Settled(c) == \A x \in Tabled : CacheOf(x) = c => poss[x] = {Val(x)}

\* qcow2_cache_flush has cleaned the entries it has passed, and qcow2_cache_do_get does
\* not have the table it is about to read.
FrameOK(fr) ==
  /\ fr.f = "flush" =>
       /\ fr.i >= 1
       /\ fr.result = "ok" => \A j \in 1 .. Size[fr.c] : j < fr.i => ~entries[fr.c][j].dirty
  /\ fr.f = "entry" => fr.i \in 1 .. Size[fr.c]
  /\ fr.f = "get" =>
       /\ fr.t \in Tables(fr.c)
       /\ fr.i = 0 \/ (fr.i \in 1 .. Size[fr.c] /\ Holding(fr.c, fr.t) = {})

SameEntry(caller, callee) == callee.f = "entry" => callee.i = caller.i

\* What a call that has returned has done for its caller.
TopOK(fr) ==
  /\ fr.f \in {"flush", "get"} /\ ret # Null => fr.i \in 1 .. Size[fr.c]
  /\ fr.f \in {"flush", "get"} /\ ret = "ok" => ~entries[fr.c][fr.i].dirty
  /\ fr.f = "dependency" /\ ret = "ok" => Settled(depends[fr.c]) /\ uncopied = {}

Stacked ==
  /\ ret \in Results \cup {Null}
  /\ \A p \in 1 .. Len(stack) : FrameOK(stack[p])
  /\ \A p \in 1 .. Len(stack) : p + 1 <= Len(stack) => SameEntry(stack[p + 1], stack[p])
  /\ stack # <<>> => TopOK(stack[1])

\* Tables stay where they are, and none gets dirty.
Cleaner ==
  \A c \in Caches : \A i \in 1 .. Size[c] :
    entries'[c][i].offset = entries[c][i].offset /\ (entries'[c][i].dirty => entries[c][i].dirty)

\* What a step in qcow2-cache.c leaves as it is: what the caches say, and what is clean.
Kept ==
  /\ \A x \in Tabled : Val(x)' = Val(x)
  /\ \A c \in Caches : Clean(c) => Clean(c)'

LEMMA CleanerKeeps == ASSUME Cleaner PROVE \A c \in Caches : Clean(c) => Clean(c)'
  BY DEF Clean, Cleaner

\* Steps that change no table.
LEMMA QuietStep ==
  ASSUME CacheOK, UNCHANGED <<entries, mem, disk, poss>>
  PROVE  CacheOK' /\ Kept /\ Cleaner
<1>1. CacheOK'
  BY DEF CacheOK, FileTyped, Coherent, Cached
<1>2. Cleaner
  BY DEF Cleaner
<1>3. \A x \in Tabled : Val(x)' = Val(x)
  BY DEF Val, Cached
<1> QED
  BY <1>1, <1>2, <1>3, CleanerKeeps DEF Kept

\* What is clean and on the disk for good is settled.
LEMMA CleanIsSettled ==
  ASSUME CacheOK, NEW c \in Caches, Clean(c)
  PROVE  \A x \in Tabled : CacheOf(x) = c => Val(x) = disk[x]
<1> SUFFICES ASSUME NEW x \in Tabled, CacheOf(x) = c, Cached(x) PROVE mem[x] = disk[x]
  BY DEF Val
<1>1. PICK i \in 1 .. Size[c] : entries[c][i].offset = HomeOf[x]
  BY DEF Cached
<1>2. x \in InTable(entries[c][i].offset)
  BY <1>1 DEF InTable
<1> QED
  BY <1>2 DEF CacheOK, Coherent, Clean

\* The call of a request stays the same until it returns; what it has done then.
SameCall(f, g) ==
  /\ f.f = g.f /\ f.c = g.c
  /\ g.f = "get" => f.t = g.t
  /\ g.f = "set" => f.d = g.d

Done(fr) ==
  /\ ret \in Results
  /\ ret = "ok" => /\ fr.f = "flush" => Clean(fr.c) /\ Permanent
                   /\ fr.f = "get" => Holding(fr.c, fr.t) # {}
                   /\ fr.f = "set" => depends[fr.c] = fr.d

BottomStep ==
  IF stack' = <<>> THEN Len(stack) = 1 /\ \A f : f = stack[1] => Done(f)'
  ELSE SameCall(stack'[Len(stack')], stack[Len(stack)])

\* What may be on the disk after a step in qcow2-cache.c: as before, all of it permanent,
\* or more for the tables of a cache that does not have to wait.
FileStep ==
  \/ UNCHANGED <<disk, poss>>
  \/ UNCHANGED disk /\ \A x \in Locations : poss'[x] = {disk[x]}
  \/ \E c \in Caches : depends[c] = Null /\ c \notin onFlush /\ Grows(c)

StepOK == CacheOK' /\ Stacked' /\ Kept /\ FileStep /\ BottomStep

\* The references of some entries of a cache are counted up.
CountedUp(c, found) ==
  [entries EXCEPT ![c] =
     [i \in 1 .. Size[c] |-> IF i \in found THEN [entries[c][i] EXCEPT !.ref = @ + 1] ELSE entries[c][i]]]

LEMMA CacheStepOK == ASSUME CacheOK, Stacked, NEW T, CallsInv(T), CacheStep PROVE StepOK
<1>Pushed.
       ASSUME NEW S, stack \in Seq(S), NEW fr \in S, stack' = <<fr>> \o stack
       PROVE  /\ Len(stack) \in Nat /\ Len(stack') = Len(stack) + 1 /\ stack' # <<>> /\ stack'[1] = fr
              /\ \A i \in 1 .. Len(stack) : stack'[i + 1] = stack[i]
              /\ \A i \in 1 .. Len(stack') : i = 1 \/ (i - 1 \in 1 .. Len(stack) /\ stack'[i] = stack[i - 1])
              /\ stack # <<>> => Len(stack) >= 1
  <2> USE <1>Pushed
  <2>1. <<fr>> \in Seq(S) /\ Len(<<fr>>) = 1 /\ Len(stack) \in Nat /\ <<fr>>[1] = fr
    BY SMT
  <2>2. /\ stack' \in Seq(S) /\ Len(stack') = 1 + Len(stack)
        /\ \A i \in 1 .. 1 + Len(stack) : stack'[i] = IF i <= 1 THEN <<fr>>[i] ELSE stack[i - 1]
    BY <2>1, Joins, SMT
  <2>3. /\ stack'[1] = fr
        /\ \A i \in 1 .. Len(stack) : stack'[i + 1] = stack[i]
        /\ \A i \in 1 .. Len(stack') : i = 1 \/ (i - 1 \in 1 .. Len(stack) /\ stack'[i] = stack[i - 1])
    BY <2>1, <2>2, SMT
  <2>4. stack # <<>> => Len(stack) >= 1
    BY SMT
  <2> QED
    BY <2>1, <2>2, <2>3, <2>4, SMT
<1>Popped.
       ASSUME NEW S, stack \in Seq(S), stack # <<>>, stack' = Tail(stack)
       PROVE  /\ Len(stack) \in Nat /\ Len(stack) >= 1 /\ Len(stack') = Len(stack) - 1
              /\ \A i \in 1 .. Len(stack') : i + 1 \in 1 .. Len(stack) /\ stack'[i] = stack[i + 1]
              /\ stack' # <<>> => Len(stack) >= 2 /\ stack'[1] = stack[2]
  <2> USE <1>Popped
  <2>1. Len(stack) \in Nat /\ Len(stack) >= 1
    BY SMT
  <2>2. /\ stack' \in Seq(S) /\ Len(stack') = Len(stack) - 1
        /\ \A i \in 1 .. Len(stack') : stack'[i] = stack[i + 1]
    BY TailShifts
  <2>3. \A i \in 1 .. Len(stack') : i + 1 \in 1 .. Len(stack)
    BY <2>1, <2>2, SMT
  <2>4. stack' # <<>> => Len(stack) >= 2 /\ stack'[1] = stack[2]
    BY <2>1, <2>2, SMT
  <2> QED
    BY <2>1, <2>2, <2>3, <2>4
<1>FrameKept. ASSUME Cleaner PROVE \A fr : fr.c \in Caches /\ FrameOK(fr) => FrameOK(fr)'
  <2> USE <1>FrameKept
  <2> SUFFICES ASSUME NEW fr, fr.c \in Caches, FrameOK(fr) PROVE FrameOK(fr)'
    OBVIOUS
  <2>1. fr.f = "flush" => /\ fr.i >= 1
                          /\ fr.result = "ok" => \A j \in 1 .. Size[fr.c] : j < fr.i => ~entries'[fr.c][j].dirty
    BY DEF FrameOK, Cleaner
  <2>2. \A t : Holding(fr.c, t) = {} => Holding(fr.c, t)' = {}
    BY DEF Holding, Cleaner
  <2> QED
    BY <2>1, <2>2 DEF FrameOK
\* Every frame is of a cache.
<1>ShapeFramed. ASSUME StackShape(T) PROVE stack \in Seq(Frames(T)) /\ \A fr \in Frames(T) : fr.c \in Caches
  <2> USE <1>ShapeFramed
  <2>1. \A fr \in Frames(T) : fr.c \in Caches
    BY DEF Frames, FlushFrames, EntryFrames, DependencyFrames, SetFrames, GetFrames
  <2> QED
    BY <2>1 DEF StackShape
<1>StackedPush.
       ASSUME StackShape(T), Cleaner, NEW fr \in Frames(T), stack' = <<fr>> \o stack, FrameOK(fr)',
              stack # <<>> => SameEntry(stack[1], fr), ret' = Null
       PROVE  Stacked'
  <2> USE <1>StackedPush
  <2>1. stack \in Seq(Frames(T)) /\ \A f \in Frames(T) : f.c \in Caches
    BY <1>ShapeFramed
  <2>2. /\ Len(stack) \in Nat /\ Len(stack') = Len(stack) + 1 /\ stack' # <<>> /\ stack'[1] = fr
        /\ \A i \in 1 .. Len(stack) : stack'[i + 1] = stack[i]
        /\ \A i \in 1 .. Len(stack') : i = 1 \/ (i - 1 \in 1 .. Len(stack) /\ stack'[i] = stack[i - 1])
        /\ stack # <<>> => Len(stack) >= 1
    BY <2>1, <1>Pushed
  <2>3. \A p \in 1 .. Len(stack) : \A f : f = stack[p] => FrameOK(f)'
    <3>1. \A p \in 1 .. Len(stack) : stack[p] \in Frames(T)
      BY <2>1, SMT
    <3>2. \A p \in 1 .. Len(stack) : stack[p].c \in Caches /\ FrameOK(stack[p])
      BY <2>1, <3>1 DEF Stacked
    <3> QED
      BY <3>2, <1>FrameKept
  <2>4. \A p \in 1 .. Len(stack') : FrameOK(stack[p])'
    <3> TAKE p \in 1 .. Len(stack')
    <3> SUFFICES ASSUME NEW f, f = stack'[p] PROVE FrameOK(f)'
      BY DEF FrameOK
    <3> QED
      BY <2>2, <2>3
  <2>5. ASSUME NEW p \in 1 .. Len(stack'), p + 1 <= Len(stack')
        PROVE  SameEntry(stack'[p + 1], stack'[p])
    <3>1. p \in 1 .. Len(stack) /\ (p = 1 => stack # <<>>) /\ (p # 1 => p - 1 \in 1 .. Len(stack) /\ (p - 1) + 1 = p)
      <4>1. p \in 1 .. Len(stack) /\ Len(stack) >= 1 /\ (p # 1 => p - 1 \in 1 .. Len(stack) /\ (p - 1) + 1 = p)
        BY <2>2, <2>5, SMT
      <4>2. stack # <<>>
        BY <4>1, SMT
      <4> QED
        BY <4>1, <4>2
    <3>2. stack'[p + 1] = stack[p]
      BY <2>2, <3>1
    <3>3. CASE p = 1
      BY <2>2, <3>1, <3>2, <3>3
    <3>4. CASE p # 1
      <4>1. stack'[p] = stack[p - 1] /\ (p - 1) + 1 <= Len(stack)
        BY <2>2, <2>5, <3>1, <3>4, SMT
      <4>2. SameEntry(stack[(p - 1) + 1], stack[p - 1])
        BY <3>1, <3>4, <4>1 DEF Stacked
      <4> QED
        BY <3>1, <3>2, <3>4, <4>1, <4>2
    <3> QED
      BY <3>3, <3>4
  <2>6. TopOK(stack[1])'
    <3>1. Null \notin Results
      BY Qcow2Assumption DEF Results
    <3> QED
      BY <3>1 DEF TopOK, Results
  <2> QED
    BY <2>4, <2>5, <2>6 DEF Stacked
<1>StackedPop.
       ASSUME StackShape(T), Cleaner, stack # <<>>, stack' = Tail(stack), ret' \in Results,
              Len(stack) >= 2 => TopOK(stack[1])'
       PROVE  Stacked'
  <2> USE <1>StackedPop
  <2>1. stack \in Seq(Frames(T)) /\ \A f \in Frames(T) : f.c \in Caches
    BY <1>ShapeFramed
  <2>2. /\ Len(stack) \in Nat /\ Len(stack) >= 1 /\ Len(stack') = Len(stack) - 1
        /\ \A i \in 1 .. Len(stack') : i + 1 \in 1 .. Len(stack) /\ stack'[i] = stack[i + 1]
        /\ stack' # <<>> => Len(stack) >= 2 /\ stack'[1] = stack[2]
    BY <2>1, <1>Popped
  <2>3. \A p \in 1 .. Len(stack) : \A f : f = stack[p] => FrameOK(f)'
    <3>1. \A p \in 1 .. Len(stack) : stack[p] \in Frames(T)
      BY <2>1, SMT
    <3>2. \A p \in 1 .. Len(stack) : stack[p].c \in Caches /\ FrameOK(stack[p])
      BY <2>1, <3>1 DEF Stacked
    <3> QED
      BY <3>2, <1>FrameKept
  <2>4. \A p \in 1 .. Len(stack') : FrameOK(stack[p])'
    <3> TAKE p \in 1 .. Len(stack')
    <3> SUFFICES ASSUME NEW f, f = stack'[p] PROVE FrameOK(f)'
      BY DEF FrameOK
    <3> QED
      BY <2>2, <2>3
  <2>5. ASSUME NEW p \in 1 .. Len(stack'), p + 1 <= Len(stack')
        PROVE  SameEntry(stack'[p + 1], stack'[p])
    <3>1. p + 1 \in 1 .. Len(stack') /\ p + 1 \in 1 .. Len(stack) /\ (p + 1) + 1 <= Len(stack)
      BY <2>2, <2>5, SMT
    <3>2. SameEntry(stack[(p + 1) + 1], stack[p + 1])
      BY <3>1 DEF Stacked
    <3> QED
      BY <2>2, <3>1, <3>2
  <2> QED
    BY <2>2, <2>4, <2>5 DEF Stacked
\* The caller of the innermost call.
<1>Caller.
       ASSUME StackShape(T), stack # <<>>, Len(stack) >= 2
       PROVE  /\ Calls(stack[2], stack[1]) /\ SameEntry(stack[2], stack[1]) /\ FrameOK(stack[1])
              /\ stack[1].c \in Caches /\ stack[2].c \in Caches
  <2> USE <1>Caller
  <2>1. Len(stack) \in Nat /\ 1 \in 1 .. Len(stack) /\ 2 \in 1 .. Len(stack) /\ 1 + 1 = 2
    BY SMT DEF StackShape
  <2>2. Calls(stack[1 + 1], stack[1])
    BY <2>1, SMT DEF StackShape
  <2>3. SameEntry(stack[1 + 1], stack[1]) /\ FrameOK(stack[1])
    BY <2>1, SMT DEF Stacked
  <2>4. stack[1] \in Frames(T) /\ stack[2] \in Frames(T)
    BY <2>1, <1>ShapeFramed, SMT
  <2> QED
    BY <2>1, <2>2, <2>3, <2>4, <1>ShapeFramed
\* The second frame is the first one after a return.
<1>NextTop. ASSUME StackShape(T), stack # <<>>, stack' = Tail(stack), Len(stack) >= 2
       PROVE  stack'[1] = stack[2]
  <2> USE <1>NextTop
  <2>1. stack \in Seq(Frames(T)) /\ Len(stack) \in Nat
    BY SMT DEF StackShape
  <2>2. Len(Tail(stack)) = Len(stack) - 1 /\ \A i \in 1 .. Len(Tail(stack)) : Tail(stack)[i] = stack[i + 1]
    BY <2>1, TailShifts
  <2> QED
    BY <2>1, <2>2, SMT
<1>ReturnsError. ASSUME StackShape(T), Cleaner, stack # <<>>, stack' = Tail(stack), ret' = "error"
       PROVE  Stacked'
  <2> USE <1>ReturnsError
  <2>1. ASSUME Len(stack) >= 2 PROVE TopOK(stack[1])'
    <3>1. stack'[1] = stack[2]
      BY <2>1, <1>NextTop
    <3>2. stack[2].f \in {"flush", "get"} => stack[2].i \in 1 .. Size[stack[2].c]
      BY <2>1, <1>Caller DEF Calls, SameEntry, FrameOK
    <3>3. ret' # "ok" /\ ret' # Null
      BY Qcow2Assumption, SMT
    <3> QED
      BY <3>1, <3>2, <3>3 DEF TopOK
  <2> QED
    BY <2>1, <1>StackedPop DEF Results
\* bdrv_flush.
<1>FlushStep. ASSUME FlushFile, UNCHANGED <<entries, mem>>
       PROVE  CacheOK' /\ Kept /\ Cleaner /\ Permanent' /\ \A x \in Locations : poss'[x] = {disk[x]}
  <2> USE <1>FlushStep
  <2>1. poss' \in [Locations -> SUBSET Contents] /\ \A x \in Locations : poss'[x] = {disk[x]}
    <3>1. \A x \in Locations : {disk[x]} \in SUBSET Contents
      BY DEF CacheOK, FileTyped
    <3> QED
      BY <3>1 DEF FlushFile
  <2>2. \A x \in Locations : disk[x] \in Values(x)
    BY DEF CacheOK, FileTyped
  <2>3. UNCHANGED disk /\ disk' \in [Locations -> Contents] /\ \A x \in Tabled : disk'[x] = disk[x]
    BY DEF FlushFile, CacheOK, FileTyped
  <2>4. Shaped(entries') /\ SameTables(entries, entries')
    BY DEF CacheOK, SameTables
  <2>5. \A x \in Locations : disk'[x] \in poss'[x] /\ poss'[x] \subseteq Values(x)
    BY <2>1, <2>2, <2>3
  <2>6. CacheOK' /\ \A x \in Tabled : Val(x)' = Val(x)
    BY <2>1, <2>3, <2>4, <2>5, SameOK
  <2>7. Cleaner
    BY DEF Cleaner
  <2> QED
    BY <2>1, <2>3, <2>6, <2>7, CleanerKeeps DEF Kept, Permanent
<1>BottomPush. ASSUME StackShape(T), stack # <<>>, NEW fr \in Frames(T), stack' = <<fr>> \o stack
       PROVE  BottomStep
  <2> USE <1>BottomPush
  <2>1. stack \in Seq(Frames(T))
    BY DEF StackShape
  <2>2. /\ Len(stack) \in Nat /\ Len(stack') = Len(stack) + 1 /\ stack' # <<>>
        /\ \A i \in 1 .. Len(stack) : stack'[i + 1] = stack[i]
        /\ Len(stack) >= 1
    BY <2>1, <1>Pushed
  <2>3. Len(stack) \in 1 .. Len(stack)
    BY <2>2, SMT
  <2>4. stack'[Len(stack')] = stack[Len(stack)]
    BY <2>2, <2>3
  <2> QED
    BY <2>2, <2>4 DEF BottomStep, SameCall
<1>BottomPop.
       ASSUME StackShape(T), stack # <<>>, stack' = Tail(stack),
              Len(stack) = 1 => \A f : f = stack[1] => Done(f)'
       PROVE  BottomStep
  <2> USE <1>BottomPop
  <2>1. stack \in Seq(Frames(T))
    BY DEF StackShape
  <2>2. /\ Len(stack) \in Nat /\ Len(stack) >= 1 /\ Len(stack') = Len(stack) - 1
        /\ \A i \in 1 .. Len(stack') : i + 1 \in 1 .. Len(stack) /\ stack'[i] = stack[i + 1]
        /\ stack' \in Seq(Frames(T))
    BY <2>1, <1>Popped, TailShifts
  <2>3. CASE stack' = <<>>
    <3>1. Len(stack) = 1
      <4>1. Len(<<>>) = 0
        BY SMT
      <4>2. \A n \in Nat : 0 = n - 1 => n = 1
        BY SMT
      <4> QED
        BY <2>2, <2>3, <4>1, <4>2
    <3> QED
      BY <2>3, <3>1 DEF BottomStep
  <2>4. CASE stack' # <<>>
    <3>1. Len(stack') \in 1 .. Len(stack') /\ Len(stack') + 1 = Len(stack)
      BY <2>2, <2>4, SMT
    <3>2. stack'[Len(stack')] = stack[Len(stack)]
      BY <2>2, <3>1
    <3> QED
      BY <2>4, <3>2 DEF BottomStep, SameCall
  <2> QED
    BY <2>3, <2>4
\* A call that fails has done nothing.
<1>FailsDone. ASSUME ret' = "error" PROVE \A f : Done(f)'
  BY <1>FailsDone DEF Done, Results
\* qcow2_cache_do_get is called by requests only.
<1>GetIsLast. ASSUME StackShape(T), stack # <<>>, Top.f = "get"
       PROVE  Len(stack) = 1 /\ Top = stack[1] /\ Top \in GetFrames(T) /\ Top.c \in Caches
  <2> USE <1>GetIsLast
  <2>1. Top = stack[1] /\ Len(stack) \in Nat /\ Len(stack) >= 1 /\ Top \in GetFrames(T) /\ Top.c \in Caches
    BY TopFrame
  <2>2. Len(stack) > 1 => Calls(stack[1 + 1], stack[1])
    BY <2>1, SMT DEF StackShape
  <2>3. ~(Len(stack) > 1)
    BY <2>1, <2>2, CalleeNotGet
  <2>4. \A n \in Nat : n >= 1 /\ ~(n > 1) => n = 1
    BY SMT
  <2> QED
    BY <2>1, <2>3, <2>4
<1>UnwindOK. CASE Unwind
  <2> USE <1>UnwindOK
  <2>1. UNCHANGED <<entries, mem, disk, poss>> /\ stack # <<>> /\ stack' = Tail(stack) /\ ret' = "error"
    BY DEF Unwind, Return, cacheVars, fileVars
  <2>2. CacheOK' /\ Kept /\ Cleaner
    BY <2>1, QuietStep
  <2>3. Stacked'
    BY <2>1, <2>2, <1>ReturnsError DEF CallsInv
  <2>4. BottomStep
    BY <2>1, <1>BottomPop, <1>FailsDone DEF CallsInv
  <2> QED
    BY <2>1, <2>2, <2>3, <2>4 DEF StepOK, FileStep
<1>FlushNextOK. CASE FlushNext
  <2> USE <1>FlushNextOK
  <2>Retopped.
         ASSUME NEW S, stack \in Seq(S), stack # <<>>, NEW top \in S, stack' = <<top>> \o Tail(stack)
         PROVE  /\ Len(stack) \in Nat /\ Len(stack) >= 1 /\ Len(stack') = Len(stack) /\ stack'[1] = top
                /\ stack' # <<>>
                /\ \A i \in 2 .. Len(stack) : stack'[i] = stack[i]
                /\ \A i \in 1 .. Len(stack) : i = 1 \/ i \in 2 .. Len(stack)
    <3> USE <2>Retopped
    <3>1. Len(stack) \in Nat /\ Len(stack) >= 1 /\ <<top>> \in Seq(S) /\ Len(<<top>>) = 1 /\ <<top>>[1] = top
      BY SMT
    <3>2. /\ Tail(stack) \in Seq(S) /\ Len(Tail(stack)) = Len(stack) - 1
          /\ \A i \in 1 .. Len(stack) - 1 : Tail(stack)[i] = stack[i + 1]
      BY <3>1, TailShifts, SMT
    <3>3. /\ stack' \in Seq(S) /\ Len(stack') = 1 + (Len(stack) - 1)
          /\ \A i \in 1 .. 1 + (Len(stack) - 1) :
               stack'[i] = IF i <= 1 THEN <<top>>[i] ELSE Tail(stack)[i - 1]
      BY <3>1, <3>2, Joins, SMT
    <3>4. \A i \in 2 .. Len(stack) : stack'[i] = stack[i]
      <4> TAKE i \in 2 .. Len(stack)
      <4>1. i - 1 \in 1 .. Len(stack) - 1 /\ (i - 1) + 1 = i /\ i \in 1 .. 1 + (Len(stack) - 1) /\ ~(i <= 1)
        BY <3>1, SMT
      <4> QED
        BY <3>2, <3>3, <4>1
    <3>5. stack'[1] = top /\ Len(stack') = Len(stack) /\ stack' # <<>>
      BY <3>1, <3>3, SMT
    <3>6. \A i \in 1 .. Len(stack) : i = 1 \/ i \in 2 .. Len(stack)
      BY <3>1, SMT
    <3> QED
      BY <3>1, <3>4, <3>5, <3>6
  <2>1. /\ stack # <<>> /\ Top.f = "flush" /\ Top.i <= Size[Top.c]
        /\ UNCHANGED <<entries, mem, disk, poss>>
    BY DEF FlushNext, In, cacheVars, fileVars
  <2>2. CacheOK' /\ Kept /\ Cleaner
    BY <2>1, QuietStep
  <2>3. /\ Top = stack[1] /\ Top \in FlushFrames /\ Len(stack) \in Nat /\ Len(stack) >= 1
        /\ Top.c \in Caches
    BY <2>1, TopFrame DEF CallsInv
  <2>4. FrameOK(Top) /\ TopOK(Top)
    <3>1. 1 \in 1 .. Len(stack)
      BY <2>3, SMT
    <3> QED
      BY <2>1, <2>3, <3>1 DEF Stacked
  <2>5. Top.i \in 1 .. Size[Top.c]
    <3>1. Top.i \in Int /\ Top.i >= 1 /\ Size[Top.c] \in Nat
      BY <2>1, <2>3, <2>4, Places DEF FrameOK, FlushFrames
    <3> QED
      BY <2>1, <3>1, SMT
  <2>6. CASE ret = Null
    <3>0. PICK fr : fr = EntryFrame(Top.c, Top.i)
      OBVIOUS
    <3>1. fr \in Frames(T) /\ fr.f = "entry" /\ fr.c = Top.c /\ fr.i = Top.i
      BY <2>3, <3>0 DEF EntryFrame, Frames, EntryFrames, FlushFrames
    <3>2. stack' = <<fr>> \o stack /\ ret' = Null
      BY <2>6, <3>0 DEF FlushNext, Call
    <3>3. FrameOK(fr)' /\ SameEntry(stack[1], fr)
      BY <2>3, <2>5, <3>1 DEF FrameOK, SameEntry
    <3>4. Stacked'
      BY <2>2, <3>1, <3>2, <3>3, <1>StackedPush DEF CallsInv
    <3>5. BottomStep
      BY <2>1, <3>1, <3>2, <1>BottomPush DEF CallsInv
    <3> QED
      BY <2>1, <2>2, <3>4, <3>5 DEF StepOK, FileStep
  <2>7. CASE ret # Null
    <3>0. PICK top : top = [Top EXCEPT !.i = @ + 1, !.result = FlushResult(@)]
      OBVIOUS
    <3>1. stack' = <<top>> \o Tail(stack) /\ ret' = Null
      BY <2>7, <3>0 DEF FlushNext
    <3>2. /\ top \in FlushFrames /\ top.f = "flush" /\ top.c = Top.c
          /\ top.i = Top.i + 1 /\ top.result = FlushResult(Top.result)
      <4>1. FlushResult(Top.result) \in Results /\ Top.i + 1 \in Int
        BY <2>3, SMT DEF FlushFrames, FlushResult, Results
      <4>2. top \in FlushFrames /\ top.f = Top.f /\ top.c = Top.c
        <5> DEFINE new == [Top EXCEPT !.i = @ + 1, !.result = FlushResult(@)]
        <5>1. new \in FlushFrames /\ new.f = Top.f /\ new.c = Top.c
          <6>1. Top \in FlushFrames
            BY <2>3
          <6> QED
            BY <4>1, <6>1, FlushFrameUpdate
        <5> QED
          BY <3>0, <5>1
      <4>3. top.i = Top.i + 1 /\ top.result = FlushResult(Top.result)
        BY <2>1, <2>3, <3>0 DEF FlushFrames
      <4> QED
        BY <2>1, <4>2, <4>3
    <3>3. ASSUME top.result = "ok", NEW j \in 1 .. Size[Top.c], j < top.i PROVE ~entries[Top.c][j].dirty
      <4>1. Top.result = "ok" /\ ret = "ok"
        BY <2>7, <3>2, <3>3, SMT DEF FlushResult, Stacked, Results
      <4>2. Top.i \in Int /\ j \in Int /\ (j < Top.i \/ j = Top.i)
        BY <2>3, <2>5, <3>2, <3>3, Places, SMT
      <4> QED
        BY <2>1, <2>4, <4>1, <4>2 DEF FrameOK, TopOK
    <3>4. top.i >= 1 /\ top.i \in Int
      BY <2>5, <3>2, SMT
    <3>5. FrameOK(top)'
      BY <2>1, <3>2, <3>3, <3>4 DEF FrameOK
    <3>6. stack \in Seq(Frames(T)) /\ top \in Frames(T)
      BY <3>2 DEF CallsInv, StackShape, Frames
    <3>7. /\ Len(stack') = Len(stack) /\ stack'[1] = top /\ stack' # <<>>
          /\ \A i \in 2 .. Len(stack) : stack'[i] = stack[i]
          /\ \A i \in 1 .. Len(stack) : i = 1 \/ i \in 2 .. Len(stack)
      BY <2>1, <3>1, <3>6, <2>Retopped
    <3>8. \A p \in 1 .. Len(stack') : FrameOK(stack[p])'
      <4> TAKE p \in 1 .. Len(stack')
      <4> SUFFICES ASSUME NEW f, f = stack'[p] PROVE FrameOK(f)'
        BY DEF FrameOK
      <4>1. CASE p = 1
        BY <3>5, <3>7, <4>1
      <4>2. CASE p \in 2 .. Len(stack)
        <5>1. f = stack[p] /\ p \in 1 .. Len(stack)
          BY <3>7, <4>2
        <5>2. FrameOK(f) /\ f \in Frames(T)
          BY <3>6, <5>1, SMT DEF Stacked
        <5> QED
          BY <2>2, <5>2, <1>FrameKept, <1>ShapeFramed DEF CallsInv
      <4> QED
        BY <3>7, <4>1, <4>2
    <3>9. ASSUME NEW p \in 1 .. Len(stack'), p + 1 <= Len(stack')
          PROVE  SameEntry(stack'[p + 1], stack'[p])
      <4>1. CASE p = 1
        BY <3>2, <3>7, <4>1 DEF SameEntry
      <4>2. CASE p \in 2 .. Len(stack)
        <5>1. p \in 1 .. Len(stack) /\ p + 1 \in 2 .. Len(stack) /\ p + 1 <= Len(stack)
          BY <2>3, <3>7, <3>9, <4>2, SMT
        <5>2. SameEntry(stack[p + 1], stack[p])
          BY <5>1 DEF Stacked
        <5> QED
          BY <3>7, <4>2, <5>1, <5>2
      <4> QED
        BY <3>7, <3>9, <4>1, <4>2
    <3>10. TopOK(stack[1])'
      BY <3>1, Qcow2Assumption DEF TopOK
    <3>11. Stacked'
      BY <3>1, <3>8, <3>9, <3>10 DEF Stacked
    <3>12. BottomStep
      <4>1. Len(stack) = 1 \/ Len(stack) \in 2 .. Len(stack)
        <5>1. \A n \in Nat : n >= 1 => n = 1 \/ n \in 2 .. n
          BY SMT
        <5> QED
          BY <2>3, <5>1
      <4>2. SameCall(stack'[Len(stack')], stack[Len(stack)])
        BY <2>1, <2>3, <3>2, <3>7, <4>1 DEF SameCall
      <4> QED
        BY <3>7, <4>2 DEF BottomStep
    <3> QED
      BY <2>1, <2>2, <3>11, <3>12 DEF StepOK, FileStep
  <2> QED
    BY <2>6, <2>7
\* qcow2_cache_flush returns 0: its cache is clean, and on the disk for good.
<1>FlushEndOK. CASE FlushEnd
  <2> USE <1>FlushEndOK
  <2>1. stack # <<>> /\ Top.f = "flush" /\ Top.i > Size[Top.c] /\ UNCHANGED <<entries, mem, depends>> /\ StackShape(T)
    BY DEF FlushEnd, In, cacheVars, CallsInv
  <2>2. CASE Top.result = "ok" /\ FlushFile /\ Return("ok")
    <3>1. CacheOK' /\ Kept /\ Cleaner /\ Permanent' /\ \A x \in Locations : poss'[x] = {disk[x]}
      BY <2>1, <2>2, <1>FlushStep
    <3>2. Top = stack[1] /\ Top.c \in Caches /\ Top \in FlushFrames /\ 1 \in 1 .. Len(stack)
      <4>1. Top = stack[1] /\ Top.c \in Caches /\ Top \in FlushFrames /\ Len(stack) \in Nat /\ Len(stack) >= 1
        BY <2>1, TopFrame
      <4>2. \A n \in Nat : n >= 1 => 1 \in 1 .. n
        BY SMT
      <4> QED
        BY <4>1, <4>2
    <3>3. FrameOK(Top)
      BY <3>2 DEF Stacked
    <3>4. Clean(Top.c)
      <4>1. \A j \in 1 .. Size[Top.c] : j < Top.i
        <5>1. Size[Top.c] \in Nat /\ Top.i \in Int
          BY <3>2, Places DEF FlushFrames
        <5> QED
          BY <2>1, <5>1, SMT
      <4> QED
        BY <2>1, <2>2, <3>3, <4>1 DEF FrameOK, Clean
    <3>5. \A x \in Tabled : CacheOf(x) = Top.c => poss'[x] = {Val(x)'}
      BY <3>1, <3>2, <3>4, CleanIsSettled, Places DEF Kept
    <3>6. stack' = Tail(stack) /\ ret' = "ok" /\ uncopied' = {}
      BY <2>2 DEF Return, FlushFile
    <3>7. ASSUME Len(stack) >= 2 PROVE TopOK(stack[1])'
      <4>1. stack'[1] = stack[2]
        BY <2>1, <3>6, <3>7, <1>NextTop
      <4>2. stack[2].f = "dependency" /\ depends[stack[2].c] = Top.c
        BY <2>1, <3>2, <3>7, <1>Caller DEF Calls
      <4>3. \A c : c = Top.c => Settled(c)'
        BY <3>5 DEF Settled
      <4>4. \A c : c = depends'[stack'[1].c] => Settled(c)'
        BY <2>1, <4>1, <4>2, <4>3
      <4> QED
        BY <3>6, <4>1, <4>2, <4>4 DEF TopOK, Settled
    <3>8. Stacked'
      BY <2>1, <3>1, <3>6, <3>7, <1>StackedPop DEF Results
    <3>9. \A f : f = stack[1] => Done(f)'
      <4>1. \A c : c = Top.c => Clean(c)'
        BY <3>1, <3>2, <3>4 DEF Kept
      <4> QED
        BY <2>1, <3>1, <3>2, <3>6, <4>1 DEF Done, Results
    <3>10. BottomStep
      BY <2>1, <3>6, <3>9, <1>BottomPop
    <3>11. FileStep
      BY <2>2, <3>1 DEF FileStep, FlushFile
    <3> QED
      BY <3>1, <3>8, <3>10, <3>11 DEF StepOK
  <2>3. CASE Return("error") /\ UNCHANGED <<disk, poss>>
    <3>1. CacheOK' /\ Kept /\ Cleaner
      BY <2>1, <2>3, QuietStep
    <3>2. Stacked' /\ BottomStep
      BY <2>1, <2>3, <3>1, <1>ReturnsError, <1>BottomPop, <1>FailsDone DEF Return
    <3> QED
      BY <2>3, <3>1, <3>2 DEF StepOK, FileStep
  <2> QED
    BY <2>2, <2>3 DEF FlushEnd, fileVars
\* qcow2_cache_flush_dependency.
<1>FlushDependencyOK. CASE FlushDependency
  <2> USE <1>FlushDependencyOK
  <2>1. /\ stack # <<>> /\ Top.f = "dependency" /\ UNCHANGED <<entries, mem, disk, poss, uncopied>>
        /\ StackShape(T) /\ ret # "error"
    BY DEF FlushDependency, In, fileVars, CallsInv
  <2>2. CacheOK' /\ Kept /\ Cleaner
    BY <2>1, QuietStep
  <2>3. Top = stack[1] /\ Top.c \in Caches /\ depends[Top.c] \in Caches
    BY <2>1, TopFrame DEF CallsInv, OneDeep
  <2>4. CASE ret = Null
    <3>1. PICK fr : fr = FlushFrame(depends[Top.c])
      OBVIOUS
    <3>2. fr \in Frames(T) /\ fr.f = "flush" /\ fr.i = 1 /\ fr.c \in Caches
      BY <2>3, <3>1, SMT DEF FlushFrame, Frames, FlushFrames, Results
    <3>3. stack' = <<fr>> \o stack /\ ret' = Null
      BY <2>4, <3>1 DEF FlushDependency, Call
    <3>4. FrameOK(fr)'
      <4>1. Size[fr.c] \in Nat
        BY <3>2, Places
      <4>2. fr.i >= 1 /\ \A j \in 1 .. Size[fr.c] : ~(j < fr.i)
        BY <3>2, <4>1, SMT
      <4> QED
        BY <3>2, <4>2 DEF FrameOK
    <3>5. Stacked' /\ BottomStep
      BY <2>1, <2>2, <3>2, <3>3, <3>4, <1>StackedPush, <1>BottomPush DEF SameEntry
    <3> QED
      BY <2>1, <2>2, <3>5 DEF StepOK, FileStep
  <2>5. CASE ret # Null
    <3>1. stack' = Tail(stack) /\ ret' = "ok"
      BY <2>5 DEF FlushDependency, Return
    <3>2. ASSUME Len(stack) >= 2 PROVE TopOK(stack[1])'
      <4>1. stack'[1] = stack[2]
        BY <2>1, <3>1, <3>2, <1>NextTop
      <4>2. stack[2].f \in {"entry", "set"}
        BY <2>1, <2>3, <3>2, <1>Caller DEF Calls
      <4> QED
        BY <4>1, <4>2 DEF TopOK
    <3>3. Stacked'
      BY <2>1, <2>2, <3>1, <3>2, <1>StackedPop DEF Results
    <3>4. \A f : f = stack[1] => Done(f)'
      BY <2>1, <2>3, <3>1 DEF Done, Results
    <3>5. BottomStep
      BY <2>1, <3>1, <3>4, <1>BottomPop
    <3> QED
      BY <2>1, <2>2, <3>3, <3>5 DEF StepOK, FileStep
  <2> QED
    BY <2>4, <2>5
<1>EntryFlushOK. CASE EntryFlush
  <2> USE <1>EntryFlushOK
  \* bdrv_pwrite of a table, all of it or some: what the caches say stays the same.
  <2>WrittenOK.
         ASSUME NEW c \in Caches, NEW i \in 1 .. Size[c], NEW t, t = entries[c][i].offset, t # Null,
                NEW part \in SUBSET InTable(t),
                disk' = [x \in Locations |-> IF x \in part THEN mem[x] ELSE disk[x]],
                poss' = [x \in Locations |-> IF x \in InTable(t) THEN poss[x] \cup {mem[x]} ELSE poss[x]],
                UNCHANGED mem, Shaped(entries'), OnlyCleans(c, i), entries'[c][i].dirty \/ part = InTable(t)
         PROVE  /\ CacheOK' /\ Grows(c)
                /\ \A x \in Tabled : (Cached(x)' <=> Cached(x)) /\ Val(x)' = Val(x)
    <3> USE <2>WrittenOK
    <3>0. \A d \in Caches : \A j \in 1 .. Size[d] :
            /\ entries'[d][j].offset = entries[d][j].offset
            /\ entries'[d][j].dirty = entries[d][j].dirty \/ (d = c /\ j = i)
      BY DEF OnlyCleans
    <3> USE <3>0
    <3>1. t \in Tables(c)
      BY DEF CacheOK, Shaped
    <3>2. \A x \in InTable(t) : x \in Tabled /\ CacheOf(x) = c /\ HomeOf[x] = t /\ x \in Locations /\ x # header
      BY <3>1, Places DEF InTable
    <3>3. \A x \in InTable(t) : Cached(x) /\ Val(x) = mem[x] /\ mem[x] \in Values(x) /\ mem[x] \in Contents
      <4> TAKE x \in InTable(t)
      <4>1. Cached(x)
        BY <3>2 DEF Cached
      <4> QED
        BY <3>2, <4>1 DEF Val, CacheOK, FileTyped
    <3>4. \A x \in Tabled : Cached(x)' <=> Cached(x)
      BY Places DEF Cached
    <3>5. /\ \A x \in Locations : disk'[x] = IF x \in part THEN mem[x] ELSE disk[x]
          /\ \A x \in Locations : poss'[x] = IF x \in InTable(t) THEN poss[x] \cup {mem[x]} ELSE poss[x]
      OBVIOUS
    <3>6. disk' \in [Locations -> Contents]
      <4>1. \A x \in Locations : (IF x \in part THEN mem[x] ELSE disk[x]) \in Contents
        BY <3>3 DEF CacheOK, FileTyped
      <4> QED
        BY <4>1
    <3>7. poss' \in [Locations -> SUBSET Contents]
      <4>1. \A x \in Locations : (IF x \in InTable(t) THEN poss[x] \cup {mem[x]} ELSE poss[x]) \in SUBSET Contents
        BY <3>3 DEF CacheOK, FileTyped
      <4> QED
        BY <4>1
    <3>8. \A x \in Locations : disk'[x] \in poss'[x] /\ poss'[x] \subseteq Values(x)
      BY <3>3, <3>5 DEF CacheOK, FileTyped
    <3>9. FileTyped'
      BY <3>4, <3>6, <3>7, <3>8 DEF CacheOK, FileTyped
    <3>10. \A x \in Tabled : Val(x)' = Val(x)
      <4> TAKE x \in Tabled
      <4>1. CASE x \in part
        BY <3>3, <3>4, <4>1 DEF Val
      <4>2. CASE x \notin part
        BY <3>4, <3>5, <4>2, Places DEF Val
      <4> QED
        BY <4>1, <4>2
    <3>11. Grows(c)
      <4>1. header \in Locations /\ header \notin InTable(t)
        BY <3>2, Places
      <4> QED
        BY <3>2, <3>3, <3>5, <4>1, Places DEF Grows
    <3>12. ASSUME NEW d \in Caches, NEW j \in 1 .. Size[d], ~entries'[d][j].dirty,
                  NEW x \in InTable(entries'[d][j].offset)
           PROVE  mem'[x] = disk'[x]
      <4>1. x \in InTable(entries[d][j].offset) /\ x \in Tabled /\ x \in Locations /\ HomeOf[x] = entries[d][j].offset
        BY <3>12, Places DEF InTable
      <4>2. CASE d = c /\ j = i
        BY <3>5, <3>12, <4>1, <4>2
      <4>3. CASE ~(d = c /\ j = i)
        <5>1. mem[x] = disk[x]
          BY <3>12, <4>1, <4>3 DEF CacheOK, Coherent
        <5> QED
          BY <3>5, <4>1, <5>1
      <4> QED
        BY <4>2, <4>3
    <3>13. ASSUME NEW d \in Caches, NEW j \in 1 .. Size[d]
           PROVE  /\ entries'[d][j].offset = Null => ~entries'[d][j].dirty
                  /\ \A k \in 1 .. Size[d] :
                       entries'[d][j].offset = entries'[d][k].offset /\ j # k => entries'[d][j].offset = Null
      <4>1. \A k \in 1 .. Size[d] : entries'[d][k].offset = entries[d][k].offset
        OBVIOUS
      <4>2. entries[d][j].offset = Null => ~entries'[d][j].dirty
        BY DEF CacheOK, Coherent
      <4>3. \A k \in 1 .. Size[d] :
              entries[d][j].offset = entries[d][k].offset /\ j # k => entries[d][j].offset = Null
        BY DEF CacheOK, Coherent
      <4> QED
        BY <4>1, <4>2, <4>3
    <3>14. Coherent'
      BY <3>12, <3>13 DEF Coherent
    <3> QED
      BY <3>4, <3>9, <3>10, <3>11, <3>14 DEF CacheOK
  \* qcow2_cache_entry_flush returns 0.
  <2>EntryReturnsOk.
         ASSUME StackShape(T), Cleaner, stack # <<>>, stack[1].f = "entry", stack' = Tail(stack), ret' = "ok",
                ~entries'[stack[1].c][stack[1].i].dirty
         PROVE  Stacked'
    <3> USE <2>EntryReturnsOk
    <3>1. ASSUME Len(stack) >= 2 PROVE TopOK(stack[1])'
      <4>1. stack'[1] = stack[2]
        BY <3>1, <1>NextTop
      <4>2. /\ stack[2].f \in {"flush", "get"} /\ stack[2].c = stack[1].c /\ stack[2].i = stack[1].i
            /\ stack[1].i \in 1 .. Size[stack[1].c]
        BY <3>1, <1>Caller DEF Calls, SameEntry, FrameOK
      <4> QED
        BY <4>1, <4>2 DEF TopOK
    <3> QED
      BY <3>1, <1>StackedPop DEF Results
  \* The innermost call goes on.
  <2>StackedSame. ASSUME StackShape(T), Cleaner, stack # <<>>, UNCHANGED stack, ret' = Null
         PROVE  Stacked' /\ BottomStep
    <3> USE <2>StackedSame
    <3>1. stack \in Seq(Frames(T)) /\ \A f \in Frames(T) : f.c \in Caches
      BY <1>ShapeFramed
    <3>2. \A p \in 1 .. Len(stack) : stack[p] \in Frames(T)
      BY <3>1, SMT
    <3>3. \A p \in 1 .. Len(stack) : \A f : f = stack[p] => FrameOK(f)'
      BY <3>1, <3>2, <1>FrameKept DEF Stacked
    <3>4. \A p \in 1 .. Len(stack') : FrameOK(stack[p])'
      <4> TAKE p \in 1 .. Len(stack')
      <4> SUFFICES ASSUME NEW f, f = stack'[p] PROVE FrameOK(f)'
        BY DEF FrameOK
      <4> QED
        BY <3>3
    <3>5. TopOK(stack[1])'
      BY Qcow2Assumption DEF TopOK
    <3>6. Stacked'
      BY <3>4, <3>5 DEF Stacked
    <3> QED
      BY <3>6 DEF BottomStep, SameCall
  \* qcow2_cache_entry_flush writes a table.
  <2>TableWritten.
         ASSUME NEW c \in Caches, NEW i \in 1 .. Size[c], entries[c][i].offset # Null,
                WriteTable(entries[c][i].offset), entries' = [entries EXCEPT ![c][i].dirty = FALSE],
                UNCHANGED mem
         PROVE  CacheOK' /\ Grows(c) /\ Kept /\ Cleaner /\ ~entries'[c][i].dirty
    <3> USE <2>TableWritten
    <3> DEFINE e == [entries[c][i] EXCEPT !.dirty = FALSE]
    <3>1. entries[c][i] \in Entry /\ entries[c][i].offset \in Tables(c) \cup {Null} /\ Shaped(entries)
      BY DEF CacheOK, Shaped
    <3>2. /\ e \in Entry /\ e.offset = entries[c][i].offset /\ ~e.dirty
          /\ e.offset \in Tables(c) \cup {Null}
      BY <3>1 DEF Entry
    <3>3. entries' = Replaced(entries, c, i, e)
      BY DEF Replaced
    <3> HIDE DEF e
    <3>4. Shaped(entries') /\ OneChanged(entries, entries', c, i, e)
      BY <3>1, <3>2, <3>3, Changed
    <3>5. OnlyCleans(c, i)
      <4>1. \A d \in Caches : \A j \in 1 .. Size[d] :
              /\ d = c /\ j = i => entries'[d][j] = e
              /\ ~(d = c /\ j = i) => entries'[d][j] = entries[d][j]
        BY <3>4 DEF OneChanged
      <4> QED
        BY <3>2, <4>1 DEF OnlyCleans
    <3>6. ~entries'[c][i].dirty
      BY <3>2, <3>4 DEF OneChanged
    <3>7. Cleaner
      BY <3>5, <3>6 DEF Cleaner, OnlyCleans
    <3>8. PICK t : t = entries[c][i].offset
      OBVIOUS
    <3>9. PICK part \in SUBSET InTable(t) : part = InTable(t)
      OBVIOUS
    <3>10. /\ disk' = [x \in Locations |-> IF x \in part THEN mem[x] ELSE disk[x]]
           /\ poss' = [x \in Locations |-> IF x \in InTable(t) THEN poss[x] \cup {mem[x]} ELSE poss[x]]
      BY <3>8, <3>9 DEF WriteTable
    <3>11. CacheOK' /\ Grows(c) /\ \A x \in Tabled : Val(x)' = Val(x)
      <4>1. t # Null /\ (entries'[c][i].dirty \/ part = InTable(t))
        BY <3>8, <3>9
      <4>2. Shaped(entries')
        BY <3>4
      <4> QED
        BY <3>5, <3>8, <3>10, <4>1, <4>2, <2>WrittenOK
    <3> QED
      BY <3>6, <3>7, <3>11, CleanerKeeps DEF Kept
  \* bdrv_pwrite fails and has written some of a table.
  <2>PartWritten.
         ASSUME NEW c \in Caches, NEW i \in 1 .. Size[c], entries[c][i].offset # Null, entries[c][i].dirty,
                WriteFails(entries[c][i].offset), UNCHANGED <<entries, mem>>
         PROVE  CacheOK' /\ Grows(c) /\ Kept /\ Cleaner
    <3> USE <2>PartWritten
    <3>1. PICK t : t = entries[c][i].offset
      OBVIOUS
    <3>2. PICK part \in SUBSET InTable(t) :
            disk' = [x \in Locations |-> IF x \in part THEN mem[x] ELSE disk[x]]
      BY <3>1 DEF WriteFails
    <3>3. poss' = [x \in Locations |-> IF x \in InTable(t) THEN poss[x] \cup {mem[x]} ELSE poss[x]]
      BY <3>1 DEF WriteFails
    <3>4. Shaped(entries') /\ Cleaner /\ OnlyCleans(c, i)
      BY DEF CacheOK, Cleaner, OnlyCleans
    <3>5. CacheOK' /\ Grows(c) /\ \A x \in Tabled : Val(x)' = Val(x)
      BY <3>1, <3>2, <3>3, <3>4, <2>WrittenOK
    <3> QED
      BY <3>4, <3>5, CleanerKeeps DEF Kept
  <2> DEFINE e == entries[Top.c][Top.i]
  <2>1. stack # <<>> /\ Top.f = "entry" /\ StackShape(T) /\ UNCHANGED mem
    BY DEF EntryFlush, In, CallsInv, cacheVars
  <2>2. Top = stack[1] /\ Top.c \in Caches /\ Top.i \in 1 .. Size[Top.c]
    <3>1. Top = stack[1] /\ Top.c \in Caches /\ Len(stack) \in Nat /\ Len(stack) >= 1
      BY <2>1, TopFrame
    <3>2. \A n \in Nat : n >= 1 => 1 \in 1 .. n
      BY SMT
    <3>3. FrameOK(stack[1])
      BY <3>1, <3>2 DEF Stacked
    <3> QED
      BY <2>1, <3>1, <3>3 DEF FrameOK
  <2>3. \A f : f = stack[1] => (ret' \in Results => Done(f)')
    BY <2>1, <2>2 DEF Done
  <2>4. CASE (~e.dirty \/ e.offset = Null) /\ Return("ok") /\ UNCHANGED <<cacheVars, fileVars>>
    <3>1. UNCHANGED <<entries, mem, disk, poss>> /\ stack' = Tail(stack) /\ ret' = "ok"
      BY <2>4 DEF cacheVars, fileVars, Return
    <3>2. CacheOK' /\ Kept /\ Cleaner
      BY <3>1, QuietStep
    <3>3. ~e.dirty
      BY <2>2, <2>4 DEF CacheOK, Coherent
    <3>4. ~entries'[stack[1].c][stack[1].i].dirty
      BY <2>2, <3>1, <3>3
    <3>5. Stacked'
      BY <2>1, <2>2, <3>1, <3>2, <3>4, <2>EntryReturnsOk
    <3>6. BottomStep
      BY <2>1, <2>3, <3>1, <1>BottomPop DEF Results
    <3> QED
      BY <3>1, <3>2, <3>5, <3>6 DEF StepOK, FileStep
  <2>5. CASE Call(DependencyFrame(Top.c)) /\ UNCHANGED <<cacheVars, fileVars>>
    <3>1. PICK fr : fr = DependencyFrame(Top.c)
      OBVIOUS
    <3>2. /\ UNCHANGED <<entries, mem, disk, poss>> /\ stack' = <<fr>> \o stack /\ ret' = Null
      BY <2>5, <3>1 DEF cacheVars, fileVars, Call
    <3>3. CacheOK' /\ Kept /\ Cleaner
      BY <3>2, QuietStep
    <3>4. fr \in Frames(T) /\ fr.f = "dependency"
      BY <2>2, <3>1 DEF DependencyFrame, Frames, DependencyFrames
    <3>5. FrameOK(fr)'
      BY <3>4 DEF FrameOK
    <3>6. Stacked' /\ BottomStep
      BY <2>1, <3>2, <3>3, <3>4, <3>5, <1>StackedPush, <1>BottomPush DEF SameEntry
    <3> QED
      BY <3>2, <3>3, <3>6 DEF StepOK, FileStep
  <2>6. CASE FlushFile /\ Continue /\ UNCHANGED entries
    <3>1. CacheOK' /\ Kept /\ Cleaner /\ \A x \in Locations : poss'[x] = {disk[x]}
      BY <2>1, <2>6, <1>FlushStep
    <3>2. Stacked' /\ BottomStep
      BY <2>1, <2>6, <3>1, <2>StackedSame DEF Continue
    <3> QED
      BY <2>6, <3>1, <3>2 DEF StepOK, FileStep, FlushFile
  <2>7. CASE Return("error") /\ UNCHANGED <<entries, disk, poss>>
    <3>1. CacheOK' /\ Kept /\ Cleaner
      BY <2>1, <2>7, QuietStep
    <3>2. Stacked' /\ BottomStep
      BY <2>1, <2>7, <3>1, <1>ReturnsError, <1>BottomPop, <1>FailsDone DEF Return
    <3> QED
      BY <2>7, <3>1, <3>2 DEF StepOK, FileStep
  <2>8. CASE /\ e.offset # Null /\ depends[Top.c] = Null /\ Top.c \notin onFlush
             /\ WriteTable(e.offset) /\ entries' = [entries EXCEPT ![Top.c][Top.i].dirty = FALSE]
             /\ Return("ok")
    <3>1. CacheOK' /\ Grows(Top.c) /\ Kept /\ Cleaner /\ ~entries'[Top.c][Top.i].dirty
      BY <2>1, <2>2, <2>8, <2>TableWritten
    <3>2. stack' = Tail(stack) /\ ret' = "ok"
      BY <2>8 DEF Return
    <3>3. Stacked'
      BY <2>1, <2>2, <3>1, <3>2, <2>EntryReturnsOk
    <3>4. BottomStep
      BY <2>1, <2>3, <3>2, <1>BottomPop DEF Results
    <3> QED
      BY <2>2, <2>8, <3>1, <3>3, <3>4 DEF StepOK, FileStep
  <2>9. CASE /\ e.dirty /\ e.offset # Null /\ depends[Top.c] = Null /\ Top.c \notin onFlush
             /\ WriteFails(e.offset) /\ Return("error") /\ UNCHANGED entries
    <3>1. CacheOK' /\ Grows(Top.c) /\ Kept /\ Cleaner
      BY <2>1, <2>2, <2>9, <2>PartWritten
    <3>2. Stacked' /\ BottomStep
      BY <2>1, <2>9, <3>1, <1>ReturnsError, <1>BottomPop, <1>FailsDone DEF Return
    <3> QED
      BY <2>2, <2>9, <3>1, <3>2 DEF StepOK, FileStep
  <2> QED
    BY <2>4, <2>5, <2>6, <2>7, <2>8, <2>9 DEF EntryFlush, MustFlushFirst
\* qcow2_cache_set_dependency.
<1>SetDependencyOK. CASE SetDependency
  <2> USE <1>SetDependencyOK
  <2>1. /\ stack # <<>> /\ Top.f = "set" /\ UNCHANGED <<entries, mem, disk, poss>> /\ StackShape(T)
    BY DEF SetDependency, In, fileVars, CallsInv
  <2>2. CacheOK' /\ Kept /\ Cleaner
    BY <2>1, QuietStep
  <2>3. Top = stack[1] /\ Top.c \in Caches /\ Top.d \in Caches /\ Len(stack) = 1
    BY <2>1, TopFrame
  <2>4. ~(Len(stack) >= 2)
    BY <2>3, SMT
  <2>5. CASE Owed(Top.c, Top.d) # Null
    <3>1. PICK fr : fr = DependencyFrame(Owed(Top.c, Top.d))
      OBVIOUS
    <3>2. stack' = <<fr>> \o stack /\ ret' = Null
      BY <2>5, <3>1 DEF SetDependency, Call
    <3>3. Owed(Top.c, Top.d) \in Caches
      BY <2>3, <2>5 DEF Owed
    <3>4. fr \in Frames(T) /\ fr.f = "dependency"
      BY <3>1, <3>3 DEF DependencyFrame, Frames, DependencyFrames
    <3>5. FrameOK(fr)'
      BY <3>4 DEF FrameOK
    <3>6. Stacked' /\ BottomStep
      BY <2>1, <2>2, <3>2, <3>4, <3>5, <1>StackedPush, <1>BottomPush DEF SameEntry
    <3> QED
      BY <2>1, <2>2, <3>6 DEF StepOK, FileStep
  <2>6. CASE Owed(Top.c, Top.d) = Null
    <3>1. depends' = [depends EXCEPT ![Top.c] = Top.d] /\ stack' = Tail(stack) /\ ret' = "ok"
      BY <2>6 DEF SetDependency, Return
    <3>2. depends'[Top.c] = Top.d
      BY <2>3, <3>1 DEF CallsInv, OneDeep
    <3>3. \A f : f = stack[1] => Done(f)'
      BY <2>1, <2>3, <3>1, <3>2 DEF Done, Results
    <3>4. Stacked' /\ BottomStep
      BY <2>1, <2>2, <2>4, <3>1, <3>3, <1>StackedPop, <1>BottomPop DEF Results
    <3> QED
      BY <2>1, <2>2, <3>4 DEF StepOK, FileStep
  <2> QED
    BY <2>5, <2>6
<1>CacheGetOK. CASE CacheGet
  <2> USE <1>CacheGetOK
  <2>CountedKeeps. ASSUME Shaped(entries), NEW c \in Caches, NEW found
         PROVE  Shaped(CountedUp(c, found)) /\ SameTables(entries, CountedUp(c, found))
    <3> USE <2>CountedKeeps
    <3> DEFINE U == UNION {[1 .. Size[d] -> Entry] : d \in Caches}
    <3> DEFINE up(i) == [entries[c][i] EXCEPT !.ref = @ + 1]
    <3> DEFINE row == [i \in 1 .. Size[c] |-> IF i \in found THEN up(i) ELSE entries[c][i]]
    <3> DEFINE new == CountedUp(c, found)
    <3>1. \A i \in 1 .. Size[c] : /\ entries[c][i] \in Entry
                                  /\ entries[c][i].offset \in Tables(c) \cup {Null}
      BY DEF Shaped
    <3>2. \A i \in 1 .. Size[c] : entries[c][i].ref + 1 \in Int
      BY <3>1, SMT DEF Entry
    <3>3. \A i \in 1 .. Size[c] : /\ up(i) \in Entry /\ up(i).offset = entries[c][i].offset
                                  /\ up(i).dirty = entries[c][i].dirty
      BY <3>1, <3>2 DEF Entry
    <3>4. new = [entries EXCEPT ![c] = row]
      BY DEF CountedUp
    <3> HIDE DEF up, new
    <3>5. /\ row \in [1 .. Size[c] -> Entry]
          /\ \A i \in 1 .. Size[c] : row[i].offset = entries[c][i].offset /\ row[i].dirty = entries[c][i].dirty
      BY <3>1, <3>3
    <3> HIDE DEF row
    <3>6. row \in U /\ entries \in [Caches -> U]
      BY <3>5 DEF Shaped
    <3> HIDE DEF U
    <3>7. new \in [Caches -> U] /\ \A d \in Caches : new[d] = IF d = c THEN row ELSE entries[d]
      BY <3>4, <3>6
    <3>8. SameTables(entries, new)
      BY <3>5, <3>7 DEF SameTables
    <3>9. \A d \in Caches : /\ new[d] \in [1 .. Size[d] -> Entry]
                            /\ \A i \in 1 .. Size[d] : new[d][i].offset \in Tables(d) \cup {Null}
      BY <3>5, <3>7, <3>8 DEF Shaped, SameTables
    <3> QED
      BY <3>7, <3>8, <3>9 DEF Shaped, U, new
  <2>1. /\ stack # <<>> /\ Top.f = "get" /\ UNCHANGED <<mem, disk, poss>> /\ StackShape(T)
    BY DEF CacheGet, In, fileVars, CallsInv
  <2>2. Len(stack) = 1 /\ Top = stack[1] /\ Top \in GetFrames(T) /\ Top.c \in Caches
    BY <2>1, <1>GetIsLast
  <2>3. ~(Len(stack) >= 2) /\ 1 \in 1 .. Len(stack)
    BY <2>2, SMT
  <2>4. CASE Holding(Top.c, Top.t) # {}
    <3>1. entries' = CountedUp(Top.c, Holding(Top.c, Top.t)) /\ stack' = Tail(stack) /\ ret' = "ok"
      BY <2>4 DEF CacheGet, Return, CountedUp
    <3>2. Shaped(entries') /\ SameTables(entries, entries')
      BY <2>2, <3>1, <2>CountedKeeps DEF CacheOK
    <3>3. CacheOK' /\ \A x \in Tabled : Val(x)' = Val(x)
      BY <2>1, <3>2, SameOK, Places DEF CacheOK, FileTyped
    <3>4. Cleaner
      BY <3>2 DEF Cleaner, SameTables
    <3>5. Kept
      BY <3>3, <3>4, CleanerKeeps DEF Kept
    <3>6. \A f : f = stack[1] => Done(f)'
      <4>1. \A c, t : c = Top.c /\ t = Top.t => Holding(c, t)' # {}
        <5>1. PICK i \in 1 .. Size[Top.c] : entries[Top.c][i].offset = Top.t
          BY <2>4 DEF Holding
        <5>2. entries'[Top.c][i].offset = Top.t
          BY <2>2, <3>2, <5>1 DEF SameTables
        <5> QED
          BY <5>2 DEF Holding
      <4> QED
        BY <2>1, <2>2, <3>1, <4>1 DEF Done, Results
    <3>7. Stacked' /\ BottomStep
      BY <2>1, <2>3, <3>1, <3>4, <3>6, <1>StackedPop, <1>BottomPop DEF Results
    <3> QED
      BY <2>1, <3>3, <3>5, <3>7 DEF StepOK, FileStep
  <2>5. CASE Holding(Top.c, Top.t) = {}
    <3>1. PICK i \in 1 .. Size[Top.c] : CallFrom([Top EXCEPT !.i = i], EntryFrame(Top.c, i))
      BY <2>5 DEF CacheGet
    <3>2. UNCHANGED entries
      BY <2>5 DEF CacheGet
    <3>3. CacheOK' /\ Kept /\ Cleaner
      BY <2>1, <3>2, QuietStep
    <3>4. PICK top : top = [Top EXCEPT !.i = i]
      OBVIOUS
    <3>5. PICK fr : fr = EntryFrame(Top.c, i)
      OBVIOUS
    <3>6. i \in Int
      BY <2>2, Places, SMT
    <3>7. /\ top.f = "get" /\ top.c = Top.c /\ top.t = Top.t /\ top.i = i /\ top \in Frames(T)
          /\ fr.f = "entry" /\ fr.c = Top.c /\ fr.i = i /\ fr \in Frames(T)
      <4>1. Top \in GetFrames(T)
        BY <2>2
      <4>2. top.f = "get" /\ top.c = Top.c /\ top.t = Top.t /\ top.i = i /\ top \in GetFrames(T)
        BY <3>4, <3>6, <4>1 DEF GetFrames
      <4>3. fr.f = "entry" /\ fr.c = Top.c /\ fr.i = i /\ fr \in EntryFrames
        BY <2>2, <3>5, <3>6 DEF EntryFrame, EntryFrames
      <4> QED
        BY <4>2, <4>3 DEF Frames
    <3>8. stack' = <<fr, top>> \o Tail(stack) /\ ret' = Null
      BY <3>1, <3>4, <3>5 DEF CallFrom
    <3>9. Len(stack') = 2 /\ stack'[1] = fr /\ stack'[2] = top /\ stack' # <<>>
      <4>1. stack \in Seq(Frames(T)) /\ <<fr, top>> \in Seq(Frames(T)) /\ Len(<<fr, top>>) = 2
        BY <3>7, SMT DEF CallsInv, StackShape
      <4>2. Tail(stack) \in Seq(Frames(T)) /\ Len(Tail(stack)) = 0
        BY <2>1, <2>2, <4>1, TailShifts, SMT
      <4>3. Len(stack') = 2 + 0 /\ \A j \in 1 .. 2 + 0 : stack'[j] = IF j <= 2 THEN <<fr, top>>[j] ELSE Tail(stack)[j - 2]
        BY <3>8, <4>1, <4>2, Joins, SMT
      <4> QED
        BY <4>3, SMT
    <3>10. FrameOK(fr)' /\ FrameOK(top)' /\ SameEntry(top, fr)
      <4>1. FrameOK(Top)
        BY <2>2, <2>3 DEF Stacked
      <4>2. \A c, t : c = Top.c /\ t = Top.t => Holding(c, t)' = {} /\ t \in Tables(c)
        BY <2>1, <2>5, <3>2, <4>1 DEF Holding, FrameOK
      <4> QED
        BY <3>7, <4>2 DEF FrameOK, SameEntry
    <3>11. \A p \in 1 .. Len(stack') : p = 1 \/ (p = 2 /\ ~(p + 1 <= Len(stack')))
      BY <3>9, SMT
    <3>12. Stacked'
      <4>1. \A p \in 1 .. Len(stack') : FrameOK(stack[p])'
        <5> TAKE p \in 1 .. Len(stack')
        <5> SUFFICES ASSUME NEW f, f = stack'[p] PROVE FrameOK(f)'
          BY DEF FrameOK
        <5> QED
          BY <3>9, <3>10, <3>11
      <4>2. \A p \in 1 .. Len(stack') : p + 1 <= Len(stack') => SameEntry(stack'[p + 1], stack'[p])
        <5>1. 1 + 1 = 2
          BY SMT
        <5> QED
          BY <3>9, <3>10, <3>11, <5>1
      <4>3. TopOK(stack[1])'
        BY <3>8, Qcow2Assumption DEF TopOK
      <4> QED
        BY <3>8, <4>1, <4>2, <4>3 DEF Stacked
    <3>13. BottomStep
      BY <2>1, <2>2, <3>7, <3>9 DEF BottomStep, SameCall
    <3> QED
      BY <2>1, <3>2, <3>3, <3>12, <3>13 DEF StepOK, FileStep
  <2> QED
    BY <2>4, <2>5
\* qcow2_cache_do_get reads the table, or fails to.
<1>CacheReadOK. CASE CacheRead
  <2> USE <1>CacheReadOK
  \* Reading a table into an entry that is clean, or giving the entry up: what it held is
  \* in the image file, and t is not cached yet.
  <2>ReadOK.
         ASSUME NEW c \in Caches, NEW i \in 1 .. Size[c], ~entries[c][i].dirty, NEW t \in Tables(c) \cup {Null},
                Holding(c, t) = {} \/ t = Null, NEW e \in Entry, HoldsClean(e, t), Shaped(entries'),
                OneChanged(entries, entries', c, i, e),
                mem' = [x \in Locations |-> IF x \in InTable(t) THEN disk[x] ELSE IF x \in InTable(entries[c][i].offset) THEN Null ELSE mem[x]],
                UNCHANGED <<disk, poss>>
         PROVE  /\ CacheOK'
                /\ \A x \in Tabled : Val(x)' = Val(x)
                /\ entries'[c][i].offset = t /\ \A d \in Caches : Clean(d) => Clean(d)'
    <3> USE <2>ReadOK
    <3> DEFINE old == entries[c][i].offset
    <3>3. \A d \in Caches : \A j \in 1 .. Size[d] :
            /\ d = c /\ j = i => entries'[d][j].offset = t /\ ~entries'[d][j].dirty
            /\ d # c \/ j # i => entries'[d][j] = entries[d][j]
      BY DEF OneChanged, HoldsClean
    <3>4. old \in Tables(c) \cup {Null}
      BY DEF CacheOK, Shaped
    <3>5. \A x \in Locations : mem'[x] = IF x \in InTable(t) THEN disk[x]
                                         ELSE IF x \in InTable(old) THEN Null ELSE mem[x]
      OBVIOUS
    <3>6. /\ \A x \in InTable(t) : x \in Tabled /\ CacheOf(x) = c /\ HomeOf[x] = t /\ x \in Locations
          /\ \A x \in InTable(old) : x \in Tabled /\ CacheOf(x) = c /\ HomeOf[x] = old /\ mem[x] = disk[x]
      <4>1. \A x \in InTable(t) : x \in Tabled /\ CacheOf(x) = c /\ HomeOf[x] = t
        BY Places DEF InTable
      <4>2. \A x \in InTable(old) : x \in Tabled /\ CacheOf(x) = c /\ HomeOf[x] = old
        BY <3>4, Places DEF InTable
      <4>3. \A x \in InTable(old) : mem[x] = disk[x]
        BY DEF CacheOK, Coherent
      <4> QED
        BY <4>1, <4>2, <4>3, Places
    <3>7. \A x \in InTable(t) : ~Cached(x) /\ Cached(x)'
      <4> TAKE x \in InTable(t)
      <4>1. t # Null
        BY <3>6, Places
      <4>2. ~Cached(x)
        BY <3>6, <4>1 DEF Cached, Holding
      <4>3. entries'[c][i].offset = HomeOf[x] /\ CacheOf(x) = c
        BY <3>3, <3>6
      <4>4. Cached(x)'
        BY <4>3 DEF Cached
      <4> QED
        BY <4>2, <4>4
    <3>8. \A x \in Tabled : x \in InTable(t) \/ x \in InTable(old) \/ (Cached(x)' <=> Cached(x))
      <4> SUFFICES ASSUME NEW x \in Tabled, HomeOf[x] # t, HomeOf[x] # old
                   PROVE  Cached(x)' <=> Cached(x)
        BY DEF InTable
      <4>1. \A j \in 1 .. Size[CacheOf(x)] :
              entries'[CacheOf(x)][j].offset = HomeOf[x] <=> entries[CacheOf(x)][j].offset = HomeOf[x]
        <5> TAKE j \in 1 .. Size[CacheOf(x)]
        <5>1. CASE CacheOf(x) = c /\ j = i
          BY <3>3, <5>1
        <5>2. CASE CacheOf(x) # c \/ j # i
          BY <3>3, <5>2, Places
        <5> QED
          BY <5>1, <5>2
      <4> QED
        BY <4>1 DEF Cached
    <3>9. \A x \in InTable(old) : x \notin InTable(t) => ~Cached(x)'
      <4> SUFFICES ASSUME NEW x \in InTable(old), x \notin InTable(t),
                          NEW j \in 1 .. Size[c], entries'[c][j].offset = HomeOf[x]
                   PROVE  FALSE
        BY <3>6 DEF Cached
      <4>1. x \in Tabled /\ HomeOf[x] = old /\ old # Null /\ old # t
        BY <3>6, Places DEF InTable
      <4>2. j # i /\ entries[c][j].offset = old
        BY <3>3, <4>1
      <4> QED
        BY <4>1, <4>2 DEF CacheOK, Coherent
    <3>10. ASSUME NEW x \in Tabled PROVE Val(x)' = Val(x)
      <4>0. x \in Locations
        BY Places
      <4>1. CASE x \in InTable(t)
        BY <3>5, <3>6, <3>7, <4>1 DEF Val
      <4>2. CASE x \notin InTable(t) /\ x \in InTable(old)
        BY <3>6, <3>9, <4>2 DEF Val
      <4>3. CASE x \notin InTable(t) /\ x \notin InTable(old)
        BY <3>5, <3>8, <4>0, <4>3 DEF Val
      <4> QED
        BY <4>1, <4>2, <4>3
    <3>11. FileTyped'
      <4>1. mem' \in [Locations -> Contents]
        <5>1. \A x \in Locations : (IF x \in InTable(t) THEN disk[x]
                                   ELSE IF x \in InTable(old) THEN Null ELSE mem[x]) \in Contents
          BY DEF CacheOK, FileTyped, Contents
        <5> QED
          BY <5>1
      <4>2. ASSUME NEW x \in Tabled, Cached(x)' PROVE mem'[x] \in Values(x)
        <5>1. x \in Locations /\ disk[x] \in Values(x)
          BY Places DEF CacheOK, FileTyped
        <5>2. x \in InTable(t) \/ (x \notin InTable(old) /\ Cached(x))
          BY <3>8, <3>9, <4>2
        <5> QED
          BY <3>5, <5>1, <5>2 DEF CacheOK, FileTyped
      <4> QED
        BY <4>1, <4>2 DEF CacheOK, FileTyped
    <3>12. ASSUME NEW d \in Caches, NEW j \in 1 .. Size[d], ~entries'[d][j].dirty,
                  NEW x \in InTable(entries'[d][j].offset)
           PROVE  mem'[x] = disk'[x]
      <4>1. x \in Tabled /\ x \in Locations /\ HomeOf[x] = entries'[d][j].offset
        BY <3>12, Places DEF InTable
      <4>2. CASE d = c /\ j = i
        BY <3>3, <3>5, <3>12, <4>1, <4>2
      <4>3. CASE ~(d = c /\ j = i)
        <5>1. entries'[d][j].offset = entries[d][j].offset /\ ~entries[d][j].dirty
          BY <3>3, <3>12, <4>3
        <5>2. mem[x] = disk[x]
          BY <3>12, <5>1 DEF CacheOK, Coherent
        <5>3. x \in InTable(t) \/ x \notin InTable(old)
          <6> SUFFICES ASSUME x \in InTable(old) PROVE FALSE
            OBVIOUS
          <6>1. entries[d][j].offset = old /\ old # Null
            BY <3>6, <4>1, <5>1, Places
          <6>2. entries[d][j].offset \in Tables(d)
            BY <6>1 DEF CacheOK, Shaped
          <6>3. d = c
            BY <3>6, <6>1, <6>2, Places
          <6> QED
            BY <4>3, <6>1, <6>3 DEF CacheOK, Coherent
        <5> QED
          BY <3>5, <4>1, <5>2, <5>3
      <4> QED
        BY <4>2, <4>3
    <3>13. ASSUME NEW d \in Caches, NEW j \in 1 .. Size[d]
           PROVE  entries'[d][j].offset = Null => ~entries'[d][j].dirty
      <4>1. entries[d][j].offset = Null => ~entries[d][j].dirty
        BY DEF CacheOK, Coherent
      <4> QED
        BY <3>3, <4>1
    <3>14. ASSUME NEW d \in Caches, NEW j \in 1 .. Size[d], NEW k \in 1 .. Size[d], j # k,
                  entries'[d][j].offset = entries'[d][k].offset
           PROVE  entries'[d][j].offset = Null
      <4>1. CASE d = c /\ (j = i \/ k = i)
        <5>1. t = Null \/ (\A q \in 1 .. Size[c] : entries[c][q].offset # t)
          BY DEF Holding
        <5>2. CASE j = i
          BY <3>3, <3>14, <4>1, <5>1, <5>2
        <5>3. CASE k = i
          BY <3>3, <3>14, <4>1, <5>1, <5>3
        <5> QED
          BY <4>1, <5>2, <5>3
      <4>2. CASE ~(d = c /\ (j = i \/ k = i))
        <5>1. entries'[d][j].offset = entries[d][j].offset /\ entries'[d][k].offset = entries[d][k].offset
          BY <3>3, <4>2
        <5> QED
          BY <3>14, <5>1 DEF CacheOK, Coherent
      <4> QED
        BY <4>1, <4>2
    <3>15. Coherent'
      BY <3>12, <3>13, <3>14 DEF Coherent
    <3>16. \A d \in Caches : Clean(d) => Clean(d)'
      BY <3>3 DEF Clean
    <3> QED
      BY <3>3, <3>10, <3>11, <3>15, <3>16 DEF CacheOK
  <2>1. /\ stack # <<>> /\ Top.f = "get" /\ ret = "ok" /\ UNCHANGED <<disk, poss>> /\ StackShape(T)
    BY DEF CacheRead, In, CallsInv
  <2>2. Len(stack) = 1 /\ Top = stack[1] /\ Top \in GetFrames(T) /\ Top.c \in Caches
    BY <2>1, <1>GetIsLast
  <2>3. PICK c, i, t : /\ c = Top.c /\ i = Top.i /\ t = Top.t
                       /\ c \in Caches /\ i \in 1 .. Size[Top.c]
    <3>1. TopOK(stack[1])
      BY <2>1 DEF Stacked
    <3>2. Top.i \in 1 .. Size[Top.c]
      BY <2>1, <2>2, <3>1, Qcow2Assumption DEF TopOK
    <3> QED
      BY <2>2, <3>2
  <2>4. c \in Caches /\ i \in 1 .. Size[c] /\ ~entries[c][i].dirty /\ t \in Tables(c) /\ Holding(c, t) = {}
    <3>1. 1 \in 1 .. Len(stack)
      BY <2>2, SMT
    <3>2. FrameOK(Top) /\ TopOK(Top)
      BY <2>1, <2>2, <3>1 DEF Stacked
    <3>3. i # 0
      <4>1. Size[Top.c] \in Nat
        BY <2>2, Places
      <4> QED
        BY <2>3, <4>1, SMT
    <3> QED
      BY <2>1, <2>3, <3>2, <3>3 DEF FrameOK, TopOK
  <2>5. entries[c][i] \in Entry /\ entries[c][i].ref \in Int /\ entries[c][i].ref + 1 \in Int
    <3>1. entries[c][i] \in Entry
      BY <2>4 DEF CacheOK, Shaped
    <3> QED
      BY <3>1, SMT DEF Entry
  <2>6. Shaped(entries) /\ entries[c][i].offset \in Tables(c) \cup {Null}
    BY <2>4 DEF CacheOK, Shaped
  <2>7. stack' = Tail(stack)
    BY DEF CacheRead, Return
  <2>8. Len(stack') = 0 /\ stack' = <<>>
    BY <2>1, <2>2, <2>7, TailShifts, SMT DEF StackShape
  <2>9. ASSUME ret' \in Results PROVE Stacked'
    <3>1. 1 .. Len(stack') = {}
      BY <2>8, SMT
    <3> QED
      BY <2>8, <2>9, <3>1 DEF Stacked
  <2>10. CASE /\ entries' = [entries EXCEPT ![c][i].offset = t, ![c][i].ref = @ + 1]
              /\ mem' = [x \in Locations |-> IF x \in InTable(t) THEN disk[x]
                                            ELSE [y \in Locations |-> IF y \in InTable(entries[c][i].offset)
                                                                      THEN Null ELSE mem[y]][x]]
              /\ ret' = "ok"
    <3> DEFINE e1 == [entries[c][i] EXCEPT !.offset = t]
    <3> DEFINE e == [e1 EXCEPT !.ref = @ + 1]
    <3> DEFINE mid == Replaced(entries, c, i, e1)
    <3>1. /\ e1 \in Entry /\ e1.offset = t /\ e1.offset \in Tables(c) \cup {Null} /\ e1.dirty = FALSE
          /\ e1.ref = entries[c][i].ref
      <4>1. t \in Tables(l2) \cup Tables(refcount) \cup {Null}
        BY <2>4 DEF Caches
      <4> QED
        BY <2>4, <2>5, <4>1 DEF Entry
    <3> HIDE DEF e1
    <3>2. e \in Entry /\ e.offset = t /\ ~e.dirty
      <4>1. e1.ref + 1 \in Int
        BY <2>5, <3>1
      <4>2. e \in Entry
        BY <3>1, <4>1 DEF Entry
      <4>3. e.offset = t /\ ~e.dirty
        BY <3>1 DEF Entry
      <4> QED
        BY <4>2, <4>3
    <3>3. Shaped(mid) /\ OneChanged(entries, mid, c, i, e1)
      BY <2>4, <2>6, <3>1, Changed
    <3>4. mid[c][i] = e1
      BY <2>4, <3>3 DEF OneChanged
    <3>5. entries' = [mid EXCEPT ![c][i].ref = @ + 1]
      BY <2>10 DEF Replaced, e1
    <3> HIDE DEF mid
    <3>6. entries' = Replaced(mid, c, i, e)
      BY <3>4, <3>5 DEF Replaced
    <3>7. e.offset \in Tables(c) \cup {Null}
      BY <2>4, <3>2
    <3> HIDE DEF e
    <3>8. Shaped(entries') /\ OneChanged(mid, entries', c, i, e)
      BY <2>4, <3>2, <3>3, <3>6, <3>7, Changed
    <3>9. OneChanged(entries, entries', c, i, e)
      BY <3>3, <3>8 DEF OneChanged
    <3>10. mem' = [x \in Locations |-> IF x \in InTable(t) THEN disk[x]
                                       ELSE IF x \in InTable(entries[c][i].offset) THEN Null ELSE mem[x]]
      BY <2>10
    <3>11. /\ CacheOK' /\ (\A x \in Tabled : Val(x)' = Val(x))
           /\ entries'[c][i].offset = t /\ \A d \in Caches : Clean(d) => Clean(d)'
      <4>1. HoldsClean(e, t) /\ t \in Tables(c) \cup {Null}
        BY <2>4, <3>2 DEF HoldsClean
      <4> QED
        <5>1. e \in Entry
          BY <3>2
        <5> QED
          BY <2>1, <2>4, <3>8, <3>9, <3>10, <4>1, <5>1, <2>ReadOK
    <3>12. \A f : f = stack[1] => Done(f)'
      <4>1. Holding(c, t)' # {}
        BY <2>4, <3>11 DEF Holding
      <4> QED
        BY <2>1, <2>2, <2>3, <2>10, <4>1 DEF Done, Results
    <3>13. BottomStep
      BY <2>1, <2>7, <3>12, <1>BottomPop
    <3> QED
      BY <2>1, <2>9, <2>10, <3>11, <3>13 DEF StepOK, FileStep, Kept, Results
  <2>11. CASE /\ entries' = [entries EXCEPT ![c][i].offset = Null]
              /\ mem' = [y \in Locations |-> IF y \in InTable(entries[c][i].offset) THEN Null ELSE mem[y]]
              /\ ret' = "error"
    <3> DEFINE e == [entries[c][i] EXCEPT !.offset = Null]
    <3>2. e \in Entry /\ e.offset = Null /\ ~e.dirty /\ e.offset \in Tables(c) \cup {Null}
      BY <2>4, <2>5 DEF Entry
    <3>4. entries' = Replaced(entries, c, i, e)
      BY <2>11 DEF Replaced
    <3> HIDE DEF e
    <3>5. Shaped(entries') /\ OneChanged(entries, entries', c, i, e)
      BY <2>4, <2>6, <3>2, <3>4, Changed
    <3>6. mem' = [x \in Locations |-> IF x \in InTable(Null) THEN disk[x]
                                      ELSE IF x \in InTable(entries[c][i].offset) THEN Null ELSE mem[x]]
      BY <2>11, Places
    <3>7. /\ CacheOK' /\ (\A x \in Tabled : Val(x)' = Val(x))
          /\ \A d \in Caches : Clean(d) => Clean(d)'
      <4>1. HoldsClean(e, Null) /\ Null \in Tables(c) \cup {Null}
        BY <3>2 DEF HoldsClean
      <4> QED
        BY <2>1, <2>4, <3>2, <3>5, <3>6, <4>1, <2>ReadOK
    <3>8. BottomStep
      BY <2>1, <2>7, <2>11, <1>BottomPop, <1>FailsDone
    <3> QED
      BY <2>1, <2>9, <2>11, <3>7, <3>8 DEF StepOK, FileStep, Kept, Results
  <2> QED
    BY <2>3, <2>10, <2>11 DEF CacheRead, Return
<1> QED
  BY <1>UnwindOK, <1>FlushNextOK, <1>FlushEndOK, <1>FlushDependencyOK, <1>EntryFlushOK, <1>SetDependencyOK, <1>CacheGetOK, <1>CacheReadOK DEF CacheStep

-----------------------------------------------------------------------------
(* The requests.                                                           *)

\* Where a request can be: without s->lock, with it and between two calls, or in a call.
Unlocked == {"idle", "data", "cow"}
Between == {"pick", "mark"}
GetsL2 == {"lookup", "update", "discard"}
GetsRefcount == {"allocate", "drop", "dropHeld"}
Frees == {"free", "freeHeld"}
FlushesL2 == {"flushL2", "closeL2", "cleanL2"}
FlushesRefcount == {"flushed", "close", "clean"}
Calling == GetsL2 \cup GetsRefcount \cup {"link"} \cup Frees \cup FlushesL2 \cup FlushesRefcount
Slotted == GetsL2 \cup {"pick", "allocate", "data", "cow", "mark", "link", "freeHeld", "dropHeld"}
Clustered == GetsRefcount \cup {"data", "cow", "mark", "link", "update"} \cup Frees

Everywhere == Unlocked \cup Between \cup Calling

Requesting == [at : Everywhere,
               slot : Slots \cup {Null}, cluster : Clusters \cup {Null}]

\* The call that a request is waiting for ...
CallOf(q, fr) ==
  /\ q.at \in Calling
  /\ q.at \in GetsL2 => fr.f = "get" /\ fr.c = l2 /\ fr.t = HomeOf[q.slot]
  /\ q.at \in GetsRefcount => fr.f = "get" /\ fr.c = refcount /\ fr.t = HomeOf[q.cluster]
  /\ q.at = "link" => fr.f = "set" /\ fr.c = l2 /\ fr.d = refcount
  /\ q.at \in Frees => fr.f = "set" /\ fr.c = refcount /\ fr.d = l2
  /\ q.at \in FlushesL2 => fr.f = "flush" /\ fr.c = l2
  /\ q.at \in FlushesRefcount => fr.f = "flush" /\ fr.c = refcount

\* ... and what it has once the call has returned.
Returned(q) ==
  /\ q.at \in Calling \ {"close"} => ret # Null
  /\ q.at \in GetsL2 /\ ret = "ok" => Cached(q.slot)
  /\ q.at \in GetsRefcount /\ ret = "ok" => Cached(q.cluster)
  /\ q.at = "link" /\ ret = "ok" => depends[l2] = refcount
  /\ q.at \in Frees /\ ret = "ok" => depends[refcount] = l2
  /\ q.at \in FlushesL2 /\ ret = "ok" => Clean(l2) /\ Permanent
  /\ q.at \in FlushesRefcount /\ ret = "ok" => Clean(refcount) /\ Permanent

ReqOK(r) ==
  /\ holder # r => req[r].at \in Unlocked
  /\ holder = r /\ stack # <<>> => CallOf(req[r], stack[Len(stack)])
  /\ holder = r /\ stack = <<>> => Returned(req[r])
  /\ req[r].at \in Slotted => req[r].slot \in Slots
  /\ req[r].at \in Clustered => req[r].cluster \in Clusters
  /\ req[r].at \in {"flushed", "clean"} => Clean(l2)
  /\ req[r].at \in {"cleanL2", "clean"} => ~bit

Requests ==
  /\ req \in [Reqs -> Requesting] /\ holder \in Reqs \cup {Null}
  /\ \A r \in Reqs : ReqOK(r)

\* Steps in qcow2-cache.c.
LEMMA CacheStepRequests ==
  ASSUME CacheOK, Stacked, NEW T, CallsInv(T), Requests, CacheStep, UNCHANGED reqVars
  PROVE  Requests'
<1>1. StepOK /\ UNCHANGED <<holder, req, bit>>
  BY CacheStepOK DEF reqVars, flags
<1>2. stack # <<>>
  BY DEF CacheStep, Unwind, FlushNext, FlushEnd, FlushDependency, EntryFlush, SetDependency,
               CacheGet, CacheRead, In
<1> SUFFICES ASSUME NEW r \in Reqs PROVE ReqOK(r)'
  BY <1>1 DEF Requests
<1>3. ReqOK(r)
  BY DEF Requests
<1>4. Clean(l2) => Clean(l2)'
  BY <1>1, CachesDiffer DEF StepOK, Kept
<1>5. ASSUME holder = r, stack' # <<>> PROVE CallOf(req[r], stack'[Len(stack')])
  <2>1. SameCall(stack'[Len(stack')], stack[Len(stack)]) /\ CallOf(req[r], stack[Len(stack)])
    BY <1>1, <1>2, <1>3, <1>5 DEF StepOK, BottomStep, ReqOK
  <2> QED
    BY <2>1 DEF SameCall, CallOf
<1>6. ASSUME holder = r, stack' = <<>> PROVE Returned(req[r])'
  <2>1. PICK fr : fr = stack[1]
    OBVIOUS
  <2>2. Done(fr)' /\ CallOf(req[r], fr)
    BY <1>1, <1>2, <1>3, <1>6, <2>1 DEF StepOK, BottomStep, ReqOK
  <2>3. ret' # Null
    BY <2>2, Qcow2Assumption DEF Done, Results
  <2>4. ASSUME ret' = "ok", req[r].at \in GetsL2 PROVE Cached(req[r].slot)'
    <3>1. req[r].slot \in Slots
      BY <1>3, <2>4 DEF ReqOK, Slotted
    <3>2. CacheOf(req[r].slot) = l2
      BY <3>1 DEF CacheOf
    <3>3. Holding(l2, HomeOf[req[r].slot])' # {}
      BY <1>1, <2>2, <2>4 DEF Done, CallOf
    <3> QED
      BY <1>1, <3>2, <3>3 DEF Cached, Holding
  <2>5. ASSUME ret' = "ok", req[r].at \in GetsRefcount PROVE Cached(req[r].cluster)'
    <3>1. req[r].cluster \in Clusters
      BY <1>3, <2>5 DEF ReqOK, Clustered
    <3>2. CacheOf(req[r].cluster) = refcount
      BY <3>1, Qcow2Assumption DEF CacheOf
    <3>3. Holding(refcount, HomeOf[req[r].cluster])' # {}
      BY <1>1, <2>2, <2>5 DEF Done, CallOf
    <3> QED
      BY <1>1, <3>2, <3>3 DEF Cached, Holding
  <2>6. ASSUME ret' = "ok"
        PROVE  /\ req[r].at = "link" => depends'[l2] = refcount
               /\ req[r].at \in Frees => depends'[refcount] = l2
    BY <2>2, <2>6 DEF Done, CallOf
  <2>7. ASSUME ret' = "ok"
        PROVE  /\ req[r].at \in FlushesL2 => Clean(l2)' /\ Permanent'
               /\ req[r].at \in FlushesRefcount => Clean(refcount)' /\ Permanent'
    BY <2>2, <2>7 DEF Done, CallOf
  <2> QED
    BY <1>1, <2>3, <2>4, <2>5, <2>6, <2>7 DEF Returned
<1> QED
  BY <1>1, <1>3, <1>4, <1>5, <1>6 DEF ReqOK

\* One request is changed.
Moved(r, q) ==
  /\ req' \in [Reqs -> Requesting] /\ req'[r] = q
  /\ \A p \in Reqs : p # r => req'[p] = req[p]

LEMMA Moves ==
  ASSUME Requests, NEW r \in Reqs, NEW q \in Requesting, req' = [req EXCEPT ![r] = q]
  PROVE  Moved(r, q)
  BY DEF Requests, Moved

LEMMA GoesMoves ==
  ASSUME Requests, NEW r \in Reqs, NEW w \in Everywhere, Goes(r, w)
  PROVE  \E q \in Requesting : /\ q.at = w /\ q.slot = req[r].slot /\ q.cluster = req[r].cluster
                               /\ Moved(r, q)
<1> DEFINE q == [req[r] EXCEPT !.at = w]
<1>1. req[r] \in Requesting
  BY DEF Requests
<1>2. q \in Requesting /\ q.at = w /\ q.slot = req[r].slot /\ q.cluster = req[r].cluster
  BY <1>1 DEF Requesting
<1>3. req' = [req EXCEPT ![r] = q]
  BY DEF Goes
<1> HIDE DEF q
<1>4. Moved(r, q)
  BY <1>2, <1>3, Moves
<1> QED
  BY <1>2, <1>4

LEMMA IdleMoves ==
  ASSUME Requests, NEW r \in Reqs, Finish(r)
  PROVE  Moved(r, Idle) /\ Idle.at = "idle" /\ holder' = Null /\ UNCHANGED stack /\ ret' = Null
<1>1. Idle \in Requesting /\ Idle.at = "idle"
  BY DEF Idle, Requesting, Everywhere, Unlocked
<1> QED
  BY <1>1, Moves DEF Finish, Unlock, Continue

LEMMA BeginsMoves ==
  ASSUME Requests, NEW r \in Reqs, NEW s \in Slots, NEW w \in GetsL2, Begins(r, w, s)
  PROVE  \E q \in Requesting : q.at = w /\ q.slot = s /\ q.cluster = Null /\ Moved(r, q)
<1> DEFINE q == [Idle EXCEPT !.at = w, !.slot = s]
<1>1. q \in Requesting /\ q.at = w /\ q.slot = s /\ q.cluster = Null
  <2>1. w \in Everywhere
    BY DEF Everywhere, Calling
  <2>2. Idle \in Requesting /\ Idle.cluster = Null
    BY DEF Idle, Requesting, Everywhere, Unlocked
  <2> QED
    BY <2>1, <2>2 DEF Requesting
<1>2. req' = [req EXCEPT ![r] = q]
  BY DEF Begins
<1> HIDE DEF q
<1>3. Moved(r, q)
  BY <1>1, <1>2, Moves
<1> QED
  BY <1>1, <1>3

MovedTo(r, w, s, k) ==
  \E q \in Requesting : q.at = w /\ q.slot = s /\ q.cluster = k /\ Moved(r, q)

LEMMA GoesForMoves ==
  ASSUME Requests, NEW r \in Reqs, NEW w \in Everywhere,
         NEW k \in Clusters, GoesFor(r, w, k)
  PROVE  MovedTo(r, w, req[r].slot, k)
<1> DEFINE q1 == [req[r] EXCEPT !.at = w]
<1> DEFINE q == [q1 EXCEPT !.cluster = k]
<1> DEFINE mid == [req EXCEPT ![r] = q1]
<1>1. req[r] \in Requesting /\ req \in [Reqs -> Requesting]
  BY DEF Requests
<1>2. q1 \in Requesting /\ q1.at = w /\ q1.slot = req[r].slot
  BY <1>1 DEF Requesting
<1>3. req' = [mid EXCEPT ![r].cluster = k]
  BY DEF GoesFor
<1> HIDE DEF q1
<1>4. q \in Requesting /\ q.at = w /\ q.slot = req[r].slot /\ q.cluster = k
  BY <1>2 DEF Requesting
<1>5. mid \in [Reqs -> Requesting] /\ mid[r] = q1 /\ \A p \in Reqs : p # r => mid[p] = req[p]
  BY <1>1, <1>2
<1> HIDE DEF mid
<1>6. req' = [mid EXCEPT ![r] = q]
  BY <1>3, <1>5
<1> HIDE DEF q
<1>7. Moved(r, q)
  BY <1>4, <1>5, <1>6 DEF Moved
<1> QED
  BY <1>4, <1>7 DEF MovedTo

\* The requests that do not have s->lock stay where they are.
LEMMA RequestMoves ==
  ASSUME Requests, NEW r \in Reqs, holder \in {r, Null}, holder' \in {r, Null},
         NEW q, Moved(r, q), ReqOK(r)'
  PROVE  Requests'
<1>1. ASSUME NEW p \in Reqs, p # r PROVE ReqOK(p)'
  <2>1. holder # p /\ holder' # p /\ req'[p] = req[p] /\ ReqOK(p)
    <3>1. p # Null
      BY ReqsAssumption
    <3> QED
      BY <1>1, <3>1 DEF Requests, Moved
  <2>2. req[p].at \in Unlocked /\ req[p].at \notin {"flushed", "clean"}
        /\ req[p].at \notin {"cleanL2", "clean"}
    BY <2>1 DEF ReqOK, Unlocked
  <2> QED
    BY <2>1, <2>2 DEF ReqOK
<1> QED
  BY <1>1 DEF Requests, Moved

\* No call is in progress, and none is made.
LEMMA NoneStacked == ASSUME stack' = <<>>, ret' \in Results \cup {Null} PROVE Stacked'
<1>1. 1 .. Len(<<>>) = {}
  BY SMT
<1> QED
  BY <1>1 DEF Stacked

\* A request makes a call.
LEMMA FirstStacked ==
  ASSUME stack = <<>>, NEW fr, Call(fr), FrameOK(fr)'
  PROVE  Stacked' /\ stack' # <<>> /\ stack'[Len(stack')] = fr
<1>1. stack' = <<fr>> \o <<>> /\ ret' = Null
  BY DEF Call
<1>2. <<fr>> \o <<>> = <<fr>> /\ Len(<<fr>>) = 1 /\ <<fr>>[1] = fr /\ <<fr>> # <<>> /\ 1 .. 1 = {1} /\ ~(1 + 1 <= 1)
  BY SMT
<1>3. Len(stack') = 1 /\ stack'[1] = fr /\ stack' # <<>>
  BY <1>1, <1>2
<1>4. \A p \in 1 .. Len(stack') : FrameOK(stack[p])'
  <2> TAKE p \in 1 .. Len(stack')
  <2> SUFFICES ASSUME NEW f, f = stack'[p] PROVE FrameOK(f)'
    BY DEF FrameOK
  <2> QED
    BY <1>2, <1>3
<1>5. TopOK(stack[1])'
  BY <1>1, Qcow2Assumption DEF TopOK
<1>6. \A p \in 1 .. Len(stack') : ~(p + 1 <= Len(stack'))
  BY <1>2, <1>3
<1> QED
  BY <1>1, <1>3, <1>4, <1>5, <1>6 DEF Stacked

LEMMA GetCalled ==
  ASSUME stack = <<>>, NEW c \in Caches, NEW x \in Tabled, CacheOf(x) = c, Call(GetFrame(c, HomeOf[x]))
  PROVE  /\ Stacked' /\ stack' # <<>>
         /\ \A f : f = stack'[Len(stack')] => f.f = "get" /\ f.c = c /\ f.t = HomeOf[x]
<1>1. PICK fr : fr = GetFrame(c, HomeOf[x])
  OBVIOUS
<1>2. fr.f = "get" /\ fr.c = c /\ fr.t = HomeOf[x] /\ fr.i = 0
  BY <1>1 DEF GetFrame
<1>3. FrameOK(fr)'
  BY <1>2, Places DEF FrameOK
<1>4. Stacked' /\ stack' # <<>> /\ stack'[Len(stack')] = fr
  BY <1>1, <1>3, FirstStacked
<1> QED
  BY <1>2, <1>4

LEMMA SetCalled ==
  ASSUME stack = <<>>, NEW c, NEW d, Call(SetFrame(c, d))
  PROVE  /\ Stacked' /\ stack' # <<>>
         /\ \A f : f = stack'[Len(stack')] => f.f = "set" /\ f.c = c /\ f.d = d
<1>1. PICK fr : fr = SetFrame(c, d)
  OBVIOUS
<1>2. fr.f = "set" /\ fr.c = c /\ fr.d = d
  BY <1>1 DEF SetFrame
<1>3. FrameOK(fr)'
  BY <1>2 DEF FrameOK
<1>4. Stacked' /\ stack' # <<>> /\ stack'[Len(stack')] = fr
  BY <1>1, <1>3, FirstStacked
<1> QED
  BY <1>2, <1>4

LEMMA FlushCalled ==
  ASSUME stack = <<>>, NEW c \in Caches, Call(FlushFrame(c))
  PROVE  /\ Stacked' /\ stack' # <<>>
         /\ \A f : f = stack'[Len(stack')] => f.f = "flush" /\ f.c = c
<1>1. PICK fr : fr = FlushFrame(c)
  OBVIOUS
<1>2. fr.f = "flush" /\ fr.c = c /\ fr.i = 1
  BY <1>1 DEF FlushFrame
<1>3. 1 >= 1 /\ \A j \in 1 .. Size[c] : ~(j < 1)
  BY Places, SMT
<1>4. FrameOK(fr)'
  BY <1>2, <1>3 DEF FrameOK
<1>5. Stacked' /\ stack' # <<>> /\ stack'[Len(stack')] = fr
  BY <1>1, <1>4, FirstStacked
<1> QED
  BY <1>2, <1>5

\* What the requests' steps do to the tables: nothing, or one location changes.
Quiet ==
  /\ CacheOK' /\ UNCHANGED <<disk, poss, depends>>
  /\ \A x \in Tabled : Val(x)' = Val(x)

Touch(x, v) ==
  /\ CacheOK' /\ UNCHANGED <<disk, poss, depends>>
  /\ \A y \in Tabled : Val(y)' = IF y = x THEN v ELSE Val(y)

RequestsOK == Stacked' /\ Requests'

LEMMA Quieter == ASSUME CacheOK, UNCHANGED <<entries, mem, disk, poss, depends>> PROVE Quiet
  BY QuietStep DEF Quiet, Kept

\* The request returns.
LEMMA Finishes ==
  ASSUME Requests, NEW r \in Reqs, holder \in {r, Null}, stack = <<>>, Finish(r)
  PROVE  RequestsOK /\ Moved(r, Idle) /\ Idle.at = "idle"
<1>1. Moved(r, Idle) /\ Idle.at = "idle" /\ holder' = Null /\ stack' = <<>> /\ ret' = Null
  BY IdleMoves
<1>2. req'[r].at = "idle"
  BY <1>1 DEF Moved
<1>3. ReqOK(r)'
  BY <1>1, <1>2, ReqsAssumption DEF ReqOK, Unlocked, Slotted, Clustered, GetsL2, GetsRefcount, Frees
<1>4. Requests'
  BY <1>1, <1>3, RequestMoves
<1> QED
  BY <1>1, <1>4, NoneStacked DEF RequestsOK

\* The request gives up s->lock while it writes or copies.
LEMMA Unlocks ==
  ASSUME Requests, NEW r \in Reqs, holder \in {r, Null}, stack = <<>>, Unlock,
         NEW q, Moved(r, q), q.at \in {"data", "cow"}, q.slot \in Slots, q.cluster \in Clusters
  PROVE  RequestsOK
<1>1. holder' = Null /\ stack' = <<>> /\ ret' = Null /\ req'[r] = q
  BY DEF Unlock, Continue, Moved
<1>2. ReqOK(r)'
  BY <1>1, ReqsAssumption DEF ReqOK, Unlocked
<1>3. Requests'
  BY <1>1, <1>2, RequestMoves
<1> QED
  BY <1>1, <1>3, NoneStacked DEF RequestsOK

\* The request goes on with s->lock, and without a call.
LEMMA GoesOn ==
  ASSUME Requests, NEW r \in Reqs, holder \in {r, Null}, stack = <<>>, holder' = r, Continue,
         NEW q, Moved(r, q), q.at # "close" => q.slot \in Slots,
         q.at \in Between \cup {"close"}, q.at = "mark" => q.cluster \in Clusters
  PROVE  RequestsOK
<1>1. stack' = <<>> /\ ret' = Null /\ req'[r] = q
  BY DEF Continue, Moved
<1>2. /\ q.at \notin Calling \ {"close"} /\ q.at \notin {"flushed", "clean"} /\ q.at \notin {"cleanL2", "clean"}
      /\ ret' # "ok" /\ (q.at \in Clustered => q.at = "mark")
      /\ (q.at \in Slotted => q.at # "close")
  BY <1>1, Qcow2Assumption DEF Between, Calling, GetsL2, GetsRefcount, Frees, FlushesL2, FlushesRefcount, Clustered, Slotted
<1>3. Returned(q)'
  BY <1>2 DEF Returned
<1>4. Returned(req[r])'
  BY <1>1, <1>3 DEF Returned, Cached
<1>5. ReqOK(r)'
  BY <1>1, <1>2, <1>4 DEF ReqOK
<1>6. Requests'
  BY <1>5, RequestMoves
<1> QED
  BY <1>1, <1>6, NoneStacked DEF RequestsOK

\* The request makes a call.
LEMMA CallsOn ==
  ASSUME Requests, NEW r \in Reqs, holder \in {r, Null}, holder' = r,
         NEW q, Moved(r, q), Stacked', stack' # <<>>,
         CallOf(q, stack'[Len(stack')]),
         q.at \in Slotted => q.slot \in Slots, q.at \in Clustered => q.cluster \in Clusters,
         q.at \in {"flushed", "clean"} => Clean(l2)',
         q.at \in {"cleanL2", "clean"} => ~bit'
  PROVE  RequestsOK
<1>1. req'[r] = q
  BY DEF Moved
<1>2. ReqOK(r)'
  BY <1>1 DEF ReqOK
<1>3. Requests'
  BY <1>2, RequestMoves
<1> QED
  BY <1>3 DEF RequestsOK

\* It gets an L2 table,
LEMMA CallsGetL2 ==
  ASSUME Requests, NEW r \in Reqs, holder \in {r, Null}, stack = <<>>, holder' = r,
         NEW q, Moved(r, q), q.at \in GetsL2, q.slot \in Slots, Call(GetL2(q.slot)),
         q.at = "update" => q.cluster \in Clusters
  PROVE  RequestsOK
<1>1. l2 \in Caches /\ q.slot \in Tabled /\ CacheOf(q.slot) = l2 /\ Call(GetFrame(l2, HomeOf[q.slot]))
  BY DEF Caches, Tabled, CacheOf, GetL2
<1>2. /\ Stacked' /\ stack' # <<>>
      /\ \A f : f = stack'[Len(stack')] => f.f = "get" /\ f.c = l2 /\ f.t = HomeOf[q.slot]
  BY <1>1, GetCalled
<1>3. CallOf(q, stack'[Len(stack')])
  BY <1>2 DEF CallOf, Calling, GetsL2, GetsRefcount, Frees, FlushesL2, FlushesRefcount
<1>4. q.at \in Clustered => q.at = "update"
  BY DEF GetsL2, Clustered, GetsRefcount, Frees
<1>5. q.at \notin {"flushed", "clean"} /\ q.at \notin {"cleanL2", "clean"}
  BY DEF GetsL2
<1> QED
  BY <1>2, <1>3, <1>4, <1>5, CallsOn

\* a refcount block,
LEMMA CallsGetRefcount ==
  ASSUME Requests, NEW r \in Reqs, holder \in {r, Null}, stack = <<>>, holder' = r,
         NEW q, Moved(r, q), q.at \in GetsRefcount, q.cluster \in Clusters, Call(GetRefcount(q.cluster)),
         q.at # "drop" => q.slot \in Slots
  PROVE  RequestsOK
<1>1. /\ refcount \in Caches /\ q.cluster \in Tabled /\ CacheOf(q.cluster) = refcount
      /\ Call(GetFrame(refcount, HomeOf[q.cluster]))
  BY Qcow2Assumption DEF Caches, Tabled, CacheOf, GetRefcount
<1>2. /\ Stacked' /\ stack' # <<>>
      /\ \A f : f = stack'[Len(stack')] => f.f = "get" /\ f.c = refcount /\ f.t = HomeOf[q.cluster]
  BY <1>1, GetCalled
<1>3. CallOf(q, stack'[Len(stack')])
  BY <1>2 DEF CallOf, Calling, GetsL2, GetsRefcount, Frees, FlushesL2, FlushesRefcount
<1>4. q.at \in Slotted => q.at # "drop"
  BY DEF GetsL2, Slotted
<1>5. q.at \notin {"flushed", "clean"} /\ q.at \notin {"cleanL2", "clean"}
  BY DEF GetsRefcount
<1> QED
  BY <1>2, <1>3, <1>4, <1>5, CallsOn

\* makes one cache depend on the other,
LEMMA CallsSet ==
  ASSUME Requests, NEW r \in Reqs, holder \in {r, Null}, stack = <<>>, holder' = r,
         NEW q, Moved(r, q), q.cluster \in Clusters, q.at # "free" => q.slot \in Slots,
         \/ q.at = "link" /\ Call(SetFrame(l2, refcount))
         \/ q.at \in Frees /\ Call(SetFrame(refcount, l2))
  PROVE  RequestsOK
<1>1. Stacked' /\ stack' # <<>>
  BY SetCalled
<1>2. CallOf(q, stack'[Len(stack')])
  <2>1. CASE q.at = "link" /\ Call(SetFrame(l2, refcount))
    <3>1. \A f : f = stack'[Len(stack')] => f.f = "set" /\ f.c = l2 /\ f.d = refcount
      BY <2>1, SetCalled
    <3> QED
      BY <2>1, <3>1 DEF CallOf, Calling, GetsL2, GetsRefcount, Frees, FlushesL2, FlushesRefcount
  <2>2. CASE q.at \in Frees /\ Call(SetFrame(refcount, l2))
    <3>1. \A f : f = stack'[Len(stack')] => f.f = "set" /\ f.c = refcount /\ f.d = l2
      BY <2>2, SetCalled
    <3> QED
      BY <2>2, <3>1 DEF CallOf, Calling, GetsL2, GetsRefcount, Frees, FlushesL2, FlushesRefcount
  <2> QED
    BY <2>1, <2>2
<1>3. q.at \in Slotted => q.at # "free"
  BY DEF GetsL2, Slotted
<1>4. q.at \notin {"flushed", "clean"} /\ q.at \notin {"cleanL2", "clean"}
  BY DEF Frees
<1> QED
  BY <1>1, <1>2, <1>3, <1>4, CallsOn

\* or flushes a cache.
LEMMA CallsFlush ==
  ASSUME Requests, NEW r \in Reqs, holder \in {r, Null}, stack = <<>>, holder' = r,
         NEW q, Moved(r, q),
         \/ q.at \in FlushesL2 /\ Call(FlushFrame(l2))
         \/ q.at \in FlushesRefcount /\ Call(FlushFrame(refcount)),
         q.at \in {"flushed", "clean"} => Clean(l2)',
         q.at \in {"cleanL2", "clean"} => ~bit'
  PROVE  RequestsOK
<1>1. Stacked' /\ stack' # <<>>
  BY CachesDiffer, FlushCalled
<1>2. CallOf(q, stack'[Len(stack')])
  <2>1. CASE q.at \in FlushesL2 /\ Call(FlushFrame(l2))
    <3>1. \A f : f = stack'[Len(stack')] => f.f = "flush" /\ f.c = l2
      BY <2>1, CachesDiffer, FlushCalled
    <3> QED
      BY <2>1, <3>1 DEF CallOf, Calling, GetsL2, GetsRefcount, Frees, FlushesL2, FlushesRefcount
  <2>2. CASE q.at \in FlushesRefcount /\ Call(FlushFrame(refcount))
    <3>1. \A f : f = stack'[Len(stack')] => f.f = "flush" /\ f.c = refcount
      BY <2>2, CachesDiffer, FlushCalled
    <3> QED
      BY <2>2, <3>1 DEF CallOf, Calling, GetsL2, GetsRefcount, Frees, FlushesL2, FlushesRefcount
  <2> QED
    BY <2>1, <2>2
<1>3. q.at \notin Slotted /\ q.at \notin Clustered
  BY DEF GetsL2, GetsRefcount, Frees, Slotted, Clustered, FlushesL2, FlushesRefcount
<1> QED
  BY <1>1, <1>2, <1>3, CallsOn

-----------------------------------------------------------------------------
(* The steps of requests.                                                  *)

\* Requests that have a cluster whose refcount is not accounted for in an L2 table: one
\* that is to be linked, or one that is no longer linked and is to be freed.
Writes == {"data", "cow", "mark", "link", "update"}
Drops == {"drop", "dropHeld"}
Counted == Writes \cup Drops \cup Frees

Leaves(r) == \E q : Moved(r, q) /\ q.at \notin Counted

LEMMA PutQuiet ==
  ASSUME CacheOK, NEW x \in Tabled, entries' = Put(entries, x), UNCHANGED <<mem, disk, poss, depends>>
  PROVE  Quiet
<1>1. Shaped(entries') /\ SameTables(entries, entries')
  BY PutKeeps DEF CacheOK
<1>2. CacheOK' /\ \A y \in Tabled : Val(y)' = Val(y)
  BY <1>1, SameOK, Places DEF CacheOK, FileTyped
<1> QED
  BY <1>2 DEF Quiet

LEMMA PutDirty ==
  ASSUME NEW x, NEW y \in Tabled, NEW es, Shaped(es), DirtyOnly(x, es)
  PROVE  Shaped(Put(es, y)) /\ DirtyOnly(x, Put(es, y))
<1>1. Shaped(Put(es, y)) /\ SameTables(es, Put(es, y))
  BY PutKeeps
<1> QED
  BY <1>1 DEF DirtyOnly, SameTables

LEMMA Touches ==
  ASSUME CacheOK, NEW x \in Tabled, Cached(x), NEW v \in Values(x),
         Shaped(entries'), DirtyOnly(x, entries'),
         mem' = [mem EXCEPT ![x] = v], UNCHANGED <<disk, poss, depends>>
  PROVE  Touch(x, v)
  BY TouchOK DEF Touch

LEMMA FinishLeaves ==
  ASSUME Requests, NEW r \in Reqs, holder \in {r, Null}, stack = <<>>, Finish(r)
  PROVE  RequestsOK /\ Leaves(r)
  BY Finishes DEF Leaves, Counted, Writes, Drops, Frees

LEMMA PickLeaves ==
  ASSUME Requests, NEW r \in Reqs, holder = r, stack = <<>>, Goes(r, "pick"), GoOn, req[r].slot \in Slots
  PROVE  RequestsOK /\ Leaves(r)
<1>1. PICK q \in Requesting : q.at = "pick" /\ q.slot = req[r].slot /\ Moved(r, q)
  BY GoesMoves DEF Everywhere, Between
<1>2. RequestsOK
  BY <1>1, GoesOn DEF GoOn, Between
<1> QED
  BY <1>1, <1>2 DEF Leaves, Counted, Writes, Drops, Frees

\* What is known of the request that has s->lock.
LEMMA HolderAt ==
  ASSUME Requests, NEW r \in Reqs, NEW w, At(r, w)
  PROVE  /\ holder = r /\ stack = <<>> /\ req[r].at = w /\ ReqOK(r) /\ Returned(req[r])
         /\ req[r] \in Requesting
  BY DEF At, Requests, ReqOK

\* A call that has not failed has succeeded.
LEMMA Succeeded ==
  ASSUME Stacked, NEW q, Returned(q), q.at \in Calling, q.at # "close", ret # "error"
  PROVE  ret = "ok"
  BY DEF Stacked, Returned, Results

\* The request keeps its cluster, which is not linked yet.
Stays(r) ==
  /\ req[r].at \in Writes
  /\ \E q : Moved(r, q) /\ q.at \in Writes \ {"update"} /\ q.cluster = req[r].cluster

\* The data has been written, or sectors have been copied.
LEMMA WrittenStays ==
  ASSUME Requests, LockHeld, NEW r \in Reqs, req[r].at \in {"data", "cow"}, holder = Null,
         \/ Goes(r, "mark") /\ holder' = r /\ Continue
         \/ Goes(r, "cow") /\ Unlock
         \/ Finish(r)
  PROVE  RequestsOK /\ (Leaves(r) \/ Stays(r))
<1>1. stack = <<>> /\ req[r].slot \in Slots /\ req[r].cluster \in Clusters /\ req[r].at \in Writes
  BY DEF LockHeld, Requests, ReqOK, Slotted, Clustered, Writes
<1>2. CASE Goes(r, "mark") /\ holder' = r /\ Continue
  <2>1. PICK q \in Requesting : /\ q.at = "mark" /\ q.slot = req[r].slot /\ q.cluster = req[r].cluster
                                /\ Moved(r, q)
    BY <1>2, GoesMoves DEF Everywhere, Between
  <2>2. RequestsOK
    BY <1>1, <1>2, <2>1, GoesOn DEF Between
  <2> QED
    BY <1>1, <2>1, <2>2 DEF Stays, Writes
<1>3. CASE Goes(r, "cow") /\ Unlock
  <2>1. PICK q \in Requesting : /\ q.at = "cow" /\ q.slot = req[r].slot /\ q.cluster = req[r].cluster
                                /\ Moved(r, q)
    BY <1>3, GoesMoves DEF Everywhere, Unlocked
  <2>2. RequestsOK
    BY <1>1, <1>3, <2>1, Unlocks
  <2> QED
    BY <1>1, <2>1, <2>2 DEF Stays, Writes
<1>4. CASE Finish(r)
  BY <1>1, <1>4, FinishLeaves
<1> QED
  BY <1>2, <1>3, <1>4

\* The header is written: it is in no table.
LEMMA HeaderWritten ==
  ASSUME CacheOK, UNCHANGED <<entries, mem>>, NEW v \in BOOLEAN,
         disk' = disk \/ disk' = [disk EXCEPT ![header] = v],
         poss' = [poss EXCEPT ![header] = @ \cup {v}]
  PROVE  /\ CacheOK' /\ \A x \in Tabled : Val(x)' = Val(x) /\ poss'[x] = poss[x]
         /\ poss'[header] = poss[header] \cup {v}
<1>1. /\ header \in Locations /\ disk \in [Locations -> Contents] /\ poss \in [Locations -> SUBSET Contents]
      /\ v \in Contents /\ v \in Values(header)
  BY Places, Qcow2Assumption DEF CacheOK, FileTyped, Contents, Values, Tabled
<1>2. poss[header] \cup {v} \in SUBSET Contents
  BY <1>1
<1>3. /\ poss' \in [Locations -> SUBSET Contents]
      /\ \A x \in Locations : poss'[x] = IF x = header THEN poss[header] \cup {v} ELSE poss[x]
  BY <1>1, <1>2
<1>4. /\ disk' \in [Locations -> Contents]
      /\ \A x \in Locations : disk'[x] = disk[x] \/ (x = header /\ disk'[x] = v)
  BY <1>1
<1>5. \A x \in Locations : disk'[x] \in poss'[x] /\ poss'[x] \subseteq Values(x)
  BY <1>1, <1>3, <1>4 DEF CacheOK, FileTyped
<1>6. \A x \in Tabled : disk'[x] = disk[x] /\ poss'[x] = poss[x]
  BY <1>3, <1>4, Places
<1>7. Shaped(entries') /\ SameTables(entries, entries')
  BY DEF CacheOK, SameTables
<1>8. CacheOK' /\ \A x \in Tabled : Val(x)' = Val(x)
  BY <1>3, <1>4, <1>5, <1>6, <1>7, SameOK
<1> QED
  BY <1>1, <1>3, <1>6, <1>8

\* qcow2_mark_dirty, if the image has lazy refcounts.
MarkStep ==
  /\ CacheOK' /\ UNCHANGED depends /\ \A x \in Tabled : Val(x)' = Val(x)
  /\ \/ bit' = TRUE /\ poss'[header] = {TRUE} /\ \A x \in Tabled : poss'[x] = {disk[x]}
     \/ bit' = FALSE /\ poss'[header] = poss[header] \cup {TRUE} /\ \A x \in Tabled : poss'[x] = poss[x]
     \/ bit' = bit /\ UNCHANGED <<disk, poss>>

LEMMA ValTyped == ASSUME CacheOK PROVE \A x \in Tabled : Val(x) \in Values(x)
  BY Places DEF CacheOK, FileTyped, Val

\* A cluster is no longer linked, and is to be freed.
Unlinked(r, w, k) == \E q : Moved(r, q) /\ q.at = w /\ q.cluster = k

LEMMA FreesOld ==
  ASSUME Requests, NEW r \in Reqs, holder = r, stack = <<>>, NEW w \in Frees, NEW k \in Clusters,
         w # "free" => req[r].slot \in Slots,
         GoesFor(r, w, k), ThenCall(SetFrame(refcount, l2))
  PROVE  RequestsOK /\ Unlinked(r, w, k)
<1>1. PICK q \in Requesting : q.at = w /\ q.slot = req[r].slot /\ q.cluster = k /\ Moved(r, q)
  <2>1. w \in Everywhere
    BY DEF Everywhere, Calling
  <2>2. MovedTo(r, w, req[r].slot, k)
    BY <2>1, GoesForMoves
  <2> QED
    BY <2>2 DEF MovedTo
<1>2. RequestsOK
  BY <1>1, CallsSet DEF ThenCall
<1> QED
  BY <1>1, <1>2 DEF Unlinked

\* A request flushes a cache.
LEMMA Flushing ==
  ASSUME Requests, NEW r \in Reqs, holder \in {r, Null}, stack = <<>>, holder' = r, UNCHANGED cacheVars,
         NEW w, Goes(r, w),
         \/ w \in FlushesL2 /\ Call(FlushFrame(l2))
         \/ w \in FlushesRefcount /\ Call(FlushFrame(refcount)),
         w \in {"flushed", "clean"} => Clean(l2),
         w \in {"cleanL2", "clean"} => ~bit'
  PROVE  RequestsOK /\ Leaves(r)
<1>1. PICK q \in Requesting : q.at = w /\ Moved(r, q)
  <2>1. w \in Everywhere
    BY DEF Everywhere, Calling
  <2> QED
    BY <2>1, GoesMoves
<1>2. w \in {"flushed", "clean"} => Clean(l2)'
  BY DEF Clean, cacheVars
<1>3. RequestsOK
  BY <1>1, <1>2, CallsFlush
<1>4. q.at \notin Counted
  BY <1>1 DEF FlushesL2, FlushesRefcount, Counted, Writes, Drops, Frees
<1> QED
  BY <1>1, <1>3, <1>4 DEF Leaves

\* qcow2_co_flush_to_os, and the flushes of qcow2_close.
FlushOrClose(r) ==
  \/ FlushBegin(r) \/ FlushRefcounts(r) \/ FlushReturns(r)
  \/ CloseBegin(r) \/ CloseRefcounts(r) \/ CloseMarkClean(r) \/ CloseCleanRefcounts(r)

\* The image is opened again: it was repaired, or its file has what it may have had.
Repaired ==
  \E im : /\ \A s \in Slots : im[s] \in Values(s) /\ im[s] \in poss[s]
          /\ disk' = Consistent(im) /\ \A x \in Locations : poss'[x] = {disk'[x]}
Recovered ==
  /\ FALSE \in poss[header]
  /\ \A x \in Locations : poss'[x] \subseteq poss[x] /\ disk'[x] \in poss[x]

Again ==
  /\ AsOnDisk' /\ RequestsOK /\ ~bit' /\ UNCHANGED ignored /\ uncopied' = {}
  /\ \A r \in Reqs : req'[r].at = "idle"
  /\ \A x \in Locations : disk'[x] \in poss'[x]
  /\ Repaired \/ Recovered

LEMMA ReopenAgain ==
  ASSUME Counting, NEW image \in [Locations -> Contents], NEW left \in [Locations -> SUBSET Contents],
         CacheOK, \A x \in Locations : image[x] \in left[x] /\ left[x] \subseteq poss[x],
         Reopen(image, left), holder' = Null, req' = [r \in Reqs |-> Idle], ~bit', UNCHANGED ignored
  PROVE  Again
<1>AllIdle. ASSUME stack' = <<>>, ret' = Null PROVE RequestsOK /\ \A r \in Reqs : req'[r].at = "idle"
  <2> USE <1>AllIdle
  <2>1. Idle \in Requesting /\ Idle.at = "idle"
    BY DEF Idle, Requesting, Everywhere, Unlocked
  <2>2. req' \in [Reqs -> Requesting] /\ \A r \in Reqs : req'[r].at = "idle"
    BY <2>1
  <2>3. \A r \in Reqs : ReqOK(r)'
    BY <2>2, ReqsAssumption DEF ReqOK, Unlocked, Slotted, Clustered, GetsL2, GetsRefcount, Frees
  <2>4. Requests'
    BY <2>2, <2>3 DEF Requests
  <2> QED
    BY <2>2, <2>4, NoneStacked DEF RequestsOK
<1>1. \A x \in Locations : left[x] \subseteq Values(x) /\ image[x] \in Values(x) /\ image[x] \in poss[x]
  BY DEF CacheOK, FileTyped
<1>2. Opened' /\ AsOnDisk'
  BY <1>1, ReopenOK
<1>3. stack' = <<>> /\ ret' = Null /\ uncopied' = {}
  BY DEF Reopen
<1>4. RequestsOK /\ \A r \in Reqs : req'[r].at = "idle"
  BY <1>3, <1>AllIdle
<1>5. \A x \in Locations : disk'[x] \in poss'[x]
  BY <1>2 DEF Opened
<1>6. Slots \subseteq Locations /\ header \in Locations
  BY Places DEF Locations, Tabled
<1>7. CASE image[header]
  <2>1. disk' = Consistent(image) /\ poss' = [x \in Locations |-> {disk'[x]}]
    BY <1>7 DEF Reopen
  <2>2. \A x \in Locations : poss'[x] = {disk'[x]}
    BY <2>1
  <2>3. Repaired
    BY <1>1, <1>6, <2>1, <2>2 DEF Repaired
  <2> QED
    BY <1>2, <1>3, <1>4, <1>5, <2>3 DEF Again
<1>8. CASE ~image[header]
  <2>1. disk' = image /\ poss' = left
    BY <1>8 DEF Reopen
  <2>2. image[header] = FALSE
    <3>1. image[header] \in BOOLEAN
      BY <1>1, <1>6, Places, Qcow2Assumption DEF Values, Tabled
    <3> QED
      BY <1>8, <3>1
  <2>3. Recovered
    BY <1>1, <1>6, <2>1, <2>2 DEF Recovered
  <2> QED
    BY <1>2, <1>3, <1>4, <1>5, <2>3 DEF Again
<1> QED
  BY <1>7, <1>8

LEMMA CloseEndOK ==
  ASSUME Counting, CacheOK, Requests, NEW r \in Reqs, CloseEnd(r)
  PROVE  Again
<1>1. ~bit
  BY HolderAt DEF CloseEnd, ReqOK
<1>2. /\ disk \in [Locations -> Contents] /\ poss \in [Locations -> SUBSET Contents]
      /\ \A x \in Locations : disk[x] \in poss[x] /\ poss[x] \subseteq poss[x]
  BY DEF CacheOK, FileTyped
<1>3. ~bit' /\ UNCHANGED ignored
  BY <1>1 DEF CloseEnd, flags
<1> QED
  BY <1>2, <1>3, ReopenAgain DEF CloseEnd

LEMMA CrashOK == ASSUME Counting, CacheOK, Crash PROVE Again
<1>1. PICK links \in Survivors(Slots), counts \in Survivors(Clusters), mark \in Survivors({header}) :
        LET im == Surviving(links, counts, mark) IN Reopen(im, [x \in Locations |-> {im[x]}])
  BY DEF Crash
<1>2. PICK image : image = Surviving(links, counts, mark)
  OBVIOUS
<1>3. PICK left : left = [x \in Locations |-> {image[x]}]
  OBVIOUS
<1>4. /\ image \in [Locations -> Contents] /\ \A x \in Locations : image[x] \in poss[x]
      /\ left \in [Locations -> SUBSET Contents]
  <2>1. FileTyped
    BY DEF CacheOK
  <2>2. image \in [Locations -> Contents] /\ \A x \in Locations : image[x] \in poss[x]
    BY <1>2, <2>1, Survives
  <2>3. \A x \in Locations : {image[x]} \in SUBSET Contents
    BY <2>2
  <2> QED
    BY <1>3, <2>2, <2>3
<1>5. \A x \in Locations : image[x] \in left[x] /\ left[x] \subseteq poss[x]
  BY <1>3, <1>4
<1>6. Reopen(image, left)
  BY <1>1, <1>2, <1>3
<1>7. ~bit' /\ UNCHANGED ignored /\ holder' = Null /\ req' = [r \in Reqs |-> Idle]
  BY DEF Crash
<1> QED
  BY <1>4, <1>5, <1>6, <1>7, ReopenAgain

LEMMA InitOK ==
  ASSUME Counting, Init
  PROVE  /\ AsOnDisk /\ Stacked /\ Requests /\ bit = FALSE /\ ignored = FALSE /\ uncopied = {}
         /\ \A r \in Reqs : req[r].at = "idle"
         /\ \A s \in Slots : InitialL2[s] \in Values(s)
         /\ disk = Consistent(InitialL2) /\ \A x \in Locations : poss[x] = {disk[x]}
<1>1. \A s \in Slots : InitialL2[s] \in Values(s)
  BY Qcow2Assumption DEF Values
<1>2. disk = Consistent(InitialL2) /\ poss = [x \in Locations |-> {disk[x]}]
  BY DEF Init, CacheInit, InitialImage
<1>3. disk \in [Locations -> Contents] /\ \A x \in Locations : disk[x] \in Values(x)
  BY <1>1, <1>2, ConsistentImage
<1>4. poss \in [Locations -> SUBSET Contents] /\ \A x \in Locations : poss[x] = {disk[x]}
  BY <1>2, <1>3
<1>5. Opened
  BY <1>3, <1>4 DEF Opened, Init, CacheInit
<1>6. stack = <<>> /\ ret = Null /\ holder = Null /\ req = [r \in Reqs |-> Idle]
  BY DEF Init, CacheInit
<1>7. Idle \in Requesting /\ Idle.at = "idle"
  BY DEF Idle, Requesting, Everywhere, Unlocked
<1>8. req \in [Reqs -> Requesting] /\ \A r \in Reqs : req[r].at = "idle"
  BY <1>6, <1>7
<1>9. \A r \in Reqs : ReqOK(r)
  BY <1>6, <1>8, ReqsAssumption DEF ReqOK, Unlocked, Slotted, Clustered, GetsL2, GetsRefcount, Frees
<1>10. Requests
  BY <1>6, <1>8, <1>9 DEF Requests
<1>11. Stacked
  <2>1. Len(<<>>) = 0 /\ \A p : p \notin 1 .. 0
    BY SMT
  <2> QED
    BY <1>6, <2>1 DEF Stacked
<1> QED
  BY <1>1, <1>2, <1>4, <1>5, <1>8, <1>10, <1>11, OpenedOK DEF Init, CacheInit

-----------------------------------------------------------------------------
(* The order of the writes.                                                *)

\* A cache has no dependency any more only if the other one has been flushed.
DependsStep ==
  \A c \in Caches : depends'[c] = Null =>
    \/ depends[c] = Null
    \/ UNCHANGED <<disk, poss>> /\ depends[c] \in Caches /\ depends[c] # c /\ Settled(depends[c])

\* Copied sectors that a crash may lose are to be flushed before L2 tables are written.
Copied == uncopied # {} => l2 \in onFlush

\* What a step may do to them.
CopiedStep == uncopied' = {} \/ l2 \in onFlush' \/ UNCHANGED <<uncopied, onFlush>>

LEMMA CacheStepDepends ==
  ASSUME Stacked, NEW T, CallsInv(T), CacheStep
  PROVE  DependsStep /\ CopiedStep
<1>1. CASE UNCHANGED <<depends, onFlush, uncopied>>
  BY <1>1 DEF DependsStep, CopiedStep
<1>2. CASE Unwind \/ FlushNext \/ CacheGet \/ CacheRead
  <2>1. UNCHANGED <<depends, onFlush, uncopied>>
    BY <1>2 DEF Unwind, FlushNext, CacheGet, CacheRead, cacheVars, fileVars
  <2> QED
    BY <1>1, <2>1
<1>3. CASE FlushEnd
  <2>1. UNCHANGED <<depends, onFlush>> /\ (uncopied' = {} \/ UNCHANGED uncopied)
    BY <1>3 DEF FlushEnd, FlushFile, cacheVars, fileVars
  <2> QED
    BY <2>1 DEF DependsStep, CopiedStep
<1>4. CASE FlushDependency
  <2>1. /\ stack # <<>> /\ Top.f = "dependency" /\ UNCHANGED <<disk, poss, uncopied>>
        /\ StackShape(T) /\ ret # "error" /\ OneDeep
    BY <1>4 DEF FlushDependency, In, fileVars, CallsInv
  <2>2. Top = stack[1] /\ Top.c \in Caches /\ depends[Top.c] \in Caches
    BY <2>1, TopFrame DEF OneDeep
  <2>3. CASE ret = Null
    <3>1. UNCHANGED <<depends, onFlush>>
      BY <1>4, <2>3 DEF FlushDependency
    <3> QED
      BY <1>1, <2>1, <3>1
  <2>4. CASE ret # Null
    <3>1. ret = "ok"
      BY <2>1, <2>4 DEF Stacked, Results
    <3>2. Settled(depends[Top.c]) /\ uncopied = {}
      BY <2>1, <2>2, <3>1 DEF Stacked, TopOK
    <3>3. depends' = [depends EXCEPT ![Top.c] = Null]
      BY <1>4, <2>4 DEF FlushDependency
    <3>4. \A c \in Caches : c # Top.c => depends'[c] = depends[c]
      BY <2>1, <3>3 DEF OneDeep
    <3>5. depends[Top.c] # Top.c
      <4>1. Null \notin Caches
        BY Qcow2Assumption
      <4> QED
        BY <2>1, <2>2, <4>1 DEF OneDeep
    <3>6. DependsStep
      BY <2>1, <2>2, <3>2, <3>4, <3>5 DEF DependsStep
    <3> QED
      BY <2>1, <3>2, <3>6 DEF CopiedStep
  <2> QED
    BY <2>3, <2>4
<1>5. CASE EntryFlush
  <2>1. UNCHANGED depends /\ (uncopied' = {} \/ UNCHANGED <<uncopied, onFlush>>)
    BY <1>5 DEF EntryFlush, FlushFile, WriteTable, WriteFails, cacheVars, fileVars
  <2> QED
    BY <2>1 DEF DependsStep, CopiedStep
<1>6. CASE SetDependency
  <2>1. /\ stack # <<>> /\ Top.f = "set" /\ StackShape(T) /\ OneDeep
        /\ UNCHANGED <<onFlush, uncopied>>
        /\ UNCHANGED depends \/ depends' = [depends EXCEPT ![Top.c] = Top.d]
    BY <1>6 DEF SetDependency, In, fileVars, CallsInv
  <2>2. Top.c \in Caches /\ Top.d \in Caches /\ Null \notin Caches
    BY <2>1, TopFrame, Qcow2Assumption
  <2>3. \A c \in Caches : depends'[c] = depends[c] \/ depends'[c] \in Caches
    BY <2>1, <2>2 DEF OneDeep
  <2> QED
    BY <2>1, <2>2, <2>3 DEF DependsStep, CopiedStep
<1> QED
  BY <1>2, <1>3, <1>4, <1>5, <1>6 DEF CacheStep

LEMMA RequestStepCopied ==
  ASSUME NEW r \in Reqs, RequestStep(r)
  PROVE  CopiedStep
<1>1. CASE UNCHANGED <<onFlush, uncopied>>
  BY <1>1 DEF CopiedStep
<1>2. CASE WriteCow(r)
  <2>1. onFlush' = onFlush \cup {l2} \/ UNCHANGED <<onFlush, uncopied>>
    BY <1>2 DEF WriteCow, DependsOnFlush
  <2> QED
    BY <2>1 DEF CopiedStep
<1>3. CASE WriteMark(r)
  <2>1. UNCHANGED onFlush /\ (uncopied' = {} \/ UNCHANGED uncopied)
    BY <1>3 DEF WriteMark, MarkDirty, MarkDirtyFails, cacheVars, fileVars
  <2> QED
    BY <2>1 DEF CopiedStep
<1>4. CASE CloseEnd(r)
  BY <1>4 DEF CopiedStep, CloseEnd, Reopen
<1>5. ASSUME NEW s \in Slots, WriteBegin(r, s) \/ DiscardBegin(r, s)
      PROVE  CopiedStep
  BY <1>1, <1>5 DEF WriteBegin, DiscardBegin, cacheVars, fileVars
<1>6. CASE WriteLookup(r) \/ WritePick(r) \/ WriteAllocate(r) \/ WriteData(r) \/ WriteLink(r)
  BY <1>1, <1>6 DEF WriteLookup, WritePick, WriteAllocate, WriteData, WriteLink, cacheVars, fileVars
<1>7. CASE WriteUpdate(r) \/ Discard(r) \/ Free(r) \/ Drop(r)
  BY <1>1, <1>7 DEF WriteUpdate, Discard, Free, Drop, cacheVars, fileVars
<1>8. CASE FlushBegin(r) \/ FlushRefcounts(r) \/ FlushReturns(r)
  BY <1>1, <1>8 DEF FlushBegin, FlushRefcounts, FlushReturns, cacheVars, fileVars
<1>9. CASE CloseBegin(r) \/ CloseRefcounts(r) \/ CloseMarkClean(r) \/ CloseCleanRefcounts(r) \/ CloseUpdateHeader(r)
  BY <1>1, <1>9 DEF CloseBegin, CloseRefcounts, CloseMarkClean, CloseCleanRefcounts, CloseUpdateHeader,
                           cacheVars, fileVars
<1> QED
  BY <1>2, <1>3, <1>4, <1>5, <1>6, <1>7, <1>8, <1>9 DEF RequestStep

-----------------------------------------------------------------------------
(* Refcounts that cover what points to a cluster, and the requests that    *)
(* have it.                                                                *)

Cover(v, refs, busy, k) == v >= Cardinality(refs) + Shared(k) + Cardinality(busy)

LEMMA Sizes ==
  ASSUME Counting, NEW U, IsFiniteSet(U), NEW S \in SUBSET U, NEW T \in SUBSET U
  PROVE  /\ Cardinality(S) \in Nat /\ Cardinality(T) \in Nat
         /\ S \subseteq T => Cardinality(S) <= Cardinality(T)
         /\ \A x \in U : S \subseteq T \cup {x} => Cardinality(S) <= Cardinality(T) + 1
         /\ \A x \in T : S \subseteq T \ {x} => Cardinality(S) + 1 <= Cardinality(T)
<1>1. ASSUME NEW V \in SUBSET U, NEW W \in SUBSET V
      PROVE  /\ IsFiniteSet(V) /\ IsFiniteSet(W) /\ Cardinality(V) \in Nat /\ Cardinality(W) \in Nat
             /\ Cardinality(W) <= Cardinality(V)
  <2>1. IsFiniteSet(V)
    BY DEF Counting
  <2>2. IsFiniteSet(W) /\ Cardinality(W) <= Cardinality(V)
    BY <2>1 DEF Counting
  <2> QED
    BY <2>1, <2>2 DEF Counting
<1>2. Cardinality(S) \in Nat /\ Cardinality(T) \in Nat /\ IsFiniteSet(T)
  BY <1>1
<1>3. S \subseteq T => Cardinality(S) <= Cardinality(T)
  BY <1>1
<1>4. ASSUME NEW x \in T, S \subseteq T \ {x} PROVE Cardinality(S) + 1 <= Cardinality(T)
  <2>1. T \ {x} \in SUBSET U
    OBVIOUS
  <2>2. Cardinality(S) <= Cardinality(T \ {x}) /\ Cardinality(T \ {x}) \in Nat
    BY <1>1, <1>4, <2>1
  <2>3. Cardinality(T \ {x}) = Cardinality(T) - 1
    BY <1>2 DEF Counting
  <2> QED
    BY <1>2, <2>2, <2>3, SMT
<1>5. ASSUME NEW x \in U, S \subseteq T \cup {x} PROVE Cardinality(S) <= Cardinality(T) + 1
  <2>1. CASE x \in T
    <3>1. S \subseteq T
      BY <1>5, <2>1
    <3> QED
      BY <1>2, <1>3, <3>1, SMT
  <2>2. CASE x \notin T
    <3>1. T \cup {x} \in SUBSET U /\ x \in T \cup {x} /\ (T \cup {x}) \ {x} = T
      BY <2>2
    <3>2. Cardinality(S) <= Cardinality(T \cup {x}) /\ IsFiniteSet(T \cup {x}) /\ Cardinality(T \cup {x}) \in Nat
      BY <1>1, <1>5, <3>1
    <3>3. Cardinality((T \cup {x}) \ {x}) = Cardinality(T \cup {x}) - 1
      BY <3>1, <3>2 DEF Counting
    <3>4. Cardinality(T) = Cardinality(T \cup {x}) - 1
      BY <3>1, <3>3
    <3> QED
      BY <1>2, <3>2, <3>4, SMT
  <2> QED
    BY <2>1, <2>2
<1> QED
  BY <1>2, <1>3, <1>4, <1>5

\* The references and requests that a refcount covers change, and the refcount does.
LEMMA CoverBy ==
  ASSUME NEW v \in Nat, NEW A, NEW B, NEW k, Cover(v, A, B, k), NEW w \in Nat, NEW C, NEW D,
         NEW i \in Int, NEW j \in Int, w >= v + i + j,
         Cardinality(A) \in Nat /\ Cardinality(C) \in Nat /\ Cardinality(C) <= Cardinality(A) + i,
         Cardinality(B) \in Nat /\ Cardinality(D) \in Nat /\ Cardinality(D) <= Cardinality(B) + j
  PROVE  Cover(w, C, D, k)
<1>1. Shared(k) \in Nat
  BY SMT DEF Shared
<1> QED
  BY <1>1, SMT DEF Cover

LEMMA FinitelyMany == IsFiniteSet(Slots) /\ IsFiniteSet(Reqs)
  BY Qcow2Assumption, ReqsAssumption

Gains(S, new, x) == new \subseteq S \cup {x}
Loses(S, new, x) == x \in S /\ new \subseteq S \ {x}

LEMMA CoverLess ==
  ASSUME Counting, NEW v \in Nat, NEW A \in SUBSET Slots, NEW B \in SUBSET Reqs, NEW k, Cover(v, A, B, k),
         NEW C \in SUBSET A, NEW D \in SUBSET B
  PROVE  Cover(v, C, D, k)
<1>1. C \in SUBSET Slots /\ D \in SUBSET Reqs
  OBVIOUS
<1>2. /\ Cardinality(A) \in Nat /\ Cardinality(C) \in Nat /\ Cardinality(C) <= Cardinality(A)
      /\ Cardinality(B) \in Nat /\ Cardinality(D) \in Nat /\ Cardinality(D) <= Cardinality(B)
  BY <1>1, FinitelyMany, Sizes
<1>3. Cardinality(C) <= Cardinality(A) + 0 /\ Cardinality(D) <= Cardinality(B) + 0 /\ v >= v + 0 + 0 /\ 0 \in Int
  BY <1>2, SMT
<1> QED
  BY <1>2, <1>3, CoverBy

LEMMA CoverLinked ==
  ASSUME Counting, NEW v \in Nat, NEW A \in SUBSET Slots, NEW B \in SUBSET Reqs, NEW k, Cover(v, A, B, k),
         NEW C \in SUBSET Slots, NEW D \in SUBSET Reqs,
         NEW s \in Slots, NEW r, Gains(A, C, s), Loses(B, D, r)
  PROVE  Cover(v, C, D, k)
<1>1. Cardinality(A) \in Nat /\ Cardinality(C) \in Nat /\ Cardinality(C) <= Cardinality(A) + 1
  BY FinitelyMany, Sizes DEF Gains, Loses
<1>2. Cardinality(B) \in Nat /\ Cardinality(D) \in Nat /\ Cardinality(D) + 1 <= Cardinality(B)
  BY FinitelyMany, Sizes DEF Gains, Loses
<1>3. PICK i \in Int, j \in Int, w \in Nat : i = 1 /\ j = (-1) /\ w = v
  BY SMT
<1>4. w >= v + i + j /\ Cardinality(C) <= Cardinality(A) + i /\ Cardinality(D) <= Cardinality(B) + j
  BY <1>1, <1>2, <1>3, SMT
<1> QED
  BY <1>1, <1>2, <1>3, <1>4, CoverBy

LEMMA CoverUnlinked ==
  ASSUME Counting, NEW v \in Nat, NEW A \in SUBSET Slots, NEW B \in SUBSET Reqs, NEW k, Cover(v, A, B, k),
         NEW C \in SUBSET Slots, NEW D \in SUBSET Reqs,
         NEW s, NEW r \in Reqs, Loses(A, C, s), Gains(B, D, r)
  PROVE  Cover(v, C, D, k)
<1>1. Cardinality(A) \in Nat /\ Cardinality(C) \in Nat /\ Cardinality(C) + 1 <= Cardinality(A)
  BY FinitelyMany, Sizes DEF Gains, Loses
<1>2. Cardinality(B) \in Nat /\ Cardinality(D) \in Nat /\ Cardinality(D) <= Cardinality(B) + 1
  BY FinitelyMany, Sizes DEF Gains, Loses
<1>3. PICK i \in Int, j \in Int, w \in Nat : i = (-1) /\ j = 1 /\ w = v
  BY SMT
<1>4. w >= v + i + j /\ Cardinality(C) <= Cardinality(A) + i /\ Cardinality(D) <= Cardinality(B) + j
  BY <1>1, <1>2, <1>3, SMT
<1> QED
  BY <1>1, <1>2, <1>3, <1>4, CoverBy

LEMMA CoverDropped ==
  ASSUME Counting, NEW v \in Nat, NEW A \in SUBSET Slots, NEW B \in SUBSET Reqs, NEW k, Cover(v, A, B, k),
         NEW C \in SUBSET Slots, NEW D \in SUBSET Reqs,
         NEW r \in B, NEW n \in Nat, v = n + 1, C \subseteq A, D \subseteq B \ {r}
  PROVE  Cover(n, C, D, k)
<1>1. Cardinality(A) \in Nat /\ Cardinality(C) \in Nat /\ Cardinality(C) <= Cardinality(A)
  BY FinitelyMany, Sizes
<1>2. Cardinality(B) \in Nat /\ Cardinality(D) \in Nat /\ Cardinality(D) + 1 <= Cardinality(B)
  BY FinitelyMany, Sizes
<1>3. PICK i \in Int, j \in Int, w \in Nat : i = 0 /\ j = (-1) /\ w = n
  BY SMT
<1>4. w >= v + i + j /\ Cardinality(C) <= Cardinality(A) + i /\ Cardinality(D) <= Cardinality(B) + j
  BY <1>1, <1>2, <1>3, SMT
<1> QED
  BY <1>1, <1>2, <1>3, <1>4, CoverBy

\* The L2 entries that point to a cluster; that may, once it has been written to the
\* image file; that may after a crash; and the requests that have it, at some places.
Sure(k) == {s \in Slots : Val(s) = k}
Refs(k) == {s \in Slots : k \in poss[s] \/ Val(s) = k}
Held(k) == {s \in Slots : k \in poss[s]}
Busy(P, k) == {r \in Reqs : req[r].at \in P /\ req[r].cluster = k}

LEMMA BusyMoved ==
  ASSUME NEW r \in Reqs, NEW q, Moved(r, q)
  PROVE  \A P, k : /\ Busy(P, k)' \subseteq Busy(P, k) \cup {r}
                   /\ ~(q.at \in P /\ q.cluster = k) => Busy(P, k)' \subseteq Busy(P, k) \ {r}
  BY DEF Moved, Busy

LEMMA Counts ==
  ASSUME CacheOK
  PROVE  /\ \A k \in Clusters : /\ k \in Tabled /\ CacheOf(k) = refcount /\ k \in Locations /\ k \notin Slots
                                /\ Val(k) \in Nat /\ poss[k] \in SUBSET Nat /\ disk[k] \in poss[k]
         /\ \A s \in Slots : s \in Tabled /\ CacheOf(s) = l2 /\ s \in Locations /\ disk[s] \in poss[s]
<1>1. \A k \in Clusters : k \in Tabled /\ CacheOf(k) = refcount /\ k \in Locations /\ k \notin Slots
  BY Qcow2Assumption DEF Tabled, CacheOf, Locations
<1>2. \A k \in Clusters : Values(k) = Nat
  BY <1>1 DEF Values
<1>3. \A s \in Slots : s \in Tabled /\ CacheOf(s) = l2 /\ s \in Locations
  BY DEF Tabled, CacheOf, Locations
<1> QED
  BY <1>1, <1>2, <1>3, ValTyped DEF CacheOK, FileTyped

FileCounts ==
  /\ \A k \in Clusters : Val(k) \in Nat /\ poss[k] \in SUBSET Nat /\ disk[k] \in poss[k]
  /\ \A s \in Slots : disk[s] \in poss[s]

LEMMA CountsFile == CacheOK => FileCounts
  BY Counts DEF FileCounts

LEMMA CountsNext == CacheOK' => FileCounts'
  BY CountsFile, PTL

\* An image that is marked dirty is so for good: it will be repaired after a crash.
Marked == bit => FALSE \notin poss[header]

\* The refcounts of the caches cover the L2 entries of the caches and the requests.
CoverNow == \A k \in Clusters : Cover(Val(k), Sure(k), Busy(Counted, k), k)

\* Refcount blocks that may be written now cover what L2 entries a crash may leave, and
\* those that are written later.
Unfreed == Writes \cup Drops
RefcountsMayGo == depends[refcount] = Null => \A k \in Clusters : Cover(Val(k), Refs(k), Busy(Unfreed, k), k)

\* If L2 tables may be written now, all refcounts that a crash may leave cover them.
Linking == {"update"}
Unrepaired == FALSE \in poss[header]
L2MayGo ==
  depends[l2] = Null /\ Unrepaired =>
    \A k \in Clusters : \A n \in poss[k] : Cover(n, Refs(k), Busy(Linking, k), k)

\* The refcounts that a crash may leave cover the L2 entries that it may leave.
CoverOnDisk == Unrepaired => \A k \in Clusters : \A n \in poss[k] : Cover(n, Held(k), {}, k)

Covered == Marked /\ CoverNow /\ RefcountsMayGo /\ L2MayGo /\ CoverOnDisk

LEMMA Subsets ==
  \A k : /\ Sure(k) \in SUBSET Slots /\ Refs(k) \in SUBSET Slots /\ Held(k) \in SUBSET Slots
         /\ Held(k) \subseteq Refs(k) /\ Sure(k) \subseteq Refs(k)
         /\ \A P : Busy(P, k) \in SUBSET Reqs
         /\ Busy(Linking, k) \subseteq Busy(Unfreed, k)
         /\ Busy(Unfreed, k) \subseteq Busy(Counted, k)
  BY DEF Sure, Refs, Held, Busy, Linking, Unfreed, Counted, Writes

\* Nothing is added that has to be covered.
LEMMA LessCovered ==
  ASSUME Counting, CacheOK, Covered, Marked',
         \A x \in Tabled : Val(x)' = Val(x) /\ poss'[x] \subseteq poss[x],
         Unrepaired' => Unrepaired,
         \A c \in Caches : depends'[c] = Null => depends[c] = Null,
         \A k \in Clusters :
           /\ Busy(Counted, k)' \subseteq Busy(Counted, k)
           /\ depends'[refcount] = Null => Busy(Unfreed, k)' \subseteq Busy(Unfreed, k)
           /\ depends'[l2] = Null /\ Unrepaired' => Busy(Linking, k)' \subseteq Busy(Linking, k)
  PROVE  Covered'
<1>1. /\ \A k : Sure(k)' \subseteq Sure(k) /\ Refs(k)' \subseteq Refs(k) /\ Held(k)' \subseteq Held(k)
      /\ \A k \in Clusters : Val(k)' = Val(k) /\ poss'[k] \subseteq poss[k]
  <2>1. \A s \in Slots : Val(s)' = Val(s) /\ poss'[s] \subseteq poss[s]
    BY Counts
  <2>2. \A k \in Clusters : Val(k)' = Val(k) /\ poss'[k] \subseteq poss[k]
    BY Counts
  <2> QED
    BY <2>1, <2>2 DEF Sure, Refs, Held
<1>2. CoverNow'
  <2>1. ASSUME NEW k \in Clusters PROVE Cover(Val(k), Sure(k)', Busy(Counted, k)', k)
    <3>1. Cover(Val(k), Sure(k), Busy(Counted, k), k)
      BY DEF Covered, CoverNow
    <3> QED
      BY <1>1, <3>1, Counts, Subsets, CoverLess
  <2> QED
    BY <1>1, <2>1 DEF CoverNow
<1>3. RefcountsMayGo'
  <2> SUFFICES ASSUME depends'[refcount] = Null, NEW k \in Clusters
               PROVE  Cover(Val(k), Refs(k)', Busy(Unfreed, k)', k)
    BY <1>1 DEF RefcountsMayGo
  <2>1. Cover(Val(k), Refs(k), Busy(Unfreed, k), k)
    BY CachesDiffer DEF Covered, RefcountsMayGo
  <2>2. Busy(Unfreed, k)' \subseteq Busy(Unfreed, k) /\ Refs(k)' \subseteq Refs(k) /\ Val(k) \in Nat
    BY <1>1, Counts
  <2> QED
    BY <2>1, <2>2, Subsets, CoverLess
<1>4. L2MayGo'
  <2> SUFFICES ASSUME depends'[l2] = Null, Unrepaired', NEW k \in Clusters, NEW n \in poss'[k]
               PROVE  Cover(n, Refs(k)', Busy(Linking, k)', k)
    BY DEF L2MayGo
  <2>1. n \in poss[k] /\ n \in Nat
    BY <1>1, Counts
  <2>2. Cover(n, Refs(k), Busy(Linking, k), k)
    BY <2>1, CachesDiffer DEF Covered, L2MayGo
  <2> QED
    BY <1>1, <2>1, <2>2, Subsets, CoverLess
<1>5. CoverOnDisk'
  <2> SUFFICES ASSUME Unrepaired', NEW k \in Clusters, NEW n \in poss'[k]
               PROVE  Cover(n, Held(k)', {}, k)
    BY DEF CoverOnDisk
  <2>1. n \in poss[k] /\ n \in Nat
    BY <1>1, Counts
  <2>2. Cover(n, Held(k), {}, k)
    BY <2>1 DEF Covered, CoverOnDisk
  <2> QED
    BY <1>1, <2>1, <2>2, Subsets, CoverLess
<1> QED
  BY <1>2, <1>3, <1>4, <1>5 DEF Covered

LEMMA CacheStepCovered ==
  ASSUME Counting, CacheOK, Stacked, NEW T, CallsInv(T), Covered, CacheStep, UNCHANGED reqVars
  PROVE  Covered'
\* Only dependencies change: a cache that has got rid of its dependency may be written
\* because the other cache has been flushed.
<1>SettledCovered. ASSUME OneDeep, UNCHANGED <<disk, poss, bit, req>>, \A x \in Tabled : Val(x)' = Val(x), DependsStep
       PROVE  Covered'
  <2> USE <1>SettledCovered
  <2>1. /\ \A k : Sure(k)' = Sure(k) /\ Refs(k)' = Refs(k) /\ Held(k)' = Held(k)
        /\ \A P, k : Busy(P, k)' = Busy(P, k)
        /\ \A k \in Clusters : Val(k)' = Val(k)
        /\ Unrepaired' <=> Unrepaired
    <3>1. \A s \in Slots : Val(s)' = Val(s) /\ poss'[s] = poss[s]
      BY Counts
    <3>2. \A k \in Clusters : Val(k)' = Val(k)
      BY Counts
    <3> QED
      BY <3>1, <3>2 DEF Sure, Refs, Held, Busy, Unrepaired
  <2>2. Marked' /\ CoverNow' /\ CoverOnDisk'
    BY <2>1 DEF Covered, Marked, CoverNow, CoverOnDisk
  <2>3. RefcountsMayGo'
    <3> SUFFICES ASSUME depends'[refcount] = Null, NEW k \in Clusters
                 PROVE  Cover(Val(k), Refs(k), Busy(Unfreed, k), k)
      BY <2>1 DEF RefcountsMayGo
    <3>1. CASE depends[refcount] = Null
      BY <3>1 DEF Covered, RefcountsMayGo
    <3>2. CASE depends[refcount] # Null
      <4>1. Settled(l2)
        BY <3>2 DEF DependsStep, Caches
      <4>2. \A s \in Slots : poss[s] = {Val(s)}
        BY <4>1, Counts DEF Settled
      <4>3. Refs(k) \subseteq Sure(k)
        BY <4>2 DEF Refs, Sure
      <4>4. Cover(Val(k), Sure(k), Busy(Counted, k), k)
        BY DEF Covered, CoverNow
      <4> QED
        BY <4>3, <4>4, Counts, Subsets, CoverLess
    <3> QED
      BY <3>1, <3>2
  <2>4. L2MayGo'
    <3> SUFFICES ASSUME depends'[l2] = Null, Unrepaired, NEW k \in Clusters, NEW n \in poss[k]
                 PROVE  Cover(n, Refs(k), Busy(Linking, k), k)
      BY <2>1 DEF L2MayGo
    <3>1. CASE depends[l2] = Null
      BY <3>1 DEF Covered, L2MayGo
    <3>2. CASE depends[l2] # Null
      <4>1. Settled(refcount) /\ depends[l2] = refcount
        BY <3>2 DEF DependsStep, Caches
      <4>2. depends[refcount] = Null
        BY <3>2, <4>1, CachesDiffer DEF OneDeep
      <4>3. n = Val(k)
        <5>1. poss[k] = {Val(k)}
          BY <4>1, Counts DEF Settled
        <5> QED
          BY <5>1
      <4>4. Cover(Val(k), Refs(k), Busy(Unfreed, k), k)
        BY <4>2 DEF Covered, RefcountsMayGo
      <4>5. Cover(Val(k), Refs(k), Busy(Linking, k), k)
        BY <4>4, Counts, Subsets, CoverLess
      <4> QED
        BY <4>3, <4>5
    <3> QED
      BY <3>1, <3>2
  <2> QED
    BY <2>2, <2>3, <2>4 DEF Covered
\* Tables of a cache that has no dependency are written.
<1>GrowsCovered.
       ASSUME CacheOK', UNCHANGED <<bit, req>>, \A x \in Tabled : Val(x)' = Val(x), NEW c \in Caches,
              depends[c] = Null, Grows(c), \A d \in Caches : depends'[d] = Null => depends[d] = Null
       PROVE  Covered'
  <2> USE <1>GrowsCovered
  <2>1. /\ \A k \in Clusters : Val(k)' = Val(k) /\ \A n \in poss'[k] : n \in Nat
        /\ \A s \in Slots : Val(s)' = Val(s)
        /\ Unrepaired' <=> Unrepaired
    BY Counts, CountsNext DEF Grows, Unrepaired, FileCounts
  <2>2. \A s \in Slots : poss'[s] = poss[s] \/ (c = l2 /\ poss'[s] = poss[s] \cup {Val(s)})
    BY Counts DEF Grows
  <2>3. \A k \in Clusters : poss'[k] = poss[k] \/ (c = refcount /\ poss'[k] = poss[k] \cup {Val(k)})
    BY Counts DEF Grows
  <2>4. /\ \A k : Sure(k)' = Sure(k) /\ Refs(k)' \subseteq Refs(k) /\ Held(k)' \subseteq Refs(k)
        /\ \A P, k : Busy(P, k)' = Busy(P, k)
    BY <2>1, <2>2 DEF Sure, Refs, Held, Busy
  <2>5. Marked' /\ CoverNow'
    <3>1. Marked'
      BY DEF Grows, Marked, Covered
    <3>2. CoverNow'
      BY <2>1, <2>4 DEF Covered, CoverNow
    <3> QED
      BY <3>1, <3>2
  <2>6. RefcountsMayGo'
    <3> SUFFICES ASSUME depends'[refcount] = Null, NEW k \in Clusters
                 PROVE  Cover(Val(k), Refs(k)', Busy(Unfreed, k), k)
      BY <2>1, <2>4 DEF RefcountsMayGo
    <3>1. Cover(Val(k), Refs(k), Busy(Unfreed, k), k)
      BY CachesDiffer DEF Covered, RefcountsMayGo
    <3> QED
      BY <2>4, <3>1, Counts, Subsets, CoverLess
  <2>7. ASSUME c = refcount, NEW k \in Clusters PROVE Cover(Val(k), Refs(k), Busy(Linking, k), k)
    <3>1. Cover(Val(k), Refs(k), Busy(Unfreed, k), k)
      BY <2>7 DEF Covered, RefcountsMayGo
    <3> QED
      BY <3>1, Counts, Subsets, CoverLess
  <2>8. ASSUME depends[l2] = Null, Unrepaired, NEW k \in Clusters, NEW n \in poss'[k]
        PROVE  Cover(n, Refs(k), Busy(Linking, k), k)
    <3>1. CASE n \in poss[k]
      BY <2>8, <3>1 DEF Covered, L2MayGo
    <3>2. CASE n \notin poss[k]
      <4>1. c = refcount /\ n = Val(k)
        BY <2>3, <3>2
      <4> QED
        BY <2>7, <4>1
    <3> QED
      BY <3>1, <3>2
  <2>9. L2MayGo'
    <3> SUFFICES ASSUME depends'[l2] = Null, Unrepaired, NEW k \in Clusters, NEW n \in poss'[k]
                 PROVE  Cover(n, Refs(k)', Busy(Linking, k), k)
      BY <2>1, <2>4 DEF L2MayGo
    <3>1. Cover(n, Refs(k), Busy(Linking, k), k) /\ n \in Nat
      BY <2>1, <2>8, CachesDiffer
    <3> QED
      BY <2>4, <3>1, Subsets, CoverLess
  <2>10. CoverOnDisk'
    <3> SUFFICES ASSUME Unrepaired, NEW k \in Clusters, NEW n \in poss'[k]
                 PROVE  Cover(n, Held(k)', {}, k)
      BY <2>1 DEF CoverOnDisk
    <3>1. n \in Nat /\ {} \in SUBSET Busy(Linking, k) /\ {} \in SUBSET Reqs
      BY <2>1
    <3>2. CASE c = l2
      <4>1. Cover(n, Refs(k), Busy(Linking, k), k)
        BY <2>8, <3>2
      <4> QED
        BY <2>4, <3>1, <4>1, Subsets, CoverLess
    <3>3. CASE c = refcount
      <4>1. Held(k)' \subseteq Held(k)
        BY <2>2, <3>3, CachesDiffer DEF Held
      <4>2. CASE n \in poss[k]
        <5>1. Cover(n, Held(k), {}, k)
          BY <4>2 DEF Covered, CoverOnDisk
        <5> QED
          BY <3>1, <4>1, <5>1, Subsets, CoverLess
      <4>3. CASE n \notin poss[k]
        <5>1. Cover(n, Refs(k), Busy(Linking, k), k)
          <6>1. n = Val(k)
            BY <2>3, <4>3
          <6> QED
            BY <2>7, <3>3, <6>1
        <5> QED
          BY <2>4, <3>1, <5>1, Subsets, CoverLess
      <4> QED
        BY <4>2, <4>3
    <3> QED
      BY <3>2, <3>3 DEF Caches
  <2> QED
    BY <2>5, <2>6, <2>9, <2>10 DEF Covered
<1>1. /\ CacheOK' /\ FileStep /\ DependsStep /\ OneDeep /\ UNCHANGED <<bit, req>>
      /\ \A x \in Tabled : Val(x)' = Val(x)
  BY CacheStepOK, CacheStepDepends DEF StepOK, Kept, reqVars, flags, CallsInv
<1>2. CASE UNCHANGED <<disk, poss>>
  BY <1>1, <1>2, <1>SettledCovered
<1>3. CASE ~UNCHANGED <<disk, poss>>
  <2>1. \A d \in Caches : depends'[d] = Null => depends[d] = Null
    BY <1>1, <1>3 DEF DependsStep
  <2>2. CASE \A x \in Locations : poss'[x] = {disk[x]}
    <3>1. \A x \in Locations : poss'[x] \subseteq poss[x]
      BY <2>2 DEF CacheOK, FileTyped
    <3>2. \A x \in Tabled : Val(x)' = Val(x) /\ poss'[x] \subseteq poss[x]
      BY <1>1, <3>1, Places
    <3>3. (Unrepaired' => Unrepaired) /\ Marked'
      BY <1>1, <3>1, Places DEF Unrepaired, Marked, Covered
    <3>4. \A P, k : Busy(P, k)' \subseteq Busy(P, k)
      BY <1>1 DEF Busy
    <3> QED
      BY <2>1, <3>2, <3>3, <3>4, LessCovered
  <2>3. ASSUME NEW c \in Caches, depends[c] = Null, Grows(c) PROVE Covered'
    BY <1>1, <2>1, <2>3, <1>GrowsCovered
  <2> QED
    BY <1>1, <1>3, <2>2, <2>3 DEF FileStep
<1> QED
  BY <1>2, <1>3

LEMMA BusyKept ==
  ASSUME NEW r \in Reqs, NEW q, Moved(r, q), NEW P,
         q.at \in P => req[r].at \in P /\ q.cluster = req[r].cluster
  PROVE  \A k : Busy(P, k)' \subseteq Busy(P, k)
  BY DEF Moved, Busy

\* A request goes on with the cluster it has, or without one.
LEMMA QuietCovered ==
  ASSUME Counting, CacheOK, Covered, Quiet, bit' => bit, NEW r \in Reqs, NEW q, Moved(r, q),
         q.at \in Counted => req[r].at \in Counted /\ q.cluster = req[r].cluster,
         depends[refcount] = Null => (q.at \in Unfreed => req[r].at \in Unfreed),
         depends[l2] = Null /\ Unrepaired => q.at \notin Linking
  PROVE  Covered'
<1>1. UNCHANGED <<poss, depends>> /\ \A x \in Tabled : Val(x)' = Val(x) /\ poss'[x] \subseteq poss[x]
  BY DEF Quiet
<1>2. Marked' /\ (Unrepaired' <=> Unrepaired)
  BY <1>1 DEF Covered, Marked, Unrepaired
<1>3. q.at \in Unfreed => q.at \in Counted
  BY DEF Unfreed, Counted
<1>4. \A k : Busy(Counted, k)' \subseteq Busy(Counted, k)
  BY BusyKept
<1>5. depends'[refcount] = Null => \A k : Busy(Unfreed, k)' \subseteq Busy(Unfreed, k)
  BY <1>1, <1>3, BusyKept
<1>6. depends'[l2] = Null /\ Unrepaired' => \A k : Busy(Linking, k)' \subseteq Busy(Linking, k)
  BY <1>1, <1>2, BusyKept
<1>7. \A c \in Caches : depends'[c] = Null => depends[c] = Null
  BY <1>1
<1>8. Unrepaired' => Unrepaired
  BY <1>2
<1> QED
  BY <1>1, <1>2, <1>4, <1>5, <1>6, <1>7, <1>8, LessCovered

LEMMA LeavesCovered ==
  ASSUME Counting, CacheOK, Covered, Quiet, bit' => bit, NEW r \in Reqs, Leaves(r) \/ Stays(r)
  PROVE  Covered'
<1>1. ASSUME NEW q, Moved(r, q), q.at \notin Counted PROVE Covered'
  <2>1. q.at \notin Unfreed /\ q.at \notin Linking
    BY <1>1 DEF Counted, Unfreed, Linking, Writes
  <2> QED
    BY <1>1, <2>1, QuietCovered
<1>2. ASSUME req[r].at \in Writes, NEW q, Moved(r, q), q.at \in Writes \ {"update"}, q.cluster = req[r].cluster
      PROVE  Covered'
  <2>1. q.at \notin Linking /\ req[r].at \in Counted /\ req[r].at \in Unfreed
    BY <1>2 DEF Counted, Unfreed, Linking
  <2> QED
    BY <1>2, <2>1, QuietCovered
<1> QED
  BY <1>1, <1>2 DEF Leaves, Stays

\* One location of a table changes.
LEMMA TouchCovered ==
  ASSUME Covered, UNCHANGED <<poss, depends, bit>>,
         \A k \in Clusters : Cover(Val(k)', Sure(k)', Busy(Counted, k)', k),
         depends[refcount] = Null => \A k \in Clusters : Cover(Val(k)', Refs(k)', Busy(Unfreed, k)', k),
         depends[l2] = Null /\ Unrepaired =>
           \A k \in Clusters : \A n \in poss[k] : Cover(n, Refs(k)', Busy(Linking, k)', k)
  PROVE  Covered'
<1>1. (Unrepaired' <=> Unrepaired) /\ \A k : Held(k)' = Held(k)
  BY DEF Unrepaired, Held
<1>2. Marked' /\ CoverOnDisk'
  BY <1>1 DEF Covered, Marked, CoverOnDisk
<1>3. CoverNow' /\ RefcountsMayGo'
  BY DEF CoverNow, RefcountsMayGo
<1>4. L2MayGo'
  BY <1>1 DEF L2MayGo
<1> QED
  BY <1>2, <1>3, <1>4 DEF Covered

\* What Covered says, in the terms of TouchCovered.
LEMMA CoveredNow ==
  ASSUME CacheOK, Covered, NEW k \in Clusters
  PROVE  /\ Cover(Val(k), Sure(k), Busy(Counted, k), k) /\ Val(k) \in Nat
         /\ depends[refcount] = Null => Cover(Val(k), Refs(k), Busy(Unfreed, k), k)
         /\ depends[l2] = Null /\ Unrepaired =>
              \A n \in poss[k] : n \in Nat /\ Cover(n, Refs(k), Busy(Linking, k), k)
  BY Counts DEF Covered, CoverNow, RefcountsMayGo, L2MayGo

\* A crash would lose nothing of the tables, cached or not.
Durable == \A x \in Tabled : poss[x] = {Val(x)}

LEMMA DurableCovered == Counting /\ CacheOK /\ Durable /\ Marked /\ CoverNow => Covered
<1> SUFFICES ASSUME Counting, CacheOK, Durable, Marked, CoverNow PROVE Covered
  OBVIOUS
<1>1. \A k : Refs(k) \in SUBSET Sure(k) /\ Held(k) \in SUBSET Sure(k)
  BY Counts DEF Durable, Refs, Held, Sure
<1>2. ASSUME NEW k \in Clusters
      PROVE  /\ Val(k) \in Nat /\ poss[k] = {Val(k)}
             /\ Cover(Val(k), Refs(k), Busy(Unfreed, k), k) /\ Cover(Val(k), Refs(k), Busy(Linking, k), k)
             /\ Cover(Val(k), Held(k), {}, k)
  <2>1. Val(k) \in Nat /\ poss[k] = {Val(k)} /\ Cover(Val(k), Sure(k), Busy(Counted, k), k)
    BY Counts DEF Durable, CoverNow
  <2>2. /\ Sure(k) \in SUBSET Slots /\ Busy(Counted, k) \in SUBSET Reqs
        /\ Busy(Unfreed, k) \in SUBSET Busy(Counted, k) /\ Busy(Linking, k) \in SUBSET Busy(Counted, k)
        /\ {} \in SUBSET Busy(Counted, k)
    BY Subsets
  <2>3. Cover(Val(k), Refs(k), Busy(Unfreed, k), k) /\ Cover(Val(k), Refs(k), Busy(Linking, k), k)
    BY <1>1, <2>1, <2>2, CoverLess
  <2>4. Cover(Val(k), Held(k), {}, k)
    BY <1>1, <2>1, <2>2, CoverLess
  <2> QED
    BY <2>1, <2>3, <2>4
<1>3. RefcountsMayGo /\ L2MayGo /\ CoverOnDisk
  <2>1. RefcountsMayGo
    BY <1>2 DEF RefcountsMayGo
  <2>2. ASSUME NEW k \in Clusters, NEW n \in poss[k]
        PROVE  Cover(n, Refs(k), Busy(Linking, k), k) /\ Cover(n, Held(k), {}, k)
    <3>1. n = Val(k)
      BY <1>2
    <3> QED
      BY <1>2, <3>1
  <2> QED
    BY <2>1, <2>2 DEF L2MayGo, CoverOnDisk
<1> QED
  BY <1>3 DEF Covered

LEMMA DurableNext == ASSUME Counting PROVE CacheOK' /\ Durable' /\ Marked' /\ CoverNow' => Covered'
<1>1. Counting'
  BY DEF Counting
<1>2. (Counting /\ CacheOK /\ Durable /\ Marked /\ CoverNow => Covered)'
  BY DurableCovered, PTL
<1> QED
  BY <1>1, <1>2

\* The image has been created or repaired, and opened.
Fresh ==
  /\ AsOnDisk /\ ~bit /\ \A r \in Reqs : req[r].at = "idle"
  /\ \E im : (\A s \in Slots : im[s] \in Values(s)) /\ disk = Consistent(im)
  /\ \A x \in Locations : poss[x] = {disk[x]}

LEMMA NobodyBusy == (\A r \in Reqs : req[r].at = "idle") => \A k : Busy(Counted, k) = {}
  BY DEF Busy, Counted, Writes, Drops, Frees

LEMMA FreshCovered == Counting /\ Fresh => Covered
<1> SUFFICES ASSUME Counting, Fresh PROVE Covered
  OBVIOUS
<1>1. CacheOK /\ \A x \in Tabled : Val(x) = disk[x]
  BY DEF Fresh, AsOnDisk
<1>2. Durable /\ Marked
  BY <1>1, Places DEF Fresh, Durable, Marked
<1>3. PICK im : (\A s \in Slots : im[s] \in Values(s)) /\ disk = Consistent(im)
  BY DEF Fresh
<1>4. /\ \A s \in Slots : disk[s] = im[s]
      /\ \A k \in Clusters : disk[k] = Cardinality({s \in Slots : im[s] = k}) + Shared(k)
  BY <1>3, ConsistentImage
<1>5. ASSUME NEW k \in Clusters PROVE Cover(Val(k), Sure(k), Busy(Counted, k), k)
  <2>1. Sure(k) = {s \in Slots : im[s] = k}
    BY <1>1, <1>4, Counts DEF Sure
  <2>2. Val(k) = Cardinality(Sure(k)) + Shared(k)
    BY <1>1, <1>4, <2>1, Counts
  <2>3. Busy(Counted, k) = {} /\ Cardinality({}) = 0
    BY NobodyBusy DEF Fresh, Counting
  <2>4. Cardinality(Sure(k)) \in Nat /\ Shared(k) \in Nat
    <3>1. Cardinality(Sure(k)) \in Nat
      BY FinitelyMany, Subsets, Sizes
    <3>2. Shared(k) \in Nat
      BY SMT DEF Shared
    <3> QED
      BY <3>1, <3>2
  <2>5. \A a, b \in Nat : a + b >= a + b + 0
    BY SMT
  <2> QED
    BY <2>2, <2>3, <2>4, <2>5 DEF Cover
<1> QED
  BY <1>1, <1>2, <1>5, DurableCovered DEF CoverNow

LEMMA FreshNext == ASSUME Counting PROVE Fresh' => Covered'
<1>1. Counting'
  BY DEF Counting
<1>2. (Counting /\ Fresh => Covered)'
  BY FreshCovered, PTL
<1> QED
  BY <1>1, <1>2

\* The image is opened again.
LEMMA AgainCovered ==
  ASSUME Counting, CacheOK, Covered, Again
  PROVE  Covered'
<1>1. /\ CacheOK' /\ ~bit' /\ (\A r \in Reqs : req'[r].at = "idle")
      /\ (\A x \in Tabled : Val(x)' = disk'[x]) /\ AsOnDisk'
      /\ (\A x \in Locations : disk'[x] \in poss'[x])
  BY DEF Again, AsOnDisk
<1>2. CASE Repaired
  <2>1. Fresh'
    BY <1>1, <1>2 DEF Repaired, Fresh
  <2> QED
    BY <2>1, FreshNext
<1>3. CASE Recovered
  <2>1. /\ \A s \in Slots : Val(s)' \in poss[s] /\ poss'[s] \subseteq poss[s]
        /\ \A k \in Clusters : Val(k)' \in poss[k] /\ poss'[k] \subseteq poss[k]
    BY <1>1, <1>3, Counts DEF Recovered
  <2>2. \A k : Sure(k)' \in SUBSET Held(k) /\ Refs(k)' \in SUBSET Held(k) /\ Held(k)' \in SUBSET Held(k)
    BY <2>1 DEF Sure, Refs, Held
  <2>3. \A k : Busy(Counted, k)' = {} /\ Busy(Unfreed, k)' = {} /\ Busy(Linking, k)' = {}
    BY <1>1 DEF Busy, Counted, Unfreed, Linking, Writes, Drops, Frees
  <2>4. ASSUME NEW k \in Clusters, NEW n \in poss[k], NEW R \in SUBSET Held(k) PROVE Cover(n, R, {}, k)
    <3>1. Cover(n, Held(k), {}, k) /\ n \in Nat
      BY <1>3, Counts DEF Covered, CoverOnDisk, Recovered, Unrepaired
    <3>2. {} \in SUBSET Reqs /\ {} \in SUBSET {}
      OBVIOUS
    <3> QED
      BY <3>1, <3>2, Subsets, CoverLess
  <2>5. CoverNow' /\ RefcountsMayGo'
    BY <2>1, <2>2, <2>3, <2>4 DEF CoverNow, RefcountsMayGo
  <2>6. L2MayGo'
    BY <2>1, <2>2, <2>3, <2>4 DEF L2MayGo
  <2>7. CoverOnDisk'
    BY <2>1, <2>2, <2>4 DEF CoverOnDisk
  <2> QED
    BY <1>1, <2>5, <2>6, <2>7 DEF Covered, Marked
<1> QED
  BY <1>2, <1>3 DEF Again

-----------------------------------------------------------------------------
(* The invariant.                                                          *)

\* What a step of a request leaves behind.
RequestDone ==
  /\ CacheOK' /\ RequestsOK /\ \A s \in Slots : poss'[s] \subseteq poss[s]
  /\ ~ignored' => ~ignored /\ (Covered => Covered')

LEMMA QuietDone ==
  ASSUME Counting, CacheOK, NEW r \in Reqs, RequestsOK, Quiet, Leaves(r) \/ Stays(r),
         UNCHANGED ignored, bit' => bit
  PROVE  RequestDone
  BY LeavesCovered DEF RequestDone, Quiet

LEMMA TouchDone ==
  ASSUME NEW x, NEW v, Touch(x, v), RequestsOK, UNCHANGED ignored, Covered => Covered'
  PROVE  RequestDone
  BY DEF RequestDone, Touch

LEMMA WriteDone ==
  ASSUME Counting, CacheOK, Stacked, Requests, LockHeld, NEW r \in Reqs,
         \/ \E s \in Slots : WriteBegin(r, s) \/ DiscardBegin(r, s)
         \/ WriteLookup(r) \/ WritePick(r) \/ WriteAllocate(r) \/ WriteData(r) \/ WriteCow(r)
  PROVE  RequestDone
\* Entering qcow2_co_writev and qcow2_co_discard.
<1>BeginOK. ASSUME NEW s \in Slots, WriteBegin(r, s) \/ DiscardBegin(r, s)
       PROVE  RequestsOK /\ Quiet /\ Leaves(r)
  <2> USE <1>BeginOK
  <2>1. Quiet
    BY Quieter DEF WriteBegin, DiscardBegin, cacheVars, fileVars
  <2>2. PICK w \in {"lookup", "discard"} : Begins(r, w, s)
    BY DEF WriteBegin, DiscardBegin
  <2>3. PICK q \in Requesting : q.at = w /\ q.slot = s /\ Moved(r, q)
    <3>1. w \in GetsL2
      BY DEF GetsL2
    <3> QED
      BY <2>2, <3>1, BeginsMoves
  <2>4. holder = Null /\ holder' = r /\ Call(GetL2(s)) /\ stack = <<>>
    BY DEF WriteBegin, DiscardBegin, LockAndCall, LockHeld
  <2>5. q.at \in GetsL2 /\ q.at # "update" /\ q.at \notin Counted
    BY <2>3 DEF GetsL2, Counted, Writes, Drops, Frees
  <2>6. RequestsOK
    BY <2>3, <2>4, <2>5, CallsGetL2
  <2> QED
    BY <2>1, <2>3, <2>5, <2>6 DEF Leaves
<1>LookupOK. ASSUME WriteLookup(r) PROVE RequestsOK /\ Quiet /\ Leaves(r)
  <2> USE <1>LookupOK
  <2>1. /\ holder = r /\ stack = <<>> /\ req[r].slot \in Slots
    BY HolderAt DEF WriteLookup, ReqOK, Slotted, GetsL2
  <2>2. req[r].slot \in Tabled /\ UNCHANGED <<mem, disk, poss, depends>>
    BY <2>1 DEF Tabled, WriteLookup, fileVars
  <2>3. Quiet
    BY <2>2, Quieter, PutQuiet DEF WriteLookup
  <2>4. Finish(r) \/ (Goes(r, "pick") /\ GoOn)
    BY DEF WriteLookup
  <2> QED
    BY <2>1, <2>3, <2>4, FinishLeaves, PickLeaves
<1>PickOK. ASSUME WritePick(r) PROVE RequestsOK /\ Quiet /\ Leaves(r)
  <2> USE <1>PickOK
  <2>1. /\ holder = r /\ stack = <<>> /\ req[r].slot \in Slots
    BY HolderAt DEF WritePick, ReqOK, Slotted
  <2>2. Quiet
    BY Quieter DEF WritePick, cacheVars, fileVars
  <2>3. ASSUME NEW k \in Clusters, GoesFor(r, "allocate", k), ThenCall(GetRefcount(k))
        PROVE  RequestsOK /\ Leaves(r)
    <3>1. PICK q \in Requesting : q.at = "allocate" /\ q.slot = req[r].slot /\ q.cluster = k /\ Moved(r, q)
      <4>1. "allocate" \in Everywhere
        BY DEF Everywhere, Calling, GetsRefcount
      <4>2. MovedTo(r, "allocate", req[r].slot, k)
        BY <2>3, <4>1, GoesForMoves
      <4> QED
        BY <4>2 DEF MovedTo
    <3>2. q.at \in GetsRefcount /\ q.at \notin Counted
      BY <3>1 DEF GetsRefcount, Counted, Writes, Drops, Frees
    <3>3. RequestsOK
      BY <2>1, <2>3, <3>1, <3>2, CallsGetRefcount DEF ThenCall
    <3> QED
      BY <3>1, <3>2, <3>3 DEF Leaves
  <2> QED
    BY <2>1, <2>2, <2>3, FinishLeaves DEF WritePick
\* update_refcount(+1) of a free cluster.
<1>AllocateOK.
       ASSUME WriteAllocate(r)
       PROVE  /\ RequestsOK
              /\ \/ Quiet /\ Leaves(r)
                 \/ \E k \in Clusters, q \in Requesting :
                      /\ Touch(k, 1) /\ Val(k) = 0 /\ Moved(r, q) /\ q.at = "data" /\ q.cluster = k
  <2> USE <1>AllocateOK
  <2>1. /\ holder = r /\ stack = <<>> /\ req[r].at = "allocate" /\ Returned(req[r])
        /\ req[r].slot \in Slots /\ req[r].cluster \in Clusters
    BY HolderAt DEF WriteAllocate, ReqOK, Slotted, Clustered, GetsRefcount
  <2>2. PICK k \in Clusters : k = req[r].cluster
    BY <2>1
  <2>3. k \in Tabled /\ UNCHANGED <<disk, poss, depends>>
    BY DEF Tabled, WriteAllocate, fileVars
  <2>4. CASE Finish(r) /\ UNCHANGED <<entries, mem>>
    BY <2>1, <2>3, <2>4, Quieter, FinishLeaves
  <2>5. CASE entries' = Put(entries, k) /\ Goes(r, "pick") /\ GoOn /\ UNCHANGED mem
    BY <2>1, <2>3, <2>5, PutQuiet, PickLeaves
  <2>6. CASE /\ ret # "error" /\ mem[k] = 0 /\ mem' = [mem EXCEPT ![k] = 1] /\ entries' = Put(Dirtied(k), k)
             /\ Goes(r, "data") /\ Unlock
    <3>1. ret = "ok" /\ Cached(k)
      <4>1. req[r].at \in Calling /\ req[r].at # "close" /\ req[r].at \in GetsRefcount
        BY <2>1 DEF Calling, GetsRefcount
      <4>2. ret = "ok"
        BY <2>1, <2>6, <4>1, Succeeded
      <4> QED
        BY <2>1, <2>2, <4>1, <4>2 DEF Returned
    <3>2. Val(k) = 0
      BY <2>6, <3>1 DEF Val
    <3>3. 1 \in Values(k)
      <4>1. k \notin Slots /\ 1 \in Nat
        BY Qcow2Assumption, SMT
      <4> QED
        BY <4>1 DEF Values
    <3>4. Shaped(entries') /\ DirtyOnly(k, entries')
      BY <2>3, <2>6, <3>1, DirtiedOne, PutDirty DEF CacheOK
    <3>5. Touch(k, 1)
      BY <2>3, <2>6, <3>1, <3>3, <3>4, Touches
    <3>6. PICK q \in Requesting : /\ q.at = "data" /\ q.slot = req[r].slot /\ q.cluster = req[r].cluster
                                  /\ Moved(r, q)
      BY <2>6, GoesMoves DEF Everywhere, Unlocked
    <3>7. RequestsOK
      BY <2>1, <2>6, <3>6, Unlocks
    <3> QED
      BY <2>2, <3>2, <3>5, <3>6, <3>7
  <2> QED
    BY <2>2, <2>4, <2>5, <2>6 DEF WriteAllocate
<1>DataOK. ASSUME WriteData(r) \/ WriteCow(r) PROVE RequestsOK /\ Quiet /\ (Leaves(r) \/ Stays(r))
  <2> USE <1>DataOK
  <2>1. Quiet
    BY Quieter DEF WriteData, WriteCow, cacheVars
  <2>2. /\ req[r].at \in {"data", "cow"} /\ holder = Null
        /\ \/ Goes(r, "mark") /\ holder' = r /\ Continue
           \/ Goes(r, "cow") /\ Unlock
           \/ Finish(r)
    BY DEF WriteData, WriteCow
  <2> QED
    BY <2>1, <2>2, WrittenStays
<1>AllocateCovered.
       ASSUME Covered, UNCHANGED bit, NEW a \in Clusters, Touch(a, 1), Val(a) = 0, NEW q, Moved(r, q),
              q.at = "data", q.cluster = a
       PROVE  Covered'
  <2> USE <1>AllocateCovered
  <2>CoverMore.
         ASSUME NEW v \in Nat, NEW A \in SUBSET Slots, NEW B \in SUBSET Reqs, NEW k, Cover(v, A, B, k),
                NEW C \in SUBSET Slots, NEW D \in SUBSET Reqs, C \subseteq A, D \subseteq B \cup {r}
         PROVE  Cover(v + 1, C, D, k)
    <3> USE <2>CoverMore
    <3>1. Cardinality(A) \in Nat /\ Cardinality(C) \in Nat /\ Cardinality(C) <= Cardinality(A)
      BY FinitelyMany, Sizes
    <3>2. Cardinality(B) \in Nat /\ Cardinality(D) \in Nat /\ Cardinality(D) <= Cardinality(B) + 1
      BY FinitelyMany, Sizes
    <3>3. PICK i \in Int, j \in Int, w \in Nat : i = 0 /\ j = 1 /\ w = v + 1
      BY SMT
    <3>4. w >= v + i + j /\ Cardinality(C) <= Cardinality(A) + i /\ Cardinality(D) <= Cardinality(B) + j
      BY <3>1, <3>2, <3>3, SMT
    <3> QED
      BY <3>1, <3>2, <3>3, <3>4, CoverBy
  <2>1. /\ \A k : Sure(k)' = Sure(k) /\ Refs(k)' = Refs(k)
        /\ UNCHANGED <<poss, depends>>
        /\ \A k \in Clusters : Val(k)' = IF k = a THEN 1 ELSE Val(k)
    <3>1. UNCHANGED poss /\ \A s \in Slots : Val(s)' = Val(s)
      BY Counts DEF Touch
    <3>2. UNCHANGED depends /\ \A k \in Clusters : Val(k)' = IF k = a THEN 1 ELSE Val(k)
      BY Counts DEF Touch
    <3> QED
      BY <3>1, <3>2 DEF Sure, Refs
  <2>2. q.at \notin Linking
    BY DEF Linking
  <2>3. \A k : /\ Busy(Linking, k)' \subseteq Busy(Linking, k)
               /\ \A P : Busy(P, k)' \subseteq Busy(P, k) \cup {r}
               /\ k # a => \A P : Busy(P, k)' \subseteq Busy(P, k)
    BY <2>2, BusyMoved
  <2>4. ASSUME NEW k \in Clusters, NEW R \in SUBSET Slots, NEW P, Cover(Val(k), R, Busy(P, k), k)
        PROVE  Cover(Val(k)', R, Busy(P, k)', k)
    <3>1. Val(k) \in Nat /\ Busy(P, k) \in SUBSET Reqs /\ R \subseteq R
      BY Counts, Subsets
    <3>2. CASE k = a
      <4>1. Busy(P, k)' \in SUBSET Reqs /\ Busy(P, k)' \subseteq Busy(P, k) \cup {r}
        BY <2>3, <3>1
      <4>2. Cover(Val(k) + 1, R, Busy(P, k)', k)
        BY <2>4, <3>1, <4>1, <2>CoverMore
      <4>3. Val(k)' = Val(k) + 1
        BY <2>1, <3>2, SMT
      <4> QED
        BY <4>2, <4>3
    <3>3. CASE k # a
      <4>1. Busy(P, k)' \in SUBSET Busy(P, k) /\ R \in SUBSET R /\ Val(k)' = Val(k)
        BY <2>1, <2>3, <3>3
      <4> QED
        BY <2>4, <3>1, <4>1, CoverLess
    <3> QED
      BY <3>2, <3>3
  <2>5. \A k \in Clusters : Cover(Val(k)', Sure(k)', Busy(Counted, k)', k)
    BY <2>1, <2>4, CoveredNow, Subsets
  <2>6. depends[refcount] = Null => \A k \in Clusters : Cover(Val(k)', Refs(k)', Busy(Unfreed, k)', k)
    BY <2>1, <2>4, CoveredNow, Subsets
  <2>7. depends[l2] = Null /\ Unrepaired =>
          \A k \in Clusters : \A n \in poss[k] : Cover(n, Refs(k)', Busy(Linking, k)', k)
    BY <2>1, <2>3, CoveredNow, CoverLess, Subsets
  <2> QED
    BY <2>1, <2>5, <2>6, <2>7, TouchCovered
<1>1. UNCHANGED ignored /\ UNCHANGED bit
  BY DEF WriteBegin, DiscardBegin, WriteLookup, WritePick, WriteAllocate, WriteData, WriteCow, flags
<1>2. bit' => bit
  BY <1>1
<1>3. ASSUME NEW s \in Slots, WriteBegin(r, s) \/ DiscardBegin(r, s) PROVE RequestDone
  BY <1>1, <1>2, <1>3, <1>BeginOK, QuietDone
<1>4. CASE WriteLookup(r)
  BY <1>1, <1>2, <1>4, <1>LookupOK, QuietDone
<1>5. CASE WritePick(r)
  BY <1>1, <1>2, <1>5, <1>PickOK, QuietDone
<1>6. CASE WriteData(r) \/ WriteCow(r)
  BY <1>1, <1>2, <1>6, <1>DataOK, QuietDone
<1>7. CASE WriteAllocate(r)
  <2>1. RequestsOK
    BY <1>7, <1>AllocateOK
  <2>2. CASE Quiet /\ Leaves(r)
    BY <1>1, <1>2, <2>1, <2>2, QuietDone
  <2>3. ASSUME NEW k \in Clusters, NEW q, Touch(k, 1), Val(k) = 0, Moved(r, q), q.at = "data", q.cluster = k
        PROVE  RequestDone
    <3>1. Covered => Covered'
      BY <1>1, <2>3, <1>AllocateCovered
    <3> QED
      BY <1>1, <2>1, <2>3, <3>1, TouchDone
  <2>4. \/ Quiet /\ Leaves(r)
        \/ \E k \in Clusters, q \in Requesting :
             /\ Touch(k, 1) /\ Val(k) = 0 /\ Moved(r, q) /\ q.at = "data" /\ q.cluster = k
    BY <1>7, <1>AllocateOK
  <2> QED
    BY <2>2, <2>3, <2>4
<1> QED
  BY <1>3, <1>4, <1>5, <1>6, <1>7

LEMMA LinkDone ==
  ASSUME Counting, CacheOK, Stacked, Requests, NEW r \in Reqs,
         WriteMark(r) \/ WriteLink(r) \/ WriteUpdate(r)
  PROVE  RequestDone
<1>MarkOK.
       ASSUME WriteMark(r)
       PROVE  /\ RequestsOK /\ MarkStep /\ req[r].at \in Writes
              /\ \E q : /\ Moved(r, q) /\ q.cluster = req[r].cluster
                        /\ (q.at = "link" \/ (q.at = "update" /\ bit'))
  <2> USE <1>MarkOK
  <2>MarkedDirty.
         ASSUME UNCHANGED <<entries, mem>>, MarkDirty
         PROVE  /\ CacheOK' /\ \A x \in Tabled : Val(x)' = Val(x) /\ poss'[x] = {disk[x]}
                /\ poss'[header] = {TRUE}
    <3> USE <2>MarkedDirty
    <3>1. /\ header \in Locations /\ disk \in [Locations -> Contents]
          /\ TRUE \in Contents /\ TRUE \in Values(header)
      BY Places, Qcow2Assumption DEF CacheOK, FileTyped, Contents, Values, Tabled
    <3>2. /\ disk' \in [Locations -> Contents]
          /\ \A x \in Locations : disk'[x] = IF x = header THEN TRUE ELSE disk[x]
      BY <3>1 DEF MarkDirty
    <3>3. /\ poss' \in [Locations -> SUBSET Contents]
          /\ \A x \in Locations : poss'[x] = {disk'[x]}
      <4>1. poss' = [x \in Locations |-> {disk'[x]}]
        BY DEF MarkDirty
      <4>2. \A x \in Locations : {disk'[x]} \in SUBSET Contents
        BY <3>2
      <4> QED
        BY <4>1, <4>2
    <3>4. \A x \in Locations : disk'[x] \in poss'[x] /\ poss'[x] \subseteq Values(x)
      BY <3>1, <3>2, <3>3 DEF CacheOK, FileTyped
    <3>5. \A x \in Tabled : disk'[x] = disk[x] /\ poss'[x] = {disk[x]}
      BY <3>2, <3>3, Places
    <3>6. Shaped(entries') /\ SameTables(entries, entries')
      BY DEF CacheOK, SameTables
    <3>7. CacheOK' /\ \A x \in Tabled : Val(x)' = Val(x)
      BY <3>2, <3>3, <3>4, <3>5, <3>6, SameOK
    <3> QED
      BY <3>1, <3>2, <3>3, <3>5, <3>7
  <2>1. /\ holder = r /\ stack = <<>> /\ req[r].at = "mark"
        /\ req[r].slot \in Slots /\ req[r].cluster \in Clusters
    BY HolderAt DEF WriteMark, ReqOK, Slotted, Clustered
  <2>2. UNCHANGED <<entries, mem, depends>>
    BY DEF WriteMark, cacheVars
  <2>3. MarkStep
    <3>1. CASE MarkDirty /\ bit' = TRUE
      BY <2>2, <3>1, <2>MarkedDirty DEF MarkStep
    <3>2. CASE MarkDirtyFails /\ bit' = FALSE
      <4>1. (disk' = disk \/ disk' = [disk EXCEPT ![header] = TRUE]) /\ poss' = [poss EXCEPT ![header] = @ \cup {TRUE}]
        BY <3>2 DEF MarkDirtyFails
      <4> QED
        BY <2>2, <3>2, <4>1, HeaderWritten DEF MarkStep
    <3>3. CASE UNCHANGED <<fileVars, bit>>
      BY <2>2, <3>3, QuietStep DEF MarkStep, Kept, fileVars
    <3> QED
      BY <3>1, <3>2, <3>3 DEF WriteMark
  <2>4. CASE bit' /\ Goes(r, "update") /\ ThenCall(GetL2(req[r].slot))
    <3>1. PICK q \in Requesting : /\ q.at = "update" /\ q.slot = req[r].slot /\ q.cluster = req[r].cluster
                                  /\ Moved(r, q)
      BY <2>4, GoesMoves DEF Everywhere, Calling, GetsL2
    <3>2. q.at \in GetsL2 /\ Call(GetL2(q.slot)) /\ holder' = r
      BY <2>1, <2>4, <3>1 DEF GetsL2, ThenCall
    <3>3. RequestsOK
      BY <2>1, <3>1, <3>2, CallsGetL2
    <3> QED
      BY <2>1, <2>3, <2>4, <3>1, <3>3 DEF Writes
  <2>5. CASE Goes(r, "link") /\ ThenCall(SetFrame(l2, refcount))
    <3>1. PICK q \in Requesting : /\ q.at = "link" /\ q.slot = req[r].slot /\ q.cluster = req[r].cluster
                                  /\ Moved(r, q)
      BY <2>5, GoesMoves DEF Everywhere, Calling
    <3>2. RequestsOK
      BY <2>1, <2>5, <3>1, CallsSet DEF ThenCall
    <3> QED
      BY <2>1, <2>3, <3>1, <3>2 DEF Writes
  <2> QED
    BY <2>4, <2>5 DEF WriteMark
\* The L2 tables have been made to depend on the refcounts.
<1>LinkOK.
       ASSUME WriteLink(r)
       PROVE  /\ RequestsOK /\ Quiet /\ req[r].at \in Writes
              /\ (~ignored' => ~ignored /\ depends[l2] = refcount)
              /\ \E q : Moved(r, q) /\ q.at = "update" /\ q.cluster = req[r].cluster
  <2> USE <1>LinkOK
  <2>1. /\ holder = r /\ stack = <<>> /\ req[r].at = "link" /\ Returned(req[r])
        /\ req[r].slot \in Slots /\ req[r].cluster \in Clusters
    BY HolderAt DEF WriteLink, ReqOK, Slotted, Clustered
  <2>2. Quiet
    BY Quieter DEF WriteLink, cacheVars, fileVars
  <2>3. ~ignored' => ~ignored /\ depends[l2] = refcount
    <3>1. req[r].at \in Calling /\ req[r].at # "close"
      BY <2>1 DEF Calling
    <3>2. ret # "error" => ret = "ok"
      BY <2>1, <3>1, Succeeded
    <3> QED
      BY <2>1, <3>2 DEF WriteLink, Ignore, Returned
  <2>4. PICK q \in Requesting : /\ q.at = "update" /\ q.slot = req[r].slot /\ q.cluster = req[r].cluster
                                /\ Moved(r, q)
    BY GoesMoves DEF WriteLink, Everywhere, Calling, GetsL2
  <2>5. q.at \in GetsL2 /\ Call(GetL2(q.slot)) /\ holder' = r
    BY <2>1, <2>4 DEF GetsL2, ThenCall, WriteLink
  <2>6. RequestsOK
    BY <2>1, <2>4, <2>5, CallsGetL2
  <2> QED
    BY <2>1, <2>2, <2>3, <2>4, <2>6 DEF Writes
\* The L2 table points to the new cluster.
<1>UpdateOK.
       ASSUME WriteUpdate(r)
       PROVE  /\ RequestsOK /\ req[r].at = "update" /\ req[r].cluster \in Clusters
              /\ \/ Quiet /\ Leaves(r)
                 \/ \E s \in Slots : Touch(s, req[r].cluster) /\ Val(s) = Null /\ Leaves(r)
                 \/ \E s \in Slots : /\ Touch(s, req[r].cluster) /\ Val(s) \in Clusters
                                     /\ Unlinked(r, "free", Val(s))
  <2> USE <1>UpdateOK
  <2>1. /\ holder = r /\ stack = <<>> /\ req[r].at = "update" /\ Returned(req[r])
        /\ req[r].slot \in Slots /\ req[r].cluster \in Clusters
    BY HolderAt DEF WriteUpdate, ReqOK, Slotted, Clustered, GetsL2
  <2>2. PICK s \in Slots : s = req[r].slot
    BY <2>1
  <2>3. s \in Tabled /\ UNCHANGED <<disk, poss, depends>>
    BY DEF Tabled, WriteUpdate, fileVars
  <2>4. CASE Finish(r) /\ UNCHANGED <<entries, mem>>
    BY <2>1, <2>3, <2>4, Quieter, FinishLeaves
  <2>5. CASE /\ ret # "error" /\ mem' = [mem EXCEPT ![s] = req[r].cluster] /\ entries' = Put(Dirtied(s), s)
             /\ \/ mem[s] = Null /\ Finish(r)
                \/ mem[s] # Null /\ GoesFor(r, "free", mem[s]) /\ ThenCall(SetFrame(refcount, l2))
    <3>1. Cached(s)
      <4>1. req[r].at \in Calling /\ req[r].at # "close" /\ req[r].at \in GetsL2
        BY <2>1 DEF Calling, GetsL2
      <4>2. ret = "ok"
        BY <2>1, <2>5, <4>1, Succeeded
      <4> QED
        BY <2>1, <2>2, <4>1, <4>2 DEF Returned
    <3>2. Val(s) = mem[s] /\ Val(s) \in Clusters \cup {Null} /\ req[r].cluster \in Values(s)
      BY <2>1, <2>3, <3>1, ValTyped DEF Val, Values
    <3>3. Shaped(entries') /\ DirtyOnly(s, entries')
      BY <2>3, <2>5, <3>1, DirtiedOne, PutDirty DEF CacheOK
    <3>4. Touch(s, req[r].cluster)
      BY <2>3, <2>5, <3>1, <3>2, <3>3, Touches
    <3>5. CASE mem[s] = Null /\ Finish(r)
      BY <2>1, <3>2, <3>4, <3>5, FinishLeaves
    <3>6. CASE mem[s] # Null /\ GoesFor(r, "free", mem[s]) /\ ThenCall(SetFrame(refcount, l2))
      <4>1. mem[s] \in Clusters /\ "free" \in Frees
        BY <3>2, <3>6 DEF Frees
      <4>2. RequestsOK /\ Unlinked(r, "free", mem[s])
        BY <2>1, <3>6, <4>1, FreesOld
      <4> QED
        BY <2>1, <3>2, <3>4, <4>1, <4>2
    <3> QED
      BY <2>5, <3>5, <3>6
  <2> QED
    BY <2>2, <2>4, <2>5 DEF WriteUpdate
<1>MarkCovered.
       ASSUME Covered, MarkStep, req[r].at \in Writes, NEW q, Moved(r, q), q.cluster = req[r].cluster,
              q.at = "link" \/ (q.at = "update" /\ bit')
       PROVE  Covered'
  <2> USE <1>MarkCovered
  <2>1. /\ UNCHANGED depends
        /\ \A x \in Tabled : Val(x)' = Val(x) /\ poss'[x] \subseteq poss[x]
    <3>1. \A x \in Tabled : {disk[x]} \subseteq poss[x]
      BY Places DEF CacheOK, FileTyped
    <3> QED
      BY <3>1 DEF MarkStep
  <2>2. Marked' /\ (Unrepaired' => Unrepaired)
    <3>1. CASE bit' = TRUE /\ poss'[header] = {TRUE}
      <4>1. FALSE \notin poss'[header]
        BY <3>1
      <4> QED
        BY <4>1 DEF Marked, Unrepaired
    <3>2. CASE bit' = FALSE /\ poss'[header] = poss[header] \cup {TRUE}
      <4>1. FALSE \in poss'[header] => FALSE \in poss[header]
        BY <3>2
      <4> QED
        BY <3>2, <4>1 DEF Marked, Unrepaired
    <3>3. CASE bit' = bit /\ UNCHANGED <<disk, poss>>
      BY <3>3 DEF Covered, Marked, Unrepaired
    <3> QED
      BY <3>1, <3>2, <3>3 DEF MarkStep
  <2>3. bit' => ~Unrepaired'
    BY <2>2 DEF Marked, Unrepaired
  <2>4. req[r].at \in Counted /\ req[r].at \in Unfreed
    BY DEF Counted, Unfreed
  <2>5. \A k : Busy(Counted, k)' \subseteq Busy(Counted, k) /\ Busy(Unfreed, k)' \subseteq Busy(Unfreed, k)
    BY <2>4, BusyKept
  <2>6. Unrepaired' => q.at \notin Linking
    BY <2>3 DEF Linking
  <2>7. Unrepaired' => \A k : Busy(Linking, k)' \subseteq Busy(Linking, k)
    BY <2>6, BusyKept
  <2>8. \A c \in Caches : depends'[c] = Null => depends[c] = Null
    BY <2>1
  <2> QED
    BY <2>1, <2>2, <2>5, <2>7, <2>8, LessCovered
<1>LinkCovered.
       ASSUME Covered, Quiet, bit' => bit, req[r].at \in Writes, depends[l2] = refcount, NEW q, Moved(r, q),
              q.at = "update", q.cluster = req[r].cluster
       PROVE  Covered'
  <2> USE <1>LinkCovered
  <2>1. depends[l2] # Null /\ req[r].at \in Counted /\ req[r].at \in Unfreed
    BY CachesDiffer, Qcow2Assumption DEF Counted, Unfreed
  <2> QED
    BY <2>1, QuietCovered
<1>UpdateCovered.
       ASSUME Covered, UNCHANGED bit, req[r].at = "update", NEW a \in Clusters, a = req[r].cluster,
              NEW s \in Slots, Touch(s, a), NEW q, Moved(r, q), q.at \notin Unfreed,
              q.at \in Counted => q.cluster = Val(s)
       PROVE  Covered'
  <2> USE <1>UpdateCovered
  <2>1. /\ UNCHANGED <<poss, depends>>
        /\ \A x \in Slots : Val(x)' = IF x = s THEN a ELSE Val(x)
        /\ \A k \in Clusters : Val(k)' = Val(k) /\ k # s
    BY Counts DEF Touch
  <2>2. /\ \A k : Sure(k)' \in SUBSET Slots /\ Refs(k)' \in SUBSET Slots
        /\ Sure(a)' \subseteq Sure(a) \cup {s} /\ Refs(a)' \subseteq Refs(a) \cup {s}
        /\ \A k : k # a => Sure(k)' \subseteq Sure(k) \ {s} /\ Refs(k)' \subseteq Refs(k)
        /\ s \in Sure(Val(s))
    BY <2>1 DEF Sure, Refs
  <2>3. r \in Busy(Counted, a) /\ r \in Busy(Unfreed, a) /\ r \in Busy(Linking, a) /\ q.at \notin Linking
    BY DEF Busy, Counted, Unfreed, Linking, Writes
  <2>4. \A k : /\ Busy(Unfreed, k)' \subseteq Busy(Unfreed, k) \ {r}
               /\ Busy(Linking, k)' \subseteq Busy(Linking, k) \ {r}
               /\ Busy(Counted, k)' \subseteq Busy(Counted, k) \cup {r}
               /\ k # Val(s) => Busy(Counted, k)' \subseteq Busy(Counted, k) \ {r}
    <3>1. ASSUME NEW k, NEW P, q.at \notin P PROVE Busy(P, k)' \subseteq Busy(P, k) \ {r}
      BY <3>1, BusyMoved
    <3>2. ASSUME NEW k, k # Val(s) PROVE Busy(Counted, k)' \subseteq Busy(Counted, k) \ {r}
      <4>1. ~(q.at \in Counted /\ q.cluster = k)
        BY <3>2
      <4> QED
        BY <4>1, BusyMoved
    <3>3. \A k : Busy(Counted, k)' \subseteq Busy(Counted, k) \cup {r}
      BY BusyMoved
    <3> QED
      BY <2>3, <3>1, <3>2, <3>3
  <2>5. \A k : \A P \in {Counted, Unfreed, Linking} : Busy(P, k) \in SUBSET Reqs /\ Busy(P, k)' \in SUBSET Reqs
    <3>1. \A P, k : Busy(P, k) \in SUBSET Reqs
      BY Subsets
    <3> QED
      BY <2>4, <3>1
  <2>6. ASSUME NEW k \in Clusters PROVE Cover(Val(k)', Sure(k)', Busy(Counted, k)', k)
    <3>1. Cover(Val(k), Sure(k), Busy(Counted, k), k) /\ Val(k) \in Nat /\ Val(k)' = Val(k)
      BY <2>1, CoveredNow
    <3>2. Sure(k) \in SUBSET Slots /\ Sure(k)' \in SUBSET Slots /\ Busy(Counted, k) \in SUBSET Reqs /\ Busy(Counted, k)' \in SUBSET Reqs
      BY <2>2, <2>5, Subsets
    <3>3. CASE k = a /\ k = Val(s)
      <4>1. Sure(k)' \in SUBSET Sure(k) /\ Busy(Counted, k)' \in SUBSET Busy(Counted, k)
        BY <2>2, <2>3, <2>4, <3>3
      <4> QED
        BY <3>1, <3>2, <4>1, CoverLess
    <3>4. CASE k = a /\ k # Val(s)
      <4>1. Gains(Sure(k), Sure(k)', s) /\ Loses(Busy(Counted, k), Busy(Counted, k)', r)
        BY <2>2, <2>3, <2>4, <3>4 DEF Gains, Loses
      <4>2. Cover(Val(k), Sure(k)', Busy(Counted, k)', k)
        BY <3>1, <3>2, <4>1, CoverLinked
      <4> QED
        BY <3>1, <4>2
    <3>5. CASE k # a /\ k = Val(s)
      <4>1. Loses(Sure(k), Sure(k)', s) /\ Gains(Busy(Counted, k), Busy(Counted, k)', r)
        BY <2>2, <2>4, <3>5 DEF Gains, Loses
      <4>2. Cover(Val(k), Sure(k)', Busy(Counted, k)', k)
        BY <3>1, <3>2, <4>1, CoverUnlinked
      <4> QED
        BY <3>1, <4>2
    <3>6. CASE k # a /\ k # Val(s)
      <4>1. Sure(k)' \in SUBSET Sure(k) /\ Busy(Counted, k)' \in SUBSET Busy(Counted, k)
        BY <2>2, <2>4, <3>6
      <4> QED
        BY <3>1, <3>2, <4>1, CoverLess
    <3> QED
      BY <3>3, <3>4, <3>5, <3>6
  <2>7. ASSUME NEW k \in Clusters, NEW v \in Nat, NEW P \in {Unfreed, Linking}, Cover(v, Refs(k), Busy(P, k), k)
        PROVE  Cover(v, Refs(k)', Busy(P, k)', k)
    <3>1. /\ Refs(k) \in SUBSET Slots /\ Refs(k)' \in SUBSET Slots
          /\ Busy(P, k) \in SUBSET Reqs /\ Busy(P, k)' \in SUBSET Reqs
          /\ Busy(P, k)' \subseteq Busy(P, k) \ {r} /\ Busy(P, k)' \in SUBSET Busy(P, k)
      BY <2>2, <2>4, <2>5, Subsets
    <3>2. CASE k = a
      <4>1. Gains(Refs(k), Refs(k)', s) /\ Loses(Busy(P, k), Busy(P, k)', r)
        BY <2>2, <2>3, <3>1, <3>2 DEF Gains, Loses
      <4> QED
        BY <2>7, <3>1, <4>1, CoverLinked
    <3>3. CASE k # a
      <4>1. Refs(k)' \in SUBSET Refs(k)
        BY <2>2, <3>3
      <4> QED
        BY <2>7, <3>1, <4>1, CoverLess
    <3> QED
      BY <3>2, <3>3
  <2>8. depends[refcount] = Null => \A k \in Clusters : Cover(Val(k)', Refs(k)', Busy(Unfreed, k)', k)
    BY <2>1, <2>7, CoveredNow
  <2>9. depends[l2] = Null /\ Unrepaired =>
          \A k \in Clusters : \A n \in poss[k] : Cover(n, Refs(k)', Busy(Linking, k)', k)
    BY <2>7, CoveredNow
  <2> QED
    BY <2>1, <2>6, <2>8, <2>9, TouchCovered
<1>1. CASE WriteMark(r)
  <2>1. RequestsOK /\ MarkStep /\ req[r].at \in Writes /\ UNCHANGED ignored
    BY <1>1, <1>MarkOK DEF WriteMark
  <2>2. PICK q : Moved(r, q) /\ q.cluster = req[r].cluster /\ (q.at = "link" \/ (q.at = "update" /\ bit'))
    BY <1>1, <1>MarkOK
  <2>3. Covered => Covered'
    BY <2>1, <2>2, <1>MarkCovered
  <2>4. \A s \in Slots : poss'[s] \subseteq poss[s]
    BY <2>1, Counts DEF MarkStep
  <2> QED
    BY <2>1, <2>3, <2>4 DEF RequestDone, MarkStep
<1>2. CASE WriteLink(r)
  <2>1. /\ RequestsOK /\ Quiet /\ req[r].at \in Writes /\ (~ignored' => ~ignored /\ depends[l2] = refcount)
        /\ UNCHANGED bit
    BY <1>2, <1>LinkOK DEF WriteLink, Ignore
  <2>2. PICK q : Moved(r, q) /\ q.at = "update" /\ q.cluster = req[r].cluster
    BY <1>2, <1>LinkOK
  <2>3. bit' => bit
    BY <2>1
  <2>4. ~ignored' => ~ignored /\ (Covered => Covered')
    BY <2>1, <2>2, <2>3, <1>LinkCovered
  <2> QED
    BY <2>1, <2>4 DEF RequestDone, Quiet
<1>3. CASE WriteUpdate(r)
  <2>1. RequestsOK /\ req[r].at = "update" /\ req[r].cluster \in Clusters /\ UNCHANGED <<ignored, bit>>
    BY <1>3, <1>UpdateOK DEF WriteUpdate, flags
  <2>2. CASE Quiet /\ Leaves(r)
    <3>1. bit' => bit
      BY <2>1
    <3> QED
      BY <2>1, <2>2, <3>1, QuietDone
  <2>3. ASSUME NEW s \in Slots, Touch(s, req[r].cluster),
               NEW q, Moved(r, q), q.at \notin Unfreed, q.at \in Counted => q.cluster = Val(s)
        PROVE  RequestDone
    <3>1. Covered => Covered'
      BY <2>1, <2>3, <1>UpdateCovered
    <3> QED
      BY <2>1, <2>3, <3>1, TouchDone
  <2>4. ASSUME NEW s \in Slots, Touch(s, req[r].cluster), Leaves(r) PROVE RequestDone
    <3>1. PICK q : Moved(r, q) /\ q.at \notin Counted /\ q.at \notin Unfreed
      BY <2>4 DEF Leaves, Counted, Unfreed
    <3> QED
      BY <2>3, <2>4, <3>1
  <2>5. ASSUME NEW s \in Slots, Touch(s, req[r].cluster), Unlinked(r, "free", Val(s)) PROVE RequestDone
    <3>1. PICK q : Moved(r, q) /\ q.at = "free" /\ q.cluster = Val(s)
      BY <2>5 DEF Unlinked
    <3>2. q.at \notin Unfreed
      BY <3>1 DEF Unfreed, Writes, Drops
    <3> QED
      BY <2>3, <2>5, <3>1, <3>2
  <2> QED
    BY <1>3, <2>2, <2>4, <2>5, <1>UpdateOK
<1> QED
  BY <1>1, <1>2, <1>3

LEMMA FreeDone ==
  ASSUME Counting, CacheOK, Stacked, Requests, NEW r \in Reqs, Discard(r) \/ Free(r) \/ Drop(r)
  PROVE  RequestDone
\* The L2 entry is cleared.
<1>DiscardOK.
       ASSUME Discard(r)
       PROVE  /\ RequestsOK /\ req[r].at = "discard"
              /\ \/ Quiet /\ Leaves(r)
                 \/ \E s \in Slots : /\ Touch(s, Null) /\ Val(s) \in Clusters
                                     /\ Unlinked(r, "freeHeld", Val(s))
  <2> USE <1>DiscardOK
  <2>1. /\ holder = r /\ stack = <<>> /\ req[r].at = "discard" /\ Returned(req[r])
        /\ req[r].slot \in Slots
    BY HolderAt DEF Discard, ReqOK, Slotted, GetsL2
  <2>2. PICK s \in Slots : s = req[r].slot
    BY <2>1
  <2>3. s \in Tabled /\ UNCHANGED <<disk, poss, depends>>
    BY DEF Tabled, Discard, fileVars
  <2>4. CASE Finish(r) /\ UNCHANGED mem /\ (UNCHANGED entries \/ entries' = Put(entries, s))
    BY <2>1, <2>3, <2>4, Quieter, PutQuiet, FinishLeaves
  <2>5. CASE /\ ret # "error" /\ mem[s] # Null /\ mem' = [mem EXCEPT ![s] = Null] /\ entries' = Dirtied(s)
             /\ GoesFor(r, "freeHeld", mem[s]) /\ ThenCall(SetFrame(refcount, l2))
    <3>1. Cached(s)
      <4>1. req[r].at \in Calling /\ req[r].at # "close" /\ req[r].at \in GetsL2
        BY <2>1 DEF Calling, GetsL2
      <4>2. ret = "ok"
        BY <2>1, <2>5, <4>1, Succeeded
      <4> QED
        BY <2>1, <2>2, <4>1, <4>2 DEF Returned
    <3>2. Val(s) = mem[s] /\ Val(s) \in Clusters /\ Null \in Values(s)
      BY <2>3, <2>5, <3>1, ValTyped DEF Val, Values
    <3>3. Shaped(entries') /\ DirtyOnly(s, entries')
      BY <2>3, <2>5, <3>1, DirtiedOne DEF CacheOK
    <3>4. Touch(s, Null)
      BY <2>3, <2>5, <3>1, <3>2, <3>3, Touches
    <3>5. "freeHeld" \in Frees
      BY DEF Frees
    <3>6. RequestsOK /\ Unlinked(r, "freeHeld", mem[s])
      BY <2>1, <2>5, <3>2, <3>5, FreesOld
    <3> QED
      BY <2>1, <3>2, <3>4, <3>6
  <2> QED
    BY <2>2, <2>4, <2>5 DEF Discard
\* The refcount blocks have been made to depend on the L2 tables.
<1>FreeOK.
       ASSUME Free(r)
       PROVE  /\ RequestsOK /\ Quiet /\ req[r].at \in Frees
              /\ (~ignored' => ~ignored /\ depends[refcount] = l2)
              /\ \E q : Moved(r, q) /\ q.at \in Drops /\ q.cluster = req[r].cluster
  <2> USE <1>FreeOK
  <2>1. PICK w \in Frees : At(r, w)
    BY DEF Free, Frees
  <2>2. /\ holder = r /\ stack = <<>> /\ req[r].at = w /\ Returned(req[r])
        /\ (w # "free" => req[r].slot \in Slots) /\ req[r].cluster \in Clusters
    BY <2>1, HolderAt DEF ReqOK, Slotted, Clustered, Frees
  <2>3. Quiet
    BY Quieter DEF Free, cacheVars, fileVars
  <2>4. ~ignored' => ~ignored /\ depends[refcount] = l2
    <3>1. req[r].at \in Calling /\ req[r].at # "close"
      BY <2>2 DEF Calling, Frees
    <3>2. ret # "error" => ret = "ok"
      BY <2>2, <3>1, Succeeded
    <3> QED
      BY <2>2, <3>2 DEF Free, Ignore, Returned
  <2>5. PICK v \in Drops : Goes(r, v) /\ (v # "drop" => w # "free")
    BY <2>2 DEF Free, Drops, Frees
  <2>6. PICK q \in Requesting : /\ q.at = v /\ q.slot = req[r].slot /\ q.cluster = req[r].cluster
                                /\ Moved(r, q)
    <3>1. v \in Everywhere
      BY DEF Everywhere, Calling, GetsRefcount, Drops
    <3> QED
      BY <2>5, <3>1, GoesMoves
  <2>7. q.at \in GetsRefcount /\ Call(GetRefcount(q.cluster)) /\ holder' = r
    BY <2>2, <2>6 DEF GetsRefcount, ThenCall, Free, Drops
  <2>8. RequestsOK
    BY <2>2, <2>5, <2>6, <2>7, CallsGetRefcount
  <2> QED
    BY <2>2, <2>3, <2>4, <2>6, <2>8
\* update_refcount(-1).
<1>DropOK.
       ASSUME Drop(r)
       PROVE  /\ RequestsOK /\ Leaves(r) /\ req[r].at \in Drops /\ req[r].cluster \in Clusters
              /\ \/ Quiet
                 \/ \E n \in Nat : Touch(req[r].cluster, n) /\ Val(req[r].cluster) = n + 1
  <2> USE <1>DropOK
  <2>1. PICK w \in Drops : At(r, w)
    BY DEF Drop, Drops
  <2>2. /\ holder = r /\ stack = <<>> /\ req[r].at = w /\ Returned(req[r])
        /\ (w # "drop" => req[r].slot \in Slots) /\ req[r].cluster \in Clusters
    BY <2>1, HolderAt DEF ReqOK, Slotted, Clustered, Drops, GetsRefcount
  <2>3. RequestsOK /\ Leaves(r)
    BY <2>2, FinishLeaves DEF Drop
  <2>4. PICK k \in Clusters : k = req[r].cluster
    BY <2>2
  <2>5. k \in Tabled /\ UNCHANGED <<disk, poss, depends>> /\ (w # "drop" => req[r].slot \in Tabled)
    BY <2>2 DEF Tabled, Drop, fileVars
  <2>6. CASE ret = "error"
    <3>1. UNCHANGED mem /\ entries' = IF w = "drop" THEN entries ELSE Put(entries, req[r].slot)
      BY <2>2, <2>6 DEF Drop
    <3>2. Quiet
      BY <2>5, <3>1, Quieter, PutQuiet
    <3> QED
      BY <2>2, <2>3, <3>2
  <2>7. CASE ret # "error"
    <3> DEFINE es == Put(Dirtied(k), k)
    <3>1. Cached(k)
      <4>1. req[r].at \in Calling /\ req[r].at # "close" /\ req[r].at \in GetsRefcount
        BY <2>2 DEF Calling, GetsRefcount, Drops
      <4>2. ret = "ok"
        BY <2>2, <2>7, <4>1, Succeeded
      <4> QED
        BY <2>2, <2>4, <4>1, <4>2 DEF Returned
    <3>2. Val(k) = mem[k] /\ mem[k] \in Nat /\ mem[k] \in Values(k)
      <4>1. k \notin Slots
        BY Qcow2Assumption
      <4> QED
        BY <2>5, <3>1, <4>1, ValTyped DEF Val, Values
    <3>3. Shaped(es) /\ DirtyOnly(k, es)
      BY <2>5, <3>1, DirtiedOne, PutDirty DEF CacheOK
    <3>4. entries' = es \/ (w # "drop" /\ entries' = Put(es, req[r].slot))
      BY <2>2, <2>4, <2>7 DEF Drop
    <3> HIDE DEF es
    <3>5. Shaped(entries') /\ DirtyOnly(k, entries')
      BY <2>5, <3>3, <3>4, PutDirty
    <3>6. CASE mem[k] = 0
      <4>1. mem' = [mem EXCEPT ![k] = mem[k]]
        <5>1. mem' = mem /\ k \in Locations /\ mem \in [Locations -> Contents]
          BY <2>4, <2>5, <3>6, Places DEF Drop, CacheOK, FileTyped
        <5> QED
          BY <5>1, SMT
      <4>2. Touch(k, mem[k])
        BY <2>5, <3>1, <3>2, <3>5, <4>1, Touches
      <4>3. Quiet
        BY <3>2, <4>2 DEF Touch, Quiet
      <4> QED
        BY <2>2, <2>3, <4>3
    <3>7. CASE mem[k] # 0
      <4>1. PICK n \in Nat : n = mem[k] - 1 /\ mem[k] = n + 1
        BY <3>2, <3>7, SMT
      <4>2. mem' = [mem EXCEPT ![k] = n]
        <5>1. mem' = [mem EXCEPT ![k] = mem[k] - 1]
          BY <2>4, <2>7, <3>7 DEF Drop
        <5> QED
          BY <4>1, <5>1
      <4>3. n \in Values(k)
        BY Qcow2Assumption DEF Values
      <4>4. Touch(k, n)
        BY <2>5, <3>1, <3>5, <4>2, <4>3, Touches
      <4>5. Val(k) = n + 1
        BY <3>2, <4>1
      <4> QED
        BY <2>2, <2>3, <2>4, <4>4, <4>5
    <3> QED
      BY <3>6, <3>7
  <2> QED
    BY <2>6, <2>7
<1>FreeCovered.
       ASSUME Covered, Quiet, bit' => bit, req[r].at \in Frees, depends[refcount] = l2, NEW q, Moved(r, q),
              q.at \in Drops, q.cluster = req[r].cluster
       PROVE  Covered'
  <2> USE <1>FreeCovered
  <2>1. depends[refcount] # Null /\ req[r].at \in Counted /\ q.at \notin Linking
    BY CachesDiffer, Qcow2Assumption DEF Counted, Linking, Drops
  <2> QED
    BY <2>1, QuietCovered
<1>DropCovered.
       ASSUME Covered, UNCHANGED bit, req[r].at \in Drops, NEW a \in Clusters, a = req[r].cluster,
              NEW m \in Nat, Touch(a, m), Val(a) = m + 1, Leaves(r)
       PROVE  Covered'
  <2> USE <1>DropCovered
  <2>1. /\ \A k : Sure(k)' = Sure(k) /\ Refs(k)' = Refs(k)
        /\ UNCHANGED <<poss, depends>>
        /\ \A k \in Clusters : Val(k)' = IF k = a THEN m ELSE Val(k)
    <3>1. UNCHANGED poss /\ \A s \in Slots : Val(s)' = Val(s)
      BY Counts DEF Touch
    <3>2. UNCHANGED depends /\ \A k \in Clusters : Val(k)' = IF k = a THEN m ELSE Val(k)
      BY Counts DEF Touch
    <3> QED
      BY <3>1, <3>2 DEF Sure, Refs
  <2>2. PICK q : Moved(r, q) /\ q.at \notin Counted
    BY DEF Leaves
  <2>3. /\ q.at \notin Linking /\ q.at \notin Unfreed
        /\ r \in Busy(Unfreed, a) /\ r \in Busy(Counted, a)
    BY <2>2 DEF Linking, Unfreed, Counted, Writes, Busy
  <2>4. \A k : \A P \in {Counted, Unfreed, Linking} : Busy(P, k)' \subseteq Busy(P, k) \ {r}
    <3> TAKE k
    <3>1. ASSUME NEW P, q.at \notin P PROVE Busy(P, k)' \subseteq Busy(P, k) \ {r}
      BY <2>2, <3>1, BusyMoved
    <3> QED
      BY <2>2, <2>3, <3>1
  <2>5. ASSUME NEW k \in Clusters, NEW R \in SUBSET Slots, NEW P \in {Counted, Unfreed}, Cover(Val(k), R, Busy(P, k), k)
        PROVE  Cover(Val(k)', R, Busy(P, k)', k)
    <3>1. /\ Val(k) \in Nat /\ Busy(P, k) \in SUBSET Reqs /\ R \subseteq R
          /\ Busy(P, k)' \subseteq Busy(P, k) \ {r} /\ Busy(P, k)' \in SUBSET Busy(P, k)
      BY <2>4, Counts, Subsets
    <3>2. CASE k = a
      <4>1. r \in Busy(P, k) /\ Busy(P, k)' \in SUBSET Reqs
        BY <2>3, <3>1, <3>2
      <4>2. Cover(m, R, Busy(P, k)', k)
        <5>1. Val(k) = m + 1
          BY <3>2
        <5> QED
          BY <2>5, <3>1, <4>1, <5>1, CoverDropped
      <4> QED
        BY <2>1, <3>2, <4>2
    <3>3. CASE k # a
      BY <2>1, <2>5, <3>1, <3>3, CoverLess
    <3> QED
      BY <3>2, <3>3
  <2>6. \A k \in Clusters : Cover(Val(k)', Sure(k)', Busy(Counted, k)', k)
    BY <2>1, <2>5, CoveredNow, Subsets
  <2>7. depends[refcount] = Null => \A k \in Clusters : Cover(Val(k)', Refs(k)', Busy(Unfreed, k)', k)
    BY <2>1, <2>5, CoveredNow, Subsets
  <2>8. \A k : Busy(Linking, k)' \subseteq Busy(Linking, k)
    BY <2>4
  <2>9. depends[l2] = Null /\ Unrepaired =>
          \A k \in Clusters : \A n \in poss[k] : Cover(n, Refs(k)', Busy(Linking, k)', k)
    BY <2>1, <2>8, CoveredNow, CoverLess, Subsets
  <2> QED
    BY <2>1, <2>6, <2>7, <2>9, TouchCovered
<1>DiscardCovered.
       ASSUME Covered, UNCHANGED bit, NEW s \in Slots, Touch(s, Null), NEW q, Moved(r, q), q.at = "freeHeld",
              q.cluster = Val(s)
       PROVE  Covered'
  <2> USE <1>DiscardCovered
  <2>1. /\ UNCHANGED <<poss, depends>>
        /\ \A x \in Slots : Val(x)' = IF x = s THEN Null ELSE Val(x)
        /\ \A k \in Clusters : Val(k)' = Val(k) /\ k # Null
    BY Counts, Qcow2Assumption DEF Touch
  <2>2. /\ \A k \in Clusters : Sure(k)' \subseteq Sure(k) \ {s} /\ Refs(k)' \subseteq Refs(k)
        /\ s \in Sure(Val(s))
    BY <2>1 DEF Sure, Refs
  <2>3. q.at \notin Linking /\ q.at \notin Unfreed
    BY DEF Unfreed, Linking, Writes, Drops
  <2>4. \A k : /\ Busy(Unfreed, k)' \subseteq Busy(Unfreed, k)
               /\ Busy(Linking, k)' \subseteq Busy(Linking, k)
               /\ Busy(Counted, k)' \subseteq Busy(Counted, k) \cup {r}
               /\ k # Val(s) => Busy(Counted, k)' \subseteq Busy(Counted, k)
    <3>1. ASSUME NEW k, NEW P, q.at \notin P PROVE Busy(P, k)' \subseteq Busy(P, k)
      BY <3>1, BusyMoved
    <3>2. \A k : /\ Busy(Counted, k)' \subseteq Busy(Counted, k) \cup {r}
                 /\ k # Val(s) => Busy(Counted, k)' \subseteq Busy(Counted, k)
      BY BusyMoved
    <3> QED
      BY <2>3, <3>1, <3>2
  <2>5. ASSUME NEW k \in Clusters PROVE Cover(Val(k)', Sure(k)', Busy(Counted, k)', k)
    <3>1. Cover(Val(k), Sure(k), Busy(Counted, k), k) /\ Val(k) \in Nat /\ Val(k)' = Val(k)
      BY <2>1, CoveredNow
    <3>2. /\ Sure(k) \in SUBSET Slots /\ Sure(k)' \in SUBSET Slots
          /\ Busy(Counted, k) \in SUBSET Reqs /\ Busy(Counted, k)' \in SUBSET Reqs
      BY <2>2, <2>4, Subsets
    <3>3. CASE k = Val(s)
      <4>1. Loses(Sure(k), Sure(k)', s) /\ Gains(Busy(Counted, k), Busy(Counted, k)', r)
        BY <2>2, <2>4, <3>3 DEF Gains, Loses
      <4>2. Cover(Val(k), Sure(k)', Busy(Counted, k)', k)
        BY <3>1, <3>2, <4>1, CoverUnlinked
      <4> QED
        BY <3>1, <4>2
    <3>4. CASE k # Val(s)
      <4>1. Sure(k)' \in SUBSET Sure(k) /\ Busy(Counted, k)' \in SUBSET Busy(Counted, k)
        BY <2>2, <2>4, <3>4
      <4> QED
        BY <3>1, <3>2, <4>1, CoverLess
    <3> QED
      BY <3>3, <3>4
  <2>6. ASSUME depends[refcount] = Null, NEW k \in Clusters
        PROVE  Cover(Val(k)', Refs(k)', Busy(Unfreed, k)', k)
    <3>1. Cover(Val(k), Refs(k), Busy(Unfreed, k), k) /\ Val(k) \in Nat /\ Val(k)' = Val(k)
      BY <2>1, <2>6, CoveredNow
    <3>2. Refs(k)' \in SUBSET Refs(k) /\ Busy(Unfreed, k)' \in SUBSET Busy(Unfreed, k)
      BY <2>2, <2>4
    <3> QED
      BY <3>1, <3>2, CoverLess, Subsets
  <2>7. depends[l2] = Null /\ Unrepaired =>
          \A k \in Clusters : \A n \in poss[k] : Cover(n, Refs(k)', Busy(Linking, k)', k)
    BY <2>2, <2>4, CoveredNow, CoverLess, Subsets
  <2> QED
    BY <2>1, <2>5, <2>6, <2>7, TouchCovered
<1>1. CASE Discard(r)
  <2>1. RequestsOK /\ UNCHANGED <<ignored, bit>>
    BY <1>1, <1>DiscardOK DEF Discard, flags
  <2>2. CASE Quiet /\ Leaves(r)
    <3>1. bit' => bit
      BY <2>1
    <3> QED
      BY <2>1, <2>2, <3>1, QuietDone
  <2>3. ASSUME NEW s \in Slots, Touch(s, Null), Unlinked(r, "freeHeld", Val(s)) PROVE RequestDone
    <3>1. PICK q : Moved(r, q) /\ q.at = "freeHeld" /\ q.cluster = Val(s)
      BY <2>3 DEF Unlinked
    <3>2. Covered => Covered'
      BY <2>1, <2>3, <3>1, <1>DiscardCovered
    <3> QED
      BY <2>1, <2>3, <3>2, TouchDone
  <2> QED
    BY <1>1, <2>2, <2>3, <1>DiscardOK
<1>2. CASE Free(r)
  <2>1. /\ RequestsOK /\ Quiet /\ req[r].at \in Frees /\ (~ignored' => ~ignored /\ depends[refcount] = l2)
        /\ UNCHANGED bit
    BY <1>2, <1>FreeOK DEF Free, Ignore
  <2>2. PICK q : Moved(r, q) /\ q.at \in Drops /\ q.cluster = req[r].cluster
    BY <1>2, <1>FreeOK
  <2>3. bit' => bit
    BY <2>1
  <2>4. ~ignored' => ~ignored /\ (Covered => Covered')
    BY <2>1, <2>2, <2>3, <1>FreeCovered
  <2> QED
    BY <2>1, <2>4 DEF RequestDone, Quiet
<1>3. CASE Drop(r)
  <2>1. RequestsOK /\ Leaves(r) /\ req[r].at \in Drops /\ req[r].cluster \in Clusters /\ UNCHANGED <<ignored, bit>>
    BY <1>3, <1>DropOK DEF Drop, flags
  <2>2. CASE Quiet
    <3>1. bit' => bit
      BY <2>1
    <3> QED
      BY <2>1, <2>2, <3>1, QuietDone
  <2>3. ASSUME NEW n \in Nat, Touch(req[r].cluster, n), Val(req[r].cluster) = n + 1 PROVE RequestDone
    <3>1. Covered => Covered'
      BY <2>1, <2>3, <1>DropCovered
    <3> QED
      BY <2>1, <2>3, <3>1, TouchDone
  <2> QED
    BY <1>3, <2>2, <2>3, <1>DropOK
<1> QED
  BY <1>1, <1>2, <1>3

LEMMA AgainDone == ASSUME Counting, CacheOK, Again PROVE RequestDone
<1>1. CacheOK' /\ RequestsOK /\ UNCHANGED ignored
  BY DEF Again, AsOnDisk
<1>2. Covered => Covered'
  BY AgainCovered
<1>3. \A s \in Slots : poss'[s] \subseteq poss[s]
  <2>1. CASE Repaired
    <3>1. PICK im : /\ \A s \in Slots : im[s] \in Values(s) /\ im[s] \in poss[s]
                    /\ disk' = Consistent(im) /\ \A x \in Locations : poss'[x] = {disk'[x]}
      BY <2>1 DEF Repaired
    <3>2. \A s \in Slots : disk'[s] = im[s]
      BY <3>1, ConsistentImage
    <3> QED
      BY <3>1, <3>2, Counts
  <2>2. CASE Recovered
    BY <2>2, Counts DEF Recovered
  <2> QED
    BY <2>1, <2>2 DEF Again
<1> QED
  BY <1>1, <1>2, <1>3 DEF RequestDone

LEMMA RequestStepDone ==
  ASSUME Counting, CacheOK, Stacked, Requests, LockHeld, NEW r \in Reqs, RequestStep(r)
  PROVE  RequestDone
<1>FlushesOK. ASSUME FlushOrClose(r) PROVE RequestsOK /\ Quiet /\ Leaves(r) /\ (bit' => bit)
  <2> USE <1>FlushesOK
  <2>1. Quiet /\ (bit' => bit) /\ UNCHANGED cacheVars
    <3>1. UNCHANGED <<cacheVars, fileVars>>
      BY DEF FlushOrClose, FlushBegin, FlushRefcounts, FlushReturns, CloseBegin, CloseRefcounts,
                   CloseMarkClean, CloseCleanRefcounts
    <3>2. UNCHANGED flags \/ bit' = FALSE
      BY DEF FlushOrClose, FlushBegin, FlushRefcounts, FlushReturns, CloseBegin, CloseRefcounts,
                   CloseMarkClean, CloseCleanRefcounts
    <3>3. bit' => bit
      BY <3>2 DEF flags
    <3> QED
      BY <3>1, <3>3, Quieter DEF cacheVars, fileVars
  <2>2. CASE FlushBegin(r) \/ CloseBegin(r)
    <3>1. PICK w \in {"flushL2", "closeL2"} : Goes(r, w) /\ LockAndCall(r, FlushFrame(l2))
      BY <2>2 DEF FlushBegin, CloseBegin
    <3>2. /\ w \in FlushesL2 /\ w \notin {"flushed", "clean"} /\ w \notin {"cleanL2", "clean"}
          /\ holder = Null /\ holder' = r /\ stack = <<>> /\ Call(FlushFrame(l2))
      BY <3>1 DEF FlushesL2, LockAndCall, LockHeld
    <3> QED
      BY <2>1, <3>1, <3>2, Flushing
  <2>3. CASE FlushReturns(r)
    BY <2>1, <2>3, HolderAt, FinishLeaves DEF FlushReturns
  <2>4. CASE FlushRefcounts(r)
    <3>1. holder = r /\ stack = <<>> /\ req[r].at = "flushL2" /\ Returned(req[r])
      BY <2>4, HolderAt DEF FlushRefcounts
    <3>2. CASE Finish(r)
      BY <2>1, <3>1, <3>2, FinishLeaves
    <3>3. CASE ret # "error" /\ Goes(r, "flushed") /\ ThenCall(FlushFrame(refcount))
      <4>1. req[r].at \in Calling /\ req[r].at # "close" /\ req[r].at \in FlushesL2
        BY <3>1 DEF Calling, FlushesL2
      <4>2. ret = "ok"
        BY <3>1, <3>3, <4>1, Succeeded
      <4>3. Clean(l2)
        BY <3>1, <4>1, <4>2 DEF Returned
      <4>4. "flushed" \in FlushesRefcount /\ "flushed" \notin {"cleanL2", "clean"}
        BY DEF FlushesRefcount
      <4>5. Call(FlushFrame(refcount)) /\ holder' = r
        BY <3>1, <3>3 DEF ThenCall
      <4> QED
        BY <2>1, <3>1, <3>3, <4>3, <4>4, <4>5, Flushing
    <3> QED
      BY <2>4, <3>2, <3>3 DEF FlushRefcounts
  <2>5. CASE CloseRefcounts(r)
    <3>1. holder = r /\ stack = <<>> /\ Goes(r, "close") /\ Call(FlushFrame(refcount)) /\ holder' = r
      BY <2>5, HolderAt DEF CloseRefcounts, ThenCall
    <3>2. "close" \in FlushesRefcount /\ "close" \notin {"flushed", "clean"} /\ "close" \notin {"cleanL2", "clean"}
      BY DEF FlushesRefcount
    <3> QED
      BY <2>1, <3>1, <3>2, Flushing
  <2>6. CASE CloseMarkClean(r)
    <3>1. /\ holder = r /\ stack = <<>> /\ Goes(r, "cleanL2") /\ Call(FlushFrame(l2)) /\ holder' = r
          /\ bit' = FALSE
      BY <2>6, HolderAt DEF CloseMarkClean, ThenCall
    <3>2. "cleanL2" \in FlushesL2 /\ "cleanL2" \notin {"flushed", "clean"}
      BY DEF FlushesL2
    <3> QED
      BY <2>1, <3>1, <3>2, Flushing
  <2>7. CASE CloseCleanRefcounts(r)
    <3>1. /\ holder = r /\ stack = <<>> /\ Goes(r, "clean") /\ Call(FlushFrame(refcount)) /\ holder' = r
          /\ ret = "ok" /\ Returned(req[r]) /\ req[r].at = "cleanL2" /\ ReqOK(r) /\ bit' = bit
      BY <2>7, HolderAt DEF CloseCleanRefcounts, ThenCall, flags
    <3>2. "clean" \in FlushesRefcount /\ Clean(l2) /\ ~bit'
      BY <3>1 DEF FlushesRefcount, FlushesL2, Returned, ReqOK
    <3> QED
      BY <2>1, <3>1, <3>2, Flushing
  <2> QED
    BY <2>2, <2>3, <2>4, <2>5, <2>6, <2>7 DEF FlushOrClose
\* The header says that the image is clean.
<1>UpdateHeaderOK.
       ASSUME CloseUpdateHeader(r)
       PROVE  /\ RequestsOK /\ CacheOK' /\ Leaves(r) /\ ~bit /\ UNCHANGED <<bit, depends>>
              /\ Clean(l2) /\ Clean(refcount) /\ Permanent
              /\ \A x \in Tabled : Val(x)' = Val(x) /\ poss'[x] = poss[x]
  <2> USE <1>UpdateHeaderOK
  <2>1. /\ holder = r /\ stack = <<>> /\ ret = "ok" /\ ReqOK(r) /\ Returned(req[r]) /\ req[r].at = "clean"
    BY HolderAt DEF CloseUpdateHeader
  <2>2. ~bit /\ Clean(l2) /\ Clean(refcount) /\ Permanent
    BY <2>1 DEF ReqOK, Returned, FlushesRefcount
  <2>3. /\ disk' = disk \/ disk' = [disk EXCEPT ![header] = FALSE]
        /\ poss' = [poss EXCEPT ![header] = @ \cup {FALSE}]
        /\ UNCHANGED <<entries, mem, depends, bit>>
    BY DEF CloseUpdateHeader, cacheVars, flags
  <2>4. CacheOK' /\ \A x \in Tabled : Val(x)' = Val(x) /\ poss'[x] = poss[x]
    BY <2>3, HeaderWritten
  <2>5. Goes(r, "close") /\ holder' = r /\ Continue
    BY <2>1 DEF CloseUpdateHeader, GoOn
  <2>6. PICK q \in Requesting : q.at = "close" /\ Moved(r, q)
    BY <2>5, GoesMoves DEF Everywhere, Calling, FlushesRefcount
  <2>7. RequestsOK
    BY <2>1, <2>5, <2>6, GoesOn DEF Between
  <2>8. Leaves(r)
    BY <2>6 DEF Leaves, Counted, Writes, Drops, Frees
  <2> QED
    BY <2>2, <2>3, <2>4, <2>7, <2>8
\* The header says that the image is clean: everything has been flushed.
<1>HeaderCovered.
       ASSUME CacheOK', Covered, Leaves(r), ~bit', Clean(l2), Clean(refcount), Permanent,
              \A x \in Tabled : Val(x)' = Val(x) /\ poss'[x] = poss[x]
       PROVE  Covered'
  <2> USE <1>HeaderCovered
  <2>1. Durable'
    <3>1. \A x \in Tabled : poss[x] = {disk[x]} /\ CacheOf(x) \in {l2, refcount}
      BY Places DEF Permanent, Caches
    <3>2. \A x \in Tabled : Val(x) = disk[x]
      BY <3>1, CachesDiffer, CleanIsSettled
    <3>3. \A x \in Tabled : poss'[x] = {Val(x)'}
      BY <3>1, <3>2
    <3> QED
      BY <3>3 DEF Durable
  <2>2. Marked'
    BY DEF Marked
  <2>3. CoverNow'
    <3>1. \A k : Busy(Counted, k)' \subseteq Busy(Counted, k)
      BY BusyKept DEF Leaves
    <3>2. \A k : Sure(k)' = Sure(k)
      BY Counts DEF Sure
    <3>3. ASSUME NEW k \in Clusters PROVE Cover(Val(k)', Sure(k)', Busy(Counted, k)', k)
      <4>1. Cover(Val(k), Sure(k), Busy(Counted, k), k) /\ Val(k) \in Nat /\ Val(k)' = Val(k)
        BY CoveredNow, Counts
      <4>2. Sure(k)' \in SUBSET Sure(k) /\ Busy(Counted, k)' \in SUBSET Busy(Counted, k)
        BY <3>1, <3>2
      <4> QED
        BY <4>1, <4>2, Subsets, CoverLess
    <3> QED
      BY <3>3 DEF CoverNow
  <2> QED
    BY <2>1, <2>2, <2>3, DurableNext
<1>1. CASE FlushOrClose(r)
  <2>1. UNCHANGED ignored
    BY <1>1 DEF FlushOrClose, FlushBegin, FlushRefcounts, FlushReturns, CloseBegin, CloseRefcounts,
                       CloseMarkClean, CloseCleanRefcounts, flags
  <2> QED
    BY <1>1, <2>1, <1>FlushesOK, QuietDone
<1>2. CASE CloseUpdateHeader(r)
  <2>1. /\ RequestsOK /\ CacheOK' /\ Leaves(r) /\ ~bit' /\ Clean(l2) /\ Clean(refcount) /\ Permanent
        /\ \A x \in Tabled : Val(x)' = Val(x) /\ poss'[x] = poss[x]
    <3>1. ~bit /\ bit' = bit
      BY <1>2, <1>UpdateHeaderOK
    <3> QED
      BY <1>2, <1>UpdateHeaderOK, <3>1
  <2>2. Covered => Covered'
    BY <2>1, <1>HeaderCovered
  <2>3. UNCHANGED ignored /\ \A s \in Slots : poss'[s] \subseteq poss[s]
    BY <1>2, <2>1, Counts DEF CloseUpdateHeader, flags
  <2> QED
    BY <2>1, <2>2, <2>3 DEF RequestDone
<1>3. CASE CloseEnd(r)
  BY <1>3, CloseEndOK, AgainDone
<1> QED
  BY <1>1, <1>2, <1>3, WriteDone, LinkDone, FreeDone DEF RequestStep, FlushOrClose

\* The inductive invariant.
MetadataInv ==
  /\ \E T : CallsInv(T)
  /\ CacheOK /\ Stacked /\ Requests /\ Copied
  /\ ~ignored => Covered

\* No L2 entry is written that points to a cluster whose copied sectors may be lost.
NoneLinked == \A s \in Slots : (poss'[s] \ poss[s]) \cap uncopied = {}

LEMMA InitMetadata == Counting /\ Init => MetadataInv
<1> SUFFICES ASSUME Counting, Init PROVE MetadataInv
  OBVIOUS
<1>1. \E T : CallsInv(T)
  BY InitInv
<1>2. CacheOK /\ Stacked /\ Requests /\ uncopied = {}
  BY InitOK DEF AsOnDisk
<1>3. Fresh
  <2>1. \E im : (\A s \in Slots : im[s] \in Values(s)) /\ disk = Consistent(im)
    BY InitOK
  <2>2. ~bit
    BY InitOK
  <2> QED
    BY <2>1, <2>2, InitOK DEF Fresh
<1>4. Covered
  BY <1>3, FreshCovered
<1> QED
  BY <1>1, <1>2, <1>4 DEF MetadataInv, Copied

LEMMA CacheStepMetadata ==
  ASSUME Counting, MetadataInv, CacheStep, UNCHANGED reqVars
  PROVE  MetadataInv' /\ NoneLinked
<1>1. PICK T : CallsInv(T)
  BY DEF MetadataInv
<1>2. CacheOK /\ Stacked /\ Requests /\ Copied /\ (~ignored => Covered) /\ UNCHANGED <<ignored, holder>>
  BY DEF MetadataInv, reqVars, flags
<1>3. StepOK /\ Requests' /\ CopiedStep
  BY <1>1, <1>2, CacheStepOK, CacheStepRequests, CacheStepDepends
<1>4. ~ignored' => Covered'
  BY <1>1, <1>2, CacheStepCovered
<1>5. \E U : CallsInv(U)'
  BY <1>1, <1>2, CacheStepInv
<1>6. Copied'
  BY <1>2, <1>3 DEF Copied, CopiedStep
<1>7. NoneLinked
  <2>1. CASE UNCHANGED <<disk, poss>>
    BY <2>1 DEF NoneLinked
  <2>2. CASE \A x \in Locations : poss'[x] = {disk[x]}
    BY <1>2, <2>2, Counts DEF NoneLinked
  <2>3. ASSUME NEW c \in Caches, c \notin onFlush, Grows(c) PROVE NoneLinked
    <3>1. CASE c = l2
      BY <1>2, <2>3, <3>1 DEF Copied, NoneLinked
    <3>2. CASE c = refcount
      <4>1. \A s \in Slots : poss'[s] = poss[s]
        <5>1. \A s \in Slots : s \in Tabled /\ CacheOf(s) # c
          BY <1>2, <3>2, Counts, CachesDiffer
        <5> QED
          BY <2>3, <5>1 DEF Grows
      <4> QED
        BY <4>1 DEF NoneLinked
    <3> QED
      BY <3>1, <3>2 DEF Caches
  <2> QED
    BY <1>3, <2>1, <2>2, <2>3 DEF StepOK, FileStep
<1> QED
  BY <1>3, <1>4, <1>5, <1>6, <1>7 DEF MetadataInv, StepOK

\* Steps of requests, and crashes.
LEMMA DoneMetadata ==
  ASSUME Counting, MetadataInv, RequestDone, CopiedStep, NEW U, CallsInv(U)'
  PROVE  MetadataInv' /\ NoneLinked
<1>1. CacheOK' /\ Stacked' /\ Requests' /\ (~ignored' => Covered')
  BY DEF RequestDone, RequestsOK, MetadataInv
<1>2. Copied'
  BY DEF MetadataInv, Copied, CopiedStep
<1>3. NoneLinked
  BY DEF RequestDone, NoneLinked
<1> QED
  BY <1>1, <1>2, <1>3 DEF MetadataInv

LEMMA SameMetadata == ASSUME MetadataInv, UNCHANGED vars PROVE MetadataInv' /\ NoneLinked
<1>1. /\ UNCHANGED <<entries, depends, onFlush, mem, disk, poss, uncopied, stack, ret>>
      /\ UNCHANGED <<holder, req, bit, ignored>>
  BY DEF vars, cacheVars, fileVars, callVars, reqVars, flags
<1>2. CacheOK'
  BY <1>1, QuietStep DEF MetadataInv
<1>3. Stacked'
  BY <1>1 DEF MetadataInv, Stacked, FrameOK, TopOK, Settled, Val, Cached, Holding
<1>4. Requests'
  BY <1>1 DEF MetadataInv, Requests, ReqOK, Returned, Clean, Permanent, Cached
<1>5. Copied' /\ NoneLinked
  BY <1>1 DEF MetadataInv, Copied, NoneLinked
<1>6. ~ignored' => Covered'
  BY <1>1 DEF MetadataInv, Covered, Marked, CoverNow, RefcountsMayGo, L2MayGo, CoverOnDisk, Unrepaired,
                     Sure, Refs, Held, Busy, Val, Cached
<1>7. \E U : CallsInv(U)'
  <2>1. PICK T : CallsInv(T)
    BY DEF MetadataInv
  <2>2. CallsInv(T)'
    BY <1>1, <2>1, ZenonT(60) DEF CallsInv, OneDeep, StackShape, LockHeld, Calls
  <2> QED
    BY <2>2
<1> QED
  BY <1>2, <1>3, <1>4, <1>5, <1>6, <1>7 DEF MetadataInv

LEMMA NextMetadata ==
  ASSUME Counting, MetadataInv, [Next]_vars
  PROVE  MetadataInv' /\ NoneLinked
<1>1. PICK T : CallsInv(T)
  BY DEF MetadataInv
<1>2. CacheOK /\ Stacked /\ Requests /\ LockHeld
  BY <1>1 DEF MetadataInv, CallsInv
<1>3. CASE CacheStep /\ UNCHANGED reqVars
  BY <1>3, CacheStepMetadata
<1>4. ASSUME NEW r \in Reqs, RequestStep(r) PROVE MetadataInv' /\ NoneLinked
  <2>1. RequestDone /\ CopiedStep
    BY <1>2, <1>4, RequestStepDone, RequestStepCopied
  <2>2. \E U : CallsInv(U)'
    BY <1>1, <1>4, RequestInv
  <2> QED
    BY <2>1, <2>2, DoneMetadata
<1>5. CASE Crash
  <2>1. Again
    BY <1>2, <1>5, CrashOK
  <2>2. RequestDone /\ CopiedStep
    BY <1>2, <2>1, AgainDone DEF Again, CopiedStep
  <2>3. \E U : CallsInv(U)'
    BY <1>5, ReopenInv DEF Crash
  <2> QED
    BY <2>2, <2>3, DoneMetadata
<1>6. CASE UNCHANGED vars
  BY <1>6, SameMetadata
<1> QED
  BY <1>3, <1>4, <1>5, <1>6 DEF Next

\* The dirty bit of an open image that is marked dirty stays in the image file, also
\* when a failure of qcow2_cache_set_dependency has been ignored.
LEMMA CacheStepMarked ==
  ASSUME MetadataInv, Marked, CacheStep, UNCHANGED reqVars
  PROVE  Marked'
<1>1. PICK T : CallsInv(T)
  BY DEF MetadataInv
<1>2. FileStep /\ FileTyped /\ UNCHANGED bit
  BY <1>1, CacheStepOK DEF MetadataInv, StepOK, CacheOK, reqVars, flags
<1>3. CASE UNCHANGED poss
  BY <1>2, <1>3 DEF Marked
<1>4. CASE \A x \in Locations : poss'[x] = {disk[x]}
  BY <1>2, <1>4, Places DEF Marked, FileTyped
<1>5. CASE \E c \in Caches : Grows(c)
  BY <1>2, <1>5 DEF Marked, Grows
<1> QED
  BY <1>2, <1>3, <1>4, <1>5 DEF FileStep

LEMMA RequestMarked ==
  ASSUME MetadataInv, Marked, NEW r \in Reqs, RequestStep(r)
  PROVE  Marked'
<1>1. CASE UNCHANGED <<poss, bit>>
  BY <1>1 DEF Marked
<1>2. CASE \E s \in Slots : WriteBegin(r, s) \/ DiscardBegin(r, s)
  BY <1>1, <1>2 DEF WriteBegin, DiscardBegin, fileVars, flags
<1>3. CASE WriteLookup(r) \/ WritePick(r) \/ WriteAllocate(r) \/ WriteUpdate(r)
  BY <1>1, <1>3 DEF WriteLookup, WritePick, WriteAllocate, WriteUpdate, fileVars, flags
<1>4. CASE WriteData(r) \/ WriteCow(r)
  BY <1>1, <1>4 DEF WriteData, WriteCow, flags
<1>5. CASE WriteMark(r)
  <2>1. CASE lazy /\ ~bit /\ MarkDirty /\ bit' = TRUE
    <3>1. disk'[header] = TRUE /\ poss'[header] = {disk'[header]}
      BY <2>1, Places DEF MarkDirty, MetadataInv, CacheOK, FileTyped
    <3> QED
      BY <3>1 DEF Marked
  <2>2. CASE bit' = FALSE
    BY <2>2 DEF Marked
  <2>3. CASE UNCHANGED <<fileVars, bit>>
    BY <1>1, <2>3 DEF fileVars
  <2> QED
    BY <1>5, <2>1, <2>2, <2>3 DEF WriteMark
<1>6. CASE WriteLink(r) \/ Free(r)
  BY <1>1, <1>6 DEF WriteLink, Free, Ignore, fileVars
<1>7. CASE Discard(r) \/ Drop(r)
  BY <1>1, <1>7 DEF Discard, Drop, fileVars, flags
<1>8. CASE FlushBegin(r) \/ FlushRefcounts(r) \/ FlushReturns(r)
  BY <1>1, <1>8 DEF FlushBegin, FlushRefcounts, FlushReturns, fileVars, flags
<1>9. CASE CloseBegin(r) \/ CloseRefcounts(r) \/ CloseCleanRefcounts(r)
  BY <1>1, <1>9 DEF CloseBegin, CloseRefcounts, CloseCleanRefcounts, fileVars, flags
<1>10. CASE CloseMarkClean(r)
  BY <1>10 DEF CloseMarkClean, Marked
<1>11. CASE CloseUpdateHeader(r)
  <2>1. ReqOK(r) /\ req[r].at = "clean" /\ UNCHANGED bit
    BY <1>11 DEF MetadataInv, Requests, CloseUpdateHeader, At, flags
  <2> QED
    BY <2>1 DEF ReqOK, Marked
<1>12. CASE CloseEnd(r)
  <2>1. ReqOK(r) /\ UNCHANGED bit
    BY <1>12 DEF MetadataInv, Requests, CloseEnd, flags
  <2>2. ~bit
    BY <1>12, <2>1 DEF CloseEnd, ReqOK, At
  <2> QED
    BY <2>1, <2>2 DEF Marked
<1> QED
  BY <1>2, <1>3, <1>4, <1>5, <1>6, <1>7, <1>8, <1>9, <1>10, <1>11, <1>12 DEF RequestStep

LEMMA NextMarked ==
  ASSUME MetadataInv, Marked, [Next]_vars
  PROVE  Marked'
<1>1. CASE Crash
  BY <1>1 DEF Crash, Marked
<1>2. CASE UNCHANGED vars
  BY <1>2 DEF vars, reqVars, flags, fileVars, Marked
<1> QED
  BY <1>1, <1>2, CacheStepMarked, RequestMarked DEF Next

-----------------------------------------------------------------------------
(* What the invariant says.                                                *)

\* The image file has for good what is in a cache that has been flushed.
LEMMA CleanOnDisk ==
  ASSUME CacheOK, NEW c \in Caches, Clean(c), Permanent
  PROVE  OnDisk(c)
<1> SUFFICES ASSUME NEW i \in 1 .. Size[c], NEW x \in InTable(entries[c][i].offset)
             PROVE  poss[x] = {mem[x]}
  BY DEF OnDisk
<1>1. ~entries[c][i].dirty
  BY DEF Clean
<1>2. mem[x] = disk[x]
  BY <1>1 DEF CacheOK, Coherent
<1>3. x \in Locations
  BY Places DEF InTable
<1> QED
  BY <1>2, <1>3 DEF Permanent

LEMMA MetadataFlushed == MetadataInv /\ Marked => FlushedIsDurable
<1> SUFFICES ASSUME MetadataInv, Marked, NEW r \in Reqs, ret = "ok"
             PROVE  /\ At(r, "flushed") => OnDisk(l2) /\ OnDisk(refcount)
                    /\ At(r, "flushL2") /\ bit => OnDisk(l2) /\ FALSE \notin poss[header]
  BY DEF FlushedIsDurable
<1>1. CacheOK /\ Requests
  BY DEF MetadataInv
<1>2. ASSUME At(r, "flushed") PROVE OnDisk(l2) /\ OnDisk(refcount)
  <2>1. ReqOK(r) /\ Returned(req[r]) /\ req[r].at = "flushed"
    BY <1>1, <1>2, HolderAt
  <2>2. Clean(l2) /\ Clean(refcount) /\ Permanent
    BY <2>1 DEF ReqOK, Returned, FlushesRefcount
  <2> QED
    BY <1>1, <2>2, CleanOnDisk DEF Caches
<1>3. ASSUME At(r, "flushL2") PROVE OnDisk(l2)
  <2>1. Returned(req[r]) /\ req[r].at = "flushL2"
    BY <1>1, <1>3, HolderAt
  <2>2. Clean(l2) /\ Permanent
    BY <2>1 DEF Returned, FlushesL2
  <2> QED
    BY <1>1, <2>2, CleanOnDisk DEF Caches
<1> QED
  BY <1>2, <1>3 DEF Marked

LEMMA MetadataCovers == Counting /\ MetadataInv => (~ignored => RefcountsCover)
<1> SUFFICES ASSUME Counting, MetadataInv, ~ignored, FALSE \in poss[header],
                    NEW k \in Clusters, NEW n \in poss[k]
             PROVE  n >= Cardinality(Held(k)) + Shared(k)
  BY DEF RefcountsCover, Held
<1>1. Cover(n, Held(k), {}, k)
  BY DEF MetadataInv, Covered, CoverOnDisk, Unrepaired
<1>2. n >= Cardinality(Held(k)) + Shared(k) + 0
  BY <1>1 DEF Cover, Counting
<1>3. Cardinality(Held(k)) \in Nat
  BY FinitelyMany, Subsets, Sizes
<1>4. Shared(k) \in Nat
  BY SMT DEF Shared
<1> QED
  BY <1>2, <1>3, <1>4, SMT

-----------------------------------------------------------------------------
(* The theorems.                                                           *)

FST == INSTANCE FiniteSetTheorems

LEMMA SameFinite == \A S : FST!IsFiniteSet(S) <=> IsFiniteSet(S)
  BY DEF FST!IsFiniteSet, IsFiniteSet

LEMMA SameCardinality == \A S : FST!Cardinality(S) = Cardinality(S)
  BY DEF FST!Cardinality, Cardinality

LEMMA CountingHolds == Counting
<1>1. /\ Cardinality({}) = 0
      /\ \A S : IsFiniteSet(S) => Cardinality(S) \in Nat /\ (Cardinality(S) = 0 => S = {})
  BY FST!FS_CardinalityType, FST!FS_EmptySet, SameFinite, SameCardinality
<1>2. \A S : \A T \in SUBSET S : IsFiniteSet(S) => IsFiniteSet(T) /\ Cardinality(T) <= Cardinality(S)
  BY FST!FS_Subset, SameFinite, SameCardinality
<1>3. \A S, x : IsFiniteSet(S) /\ x \in S => Cardinality(S \ {x}) = Cardinality(S) - 1
  BY FST!FS_RemoveElement, SameFinite, SameCardinality
<1> QED
  BY <1>1, <1>2, <1>3 DEF Counting

LEMMA MetadataHolds == Spec => [](MetadataInv /\ Marked)
<1>1. Init => MetadataInv /\ Marked
  <2>1. Init => MetadataInv
    BY CountingHolds, InitMetadata
  <2>2. Init => Marked
    BY CountingHolds, InitOK DEF Marked
  <2> QED
    BY <2>1, <2>2
<1>2. MetadataInv /\ Marked /\ [Next]_vars => MetadataInv' /\ Marked'
  BY CountingHolds, NextMetadata, NextMarked
<1> QED
  BY <1>1, <1>2, PTL DEF Spec

\* When qcow2_co_flush_to_os returns 0 a crash loses nothing that is in the caches, or
\* nothing of the L2 tables and the image stays marked dirty, whatever requests,
\* evictions, failing calls and crashes there were before, for any sizes of the caches.
THEOREM FlushReturnsDurable == Spec => []FlushedIsDurable
  BY MetadataHolds, MetadataFlushed, PTL

\* The refcounts that a crash may leave in an image that it does not leave marked dirty
\* are at least the references it may leave, in any image and with any number of writes
\* and discards, provided that no failure of qcow2_cache_set_dependency has been ignored
\* (the callers of it in qcow2-cluster.c and qcow2-refcount.c do not look at its result).
THEOREM CrashLeavesCovered == Spec => [](~ignored => RefcountsCover)
<1>1. MetadataInv => (~ignored => RefcountsCover)
  BY CountingHolds, MetadataCovers
<1> QED
  BY <1>1, MetadataHolds, PTL

\* An L2 entry is written to the image file only when the sectors that perform_cow copied
\* into its cluster have been flushed (qcow2_cache_depends_on_flush).
THEOREM LinksAfterCopies == Spec => CopiedBeforeLinked
<1>1. MetadataInv /\ [Next]_vars => [\A s \in Slots : (poss'[s] \ poss[s]) \cap uncopied = {}]_vars
  BY CountingHolds, NextMetadata DEF NoneLinked
<1> QED
  BY <1>1, MetadataHolds, PTL DEF Spec, CopiedBeforeLinked

=============================================================================
