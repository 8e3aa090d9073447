----------------------------- MODULE Qcow2Cache -----------------------------
(***************************************************************************)
(* The write-back caches of the L2 tables and the refcount blocks of a     *)
(* qcow2 image (qcow2-cache.c), over an image file whose operations may    *)
(* fail and whose host may crash.  Qcow2.tla has the requests that use the *)
(* caches, with s->lock held, so one stack of calls serves them all.       *)
(*                                                                         *)
(* Each call to the image file is a step.  A location is a guest cluster   *)
(* (its L2 entry), a host cluster (its refcount) or the dirty bit of the   *)
(* header.  A written location that has not been flushed holds any of its  *)
(* recent values after a crash, each location independently, as a table is *)
(* larger than what a disk writes atomically.                              *)
(***************************************************************************)
EXTENDS Integers, Sequences, FiniteSets

CONSTANTS
  Slots,             \* guest clusters
  Clusters,          \* host clusters
  HomeOf,            \* the L2 table or refcount block that holds a location
  Size,              \* Size[c] is the number of entries of cache c
  Snapshot,          \* clusters that a snapshot also references: not QCOW_OFLAG_COPIED
  InitialL2,         \* the L2 entries of the image at first
  MaxErrors,         \* bound: calls to the image file that fail
  l2, refcount,      \* s->l2_table_cache, s->refcount_block_cache
  header,            \* the location of QCOW2_INCOMPAT_DIRTY in the image's header
  Null

Caches == {l2, refcount}
Tabled == Slots \cup Clusters
Locations == Tabled \cup {header}
CacheOf(x) == IF x \in Slots THEN l2 ELSE refcount
Tables(c) == {HomeOf[x] : x \in {y \in Tabled : CacheOf(y) = c}}
InTable(t) == {x \in Tabled : HomeOf[x] = t}
Shared(k) == IF k \in Snapshot THEN 1 ELSE 0

ASSUME Qcow2Assumption ==
  /\ l2 # refcount /\ Null \notin Locations \cup Caches \cup {"ok", "error"}
  /\ IsFiniteSet(Slots)
  /\ Slots \cap Clusters = {} /\ header \notin Tabled
  /\ HomeOf \in [Tabled -> Tables(l2) \cup Tables(refcount)]
  /\ Null \notin Tables(l2) \cup Tables(refcount)
  /\ Tables(l2) \cap Tables(refcount) = {}
  /\ Size \in [Caches -> Nat \ {0}]
  /\ InitialL2 \in [Slots -> Clusters \cup {Null}]
  /\ MaxErrors \in Nat

VARIABLES
  entries,      \* entries[c][i]: offset (the table it holds), dirty, ref
  depends,      \* c->depends
  onFlush,      \* the caches with c->depends_on_flush
  mem,          \* the values of the locations whose tables are cached
  disk,         \* what reading the image file gives
  poss,         \* what a location may hold after a crash
  uncopied,     \* clusters whose copied sectors a crash may lose
  stack,        \* the calls into qcow2-cache.c, the innermost first
  ret,          \* what the last call returned: "ok" or "error"; Null before it does
  errors        \* how many calls to the image file have failed

cacheVars == <<entries, depends, onFlush, mem>>
fileVars == <<disk, poss, uncopied, errors>>
callVars == <<stack, ret>>

NoEntry == [offset |-> Null, dirty |-> FALSE, ref |-> 0]

Empty == [c \in Caches |-> [i \in 1..Size[c] |-> NoEntry]]

\* The image with the refcounts that its references call for: what qcow2_check
\* writes with BDRV_FIX_ERRORS.
Consistent(image) ==
  [x \in Locations |->
     IF x \in Slots THEN image[x]
     ELSE IF x \in Clusters THEN Cardinality({s \in Slots : image[s] = x}) + Shared(x)
     ELSE FALSE]

InitialImage == Consistent(InitialL2)

NotCached == [x \in Locations |-> Null]

NoDependencies == [c \in Caches |-> Null]

\* The image has been opened: qcow2_cache_create.
CacheInit ==
  /\ disk = InitialImage /\ mem = NotCached
  /\ poss = [x \in Locations |-> {InitialImage[x]}]
  /\ entries = Empty /\ depends = NoDependencies /\ onFlush = {}
  /\ uncopied = {}
  /\ stack = <<>> /\ ret = Null
  /\ errors = 0

-----------------------------------------------------------------------------
(* The image file.                                                         *)

\* A call to the image file fails.
Fails == errors < MaxErrors /\ errors' = errors + 1

\* bdrv_flush makes everything written so far permanent.
FlushFile ==
  /\ poss' = [x \in Locations |-> {disk[x]}]
  /\ uncopied' = {}
  /\ UNCHANGED <<disk, errors>>

\* bdrv_pwrite writes a table. If it fails some of it may have been written.
WriteTable(t) ==
  /\ disk' = [x \in Locations |-> IF x \in InTable(t) THEN mem[x] ELSE disk[x]]
  /\ poss' = [x \in Locations |-> IF x \in InTable(t) THEN poss[x] \cup {mem[x]} ELSE poss[x]]
  /\ UNCHANGED <<uncopied, errors>>

WriteFails(t) ==
  /\ Fails
  /\ \E part \in SUBSET InTable(t) :
       disk' = [x \in Locations |-> IF x \in part THEN mem[x] ELSE disk[x]]
  /\ poss' = [x \in Locations |-> IF x \in InTable(t) THEN poss[x] \cup {mem[x]} ELSE poss[x]]
  /\ UNCHANGED uncopied

\* What a crash may leave: every location has one of its possible values.
Survivors(S) == {f \in [S -> UNION {poss[x] : x \in S}] : \A x \in S : f[x] \in poss[x]}

Surviving(links, counts, mark) ==
  [x \in Locations |-> IF x \in Slots THEN links[x] ELSE IF x \in Clusters THEN counts[x] ELSE mark[x]]

\* The image is opened after a crash, or after it was closed: "Repair image if dirty".
Reopen(image, left) ==
  /\ disk' = IF image[header] THEN Consistent(image) ELSE image
  /\ poss' = IF image[header] THEN [x \in Locations |-> {disk'[x]}] ELSE left
  /\ entries' = Empty /\ depends' = NoDependencies /\ onFlush' = {} /\ mem' = NotCached
  /\ uncopied' = {}
  /\ stack' = <<>> /\ ret' = Null
  /\ UNCHANGED errors

-----------------------------------------------------------------------------
(* qcow2-cache.c, one frame per active call.                               *)

FlushFrame(c) == [f |-> "flush", c |-> c, i |-> 1, result |-> "ok"]
EntryFrame(c, i) == [f |-> "entry", c |-> c, i |-> i]
DependencyFrame(c) == [f |-> "dependency", c |-> c]
SetFrame(c, d) == [f |-> "set", c |-> c, d |-> d]
GetFrame(c, t) == [f |-> "get", c |-> c, t |-> t, i |-> 0]

Top == Head(stack)
In(f) == stack # <<>> /\ Top.f = f

Call(frame) == stack' = <<frame>> \o stack /\ ret' = Null
CallFrom(top, frame) == stack' = <<frame, top>> \o Tail(stack) /\ ret' = Null
Return(result) == stack' = Tail(stack) /\ ret' = result
Continue == UNCHANGED stack /\ ret' = Null

\* The callers of a function that fails return its error, qcow2_cache_flush excepted.
Unwind ==
  /\ ret = "error"
  /\ stack # <<>> /\ Top.f # "flush"
  /\ Return("error")
  /\ UNCHANGED <<cacheVars, fileVars>>

\* Mutant of FlushResult: an error is forgotten.
FlushResultOk(result) == "ok"

\* The result of qcow2_cache_flush after one more entry.
FlushResult(result) == IF ret = "error" THEN "error" ELSE result

\* qcow2_cache_flush: the loop, which goes on after an error ...
FlushNext ==
  /\ In("flush") /\ Top.i <= Size[Top.c]
  /\ IF ret = Null
     THEN Call(EntryFrame(Top.c, Top.i))
     ELSE /\ stack' = <<[Top EXCEPT !.i = @ + 1,
                                    !.result = FlushResult(@)]>>
                        \o Tail(stack)
          /\ ret' = Null
  /\ UNCHANGED <<cacheVars, fileVars>>

\* ... and the bdrv_flush at its end.
FlushEnd ==
  /\ In("flush") /\ Top.i > Size[Top.c]
  /\ \/ Top.result = "ok" /\ FlushFile /\ Return("ok")
     \/ Top.result = "ok" /\ Fails /\ Return("error") /\ UNCHANGED <<disk, poss, uncopied>>
     \/ Top.result = "error" /\ Return("error") /\ UNCHANGED fileVars
  /\ UNCHANGED cacheVars

\* qcow2_cache_flush_dependency.
FlushDependency ==
  /\ In("dependency") /\ ret # "error"
  /\ IF ret = Null
     THEN Call(FlushFrame(depends[Top.c])) /\ UNCHANGED <<depends, onFlush>>
     ELSE /\ depends' = [depends EXCEPT ![Top.c] = Null]
          /\ onFlush' = onFlush \ {Top.c}
          /\ Return("ok")
  /\ UNCHANGED <<entries, mem, fileVars>>

\* Mutant of MustFlushFirst: the order of the writes is forgotten.
MustFlushFirstNever(c) == FALSE

\* The dependency that qcow2_cache_entry_flush has to settle first.
MustFlushFirst(c) == depends[c] # Null

\* qcow2_cache_entry_flush.
EntryFlush ==
  /\ In("entry") /\ ret # "error"
  /\ LET c == Top.c
         e == entries[c][Top.i]
     IN \/ /\ ~e.dirty \/ e.offset = Null
           /\ Return("ok")
           /\ UNCHANGED <<cacheVars, fileVars>>
        \/ /\ e.dirty /\ e.offset # Null /\ MustFlushFirst(c)
           /\ Call(DependencyFrame(c))
           /\ UNCHANGED <<cacheVars, fileVars>>
        \/ /\ e.dirty /\ e.offset # Null /\ ~MustFlushFirst(c) /\ c \in onFlush
           /\ \/ FlushFile /\ onFlush' = onFlush \ {c} /\ Continue
              \/ Fails /\ Return("error") /\ UNCHANGED <<onFlush, disk, poss, uncopied>>
           /\ UNCHANGED <<entries, depends, mem>>
        \/ /\ e.dirty /\ e.offset # Null /\ ~MustFlushFirst(c) /\ c \notin onFlush
           /\ \/ /\ WriteTable(e.offset)
                 /\ entries' = [entries EXCEPT ![c][Top.i].dirty = FALSE]
                 /\ Return("ok")
              \/ WriteFails(e.offset) /\ Return("error") /\ UNCHANGED entries
           /\ UNCHANGED <<depends, onFlush, mem>>

\* Mutant of Owed: the dependency's own dependency is kept.
OwedByDependent(c, d) == IF depends[c] \notin {Null, d} THEN c ELSE Null

\* The cache whose dependency qcow2_cache_set_dependency has to flush next.
Owed(c, d) ==
  IF depends[d] # Null THEN d ELSE IF depends[c] \notin {Null, d} THEN c ELSE Null

\* qcow2_cache_set_dependency.
SetDependency ==
  /\ In("set") /\ ret # "error"
  /\ LET owed == Owed(Top.c, Top.d)
     IN IF owed # Null
        THEN Call(DependencyFrame(owed)) /\ UNCHANGED depends
        ELSE depends' = [depends EXCEPT ![Top.c] = Top.d] /\ Return("ok")
  /\ UNCHANGED <<entries, onFlush, mem, fileVars>>

Holding(c, t) == {i \in 1..Size[c] : entries[c][i].offset = t}

\* qcow2_cache_do_get: the table is cached, or an entry that nobody uses is written
\* back (the hit counts of qcow2_cache_find_entry_to_replace are left out: any
\* unused entry may be the one) ...
CacheGet ==
  /\ In("get") /\ ret = Null
  /\ LET c == Top.c
         found == Holding(c, Top.t)
     IN IF found # {}
        THEN /\ entries' = [entries EXCEPT ![c] =
                  [i \in 1..Size[c] |->
                     IF i \in found THEN [entries[c][i] EXCEPT !.ref = @ + 1] ELSE entries[c][i]]]
             /\ Return("ok")
        ELSE /\ \E i \in 1..Size[c] :
                  /\ entries[c][i].ref = 0
                  /\ CallFrom([Top EXCEPT !.i = i], EntryFrame(c, i))
             /\ UNCHANGED entries
  /\ UNCHANGED <<depends, onFlush, mem, fileVars>>

\* ... and the table is read into it.
CacheRead ==
  /\ In("get") /\ ret = "ok"
  /\ LET evicted == InTable(entries[Top.c][Top.i].offset)
         forgotten == [x \in Locations |-> IF x \in evicted THEN Null ELSE mem[x]]
     IN \/ /\ entries' = [entries EXCEPT ![Top.c][Top.i].offset = Top.t,
                                          ![Top.c][Top.i].ref = @ + 1]
           /\ mem' = [x \in Locations |-> IF x \in InTable(Top.t) THEN disk[x]
                                                                  ELSE forgotten[x]]
           /\ Return("ok")
           /\ UNCHANGED errors
        \/ /\ Fails
           /\ entries' = [entries EXCEPT ![Top.c][Top.i].offset = Null]
           /\ mem' = forgotten
           /\ Return("error")
  /\ UNCHANGED <<depends, onFlush, disk, poss, uncopied>>

CacheStep ==
  \/ Unwind \/ FlushNext \/ FlushEnd \/ FlushDependency \/ EntryFlush
  \/ SetDependency \/ CacheGet \/ CacheRead

=============================================================================
