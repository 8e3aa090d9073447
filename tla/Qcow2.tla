------------------------------- MODULE Qcow2 --------------------------------
(***************************************************************************)
(* The requests that change the metadata of a qcow2 image through the      *)
(* caches of Qcow2Cache: writes that allocate (qcow2_co_writev), discards  *)
(* (qcow2_co_discard) and flushes (qcow2_co_flush_to_os).  A request is a  *)
(* coroutine; it gives s->lock up while it writes and copies data.         *)
(*                                                                         *)
(* A request is about one guest cluster.  Images have no backing file and  *)
(* no compressed clusters, and have all the L2 tables and refcount blocks  *)
(* they need.                                                              *)
(***************************************************************************)
EXTENDS Qcow2Cache

CONSTANT Reqs      \* the coroutines of the guest's requests

ASSUME ReqsAssumption == Null \notin Reqs /\ IsFiniteSet(Reqs)

VARIABLES
  holder,          \* the request that holds s->lock
  req,             \* each request: at (where it is), slot (its guest cluster), and
                   \* cluster (m->alloc_offset, or the host cluster it frees)
  lazy,            \* s->use_lazy_refcounts
  bit,             \* s->incompatible_features has QCOW2_INCOMPAT_DIRTY
  ignored          \* a failure of qcow2_cache_set_dependency has been ignored

flags == <<lazy, bit, ignored>>
reqVars == <<holder, req, flags>>
vars == <<cacheVars, fileVars, callVars, reqVars>>

Idle == [at |-> "idle", slot |-> Null, cluster |-> Null]

Init ==
  /\ CacheInit
  /\ holder = Null
  /\ req = [r \in Reqs |-> Idle]
  /\ lazy \in BOOLEAN
  /\ bit = FALSE
  /\ ignored = FALSE

-----------------------------------------------------------------------------
\* The request that holds s->lock is at a place, and no call is active.
At(r, where) == holder = r /\ req[r].at = where /\ stack = <<>>

Goes(r, where) == req' = [req EXCEPT ![r].at = where]
Begins(r, where, s) == req' = [req EXCEPT ![r] = [Idle EXCEPT !.at = where, !.slot = s]]
GoesFor(r, where, k) == req' = [req EXCEPT ![r].at = where, ![r].cluster = k]

\* s->lock is taken and a function of qcow2-cache.c called; another one is called;
\* nothing is called; s->lock is given up; the request returns.
LockAndCall(r, frame) == holder = Null /\ holder' = r /\ Call(frame)
ThenCall(frame) == Call(frame) /\ UNCHANGED holder
GoOn == Continue /\ UNCHANGED holder
Unlock == holder' = Null /\ Continue
Finish(r) == req' = [req EXCEPT ![r] = Idle] /\ Unlock

GetL2(s) == GetFrame(l2, HomeOf[s])
GetRefcount(k) == GetFrame(refcount, HomeOf[k])

\* qcow2_cache_entry_mark_dirty and qcow2_cache_put for the table of a location.
EntryOf(x) == CHOOSE i \in Holding(CacheOf(x), HomeOf[x]) : TRUE
Dirtied(x) == [entries EXCEPT ![CacheOf(x)][EntryOf(x)].dirty = TRUE]
Put(es, x) == [es EXCEPT ![CacheOf(x)][EntryOf(x)].ref = @ - 1]

-----------------------------------------------------------------------------
(* qcow2_co_writev.                                                        *)

\* The guest clusters of the QCowL2Metas in s->cluster_allocs.
InFlight ==
  {req[r].slot : r \in {q \in Reqs : req[q].at \in {"data", "cow", "mark", "link", "update"}}}

\* qcow2_alloc_cluster_offset: handle_dependencies waits for a write that is
\* allocating the same cluster, handle_copied gets the L2 table.
WriteBegin(r, s) ==
  /\ req[r].at = "idle"
  /\ s \notin InFlight
  /\ LockAndCall(r, GetL2(s))
  /\ Begins(r, "lookup", s)
  /\ UNCHANGED <<cacheVars, fileVars, flags>>

\* A cluster that QCOW_OFLAG_COPIED lets the guest overwrite in place needs no
\* metadata; otherwise handle_alloc looks for a free one.
WriteLookup(r) ==
  /\ At(r, "lookup")
  /\ IF ret = "error" THEN Finish(r) /\ UNCHANGED entries
     ELSE /\ entries' = Put(entries, req[r].slot)
          /\ IF mem[req[r].slot] \in Clusters \ Snapshot
             THEN Finish(r)
             ELSE Goes(r, "pick") /\ GoOn
  /\ UNCHANGED <<depends, onFlush, mem, fileVars, flags>>

\* alloc_clusters_noref: the refcount of some cluster is looked up. If nothing is
\* free the image would have to grow, which here fails.
WritePick(r) ==
  /\ At(r, "pick")
  /\ \/ \E k \in Clusters : GoesFor(r, "allocate", k) /\ ThenCall(GetRefcount(k))
     \/ Finish(r)
  /\ UNCHANGED <<cacheVars, fileVars, flags>>

\* update_refcount(+1), if the cluster is free; the data is then written without
\* s->lock.
WriteAllocate(r) ==
  /\ At(r, "allocate")
  /\ LET k == req[r].cluster
     IN IF ret = "error" THEN Finish(r) /\ UNCHANGED <<entries, mem>>
        ELSE IF mem[k] # 0
        THEN entries' = Put(entries, k) /\ Goes(r, "pick") /\ GoOn /\ UNCHANGED mem
        ELSE /\ mem' = [mem EXCEPT ![k] = 1]
             /\ entries' = Put(Dirtied(k), k)
             /\ Goes(r, "data") /\ Unlock
  /\ UNCHANGED <<depends, onFlush, fileVars, flags>>

\* The data has been written. qcow2_alloc_cluster_link_l2 is called: sectors that
\* the request does not cover are to be copied, without s->lock, or there are none.
WriteData(r) ==
  /\ req[r].at = "data" /\ holder = Null
  /\ \/ Goes(r, "mark") /\ holder' = r /\ Continue /\ UNCHANGED errors
     \/ Goes(r, "cow") /\ Unlock /\ UNCHANGED errors
     \/ Fails /\ Finish(r)
  /\ UNCHANGED <<cacheVars, disk, poss, uncopied, flags>>

\* Mutant of DependsOnFlush: the copied sectors are not flushed before the L2 table.
DependsOnFlushNever(c) == onFlush

\* qcow2_cache_depends_on_flush.
DependsOnFlush(c) == onFlush \cup {c}

\* perform_cow: the sectors before or after the request have been copied.
WriteCow(r) ==
  /\ req[r].at = "cow" /\ holder = Null
  /\ \/ /\ uncopied' = uncopied \cup {req[r].cluster}
        /\ onFlush' = DependsOnFlush(l2)
        /\ \/ Goes(r, "mark") /\ holder' = r /\ Continue
           \/ Goes(r, "cow") /\ Unlock
        /\ UNCHANGED errors
     \/ Fails /\ Finish(r) /\ UNCHANGED <<onFlush, uncopied>>
  /\ UNCHANGED <<entries, depends, mem, disk, poss, flags>>

\* qcow2_mark_dirty: the header is written and the image file flushed.
MarkDirty ==
  /\ disk' = [disk EXCEPT ![header] = TRUE]
  /\ poss' = [x \in Locations |-> {disk'[x]}]
  /\ uncopied' = {}
  /\ UNCHANGED errors

MarkDirtyFails ==
  /\ Fails
  /\ disk' \in {disk, [disk EXCEPT ![header] = TRUE]}
  /\ poss' = [poss EXCEPT ![header] = @ \cup {TRUE}]
  /\ UNCHANGED uncopied

\* With lazy refcounts the image is marked dirty; the L2 tables are made to depend
\* on the refcounts if it is not (qcow2_need_accurate_refcounts).
WriteMark(r) ==
  /\ At(r, "mark")
  /\ \/ lazy /\ ~bit /\ MarkDirty /\ bit' = TRUE
     \/ lazy /\ ~bit /\ MarkDirtyFails /\ bit' = FALSE
     \/ lazy = bit /\ UNCHANGED <<fileVars, bit>>
  /\ IF bit' THEN Goes(r, "update") /\ ThenCall(GetL2(req[r].slot))
             ELSE Goes(r, "link") /\ ThenCall(SetFrame(l2, refcount))
  /\ UNCHANGED <<cacheVars, lazy, ignored>>

\* What qcow2_cache_set_dependency returns is not looked at.
Ignore == ignored' = (ignored \/ ret = "error") /\ UNCHANGED <<lazy, bit>>

\* The L2 tables have been made to depend on the refcounts; the L2 table is got ...
WriteLink(r) ==
  /\ At(r, "link")
  /\ Ignore
  /\ Goes(r, "update") /\ ThenCall(GetL2(req[r].slot))
  /\ UNCHANGED <<cacheVars, fileVars>>

\* ... and points to the new cluster from now on. The old one is freed.
WriteUpdate(r) ==
  /\ At(r, "update")
  /\ LET s == req[r].slot
     IN IF ret = "error" THEN Finish(r) /\ UNCHANGED <<entries, mem>>
        ELSE /\ mem' = [mem EXCEPT ![s] = req[r].cluster]
             /\ entries' = Put(Dirtied(s), s)
             /\ IF mem[s] = Null THEN Finish(r)
                ELSE GoesFor(r, "free", mem[s]) /\ ThenCall(SetFrame(refcount, l2))
  /\ UNCHANGED <<depends, onFlush, fileVars, flags>>

-----------------------------------------------------------------------------
(* qcow2_co_discard, and what it shares with writes.                       *)

DiscardBegin(r, s) ==
  /\ req[r].at = "idle"
  /\ LockAndCall(r, GetL2(s))
  /\ Begins(r, "discard", s)
  /\ UNCHANGED <<cacheVars, fileVars, flags>>

\* discard_single_l2: the L2 entry is cleared, and its table kept in use while the
\* cluster is freed.
Discard(r) ==
  /\ At(r, "discard")
  /\ LET s == req[r].slot
     IN IF ret = "error" THEN Finish(r) /\ UNCHANGED <<entries, mem>>
        ELSE IF mem[s] = Null
        THEN entries' = Put(entries, s) /\ Finish(r) /\ UNCHANGED mem
        ELSE /\ mem' = [mem EXCEPT ![s] = Null]
             /\ entries' = Dirtied(s)
             /\ GoesFor(r, "freeHeld", mem[s]) /\ ThenCall(SetFrame(refcount, l2))
  /\ UNCHANGED <<depends, onFlush, fileVars, flags>>

\* update_refcount(-1): the refcount blocks have been made to depend on the L2 tables;
\* the cluster's block is got ...
Free(r) ==
  /\ At(r, "free") \/ At(r, "freeHeld")
  /\ Ignore
  /\ Goes(r, IF req[r].at = "free" THEN "drop" ELSE "dropHeld")
  /\ ThenCall(GetRefcount(req[r].cluster))
  /\ UNCHANGED <<cacheVars, fileVars>>

\* ... and updated, unless it would become negative. If that fails the cluster leaks.
Drop(r) ==
  /\ At(r, "drop") \/ At(r, "dropHeld")
  /\ LET k == req[r].cluster
         dropped == IF ret = "error" THEN entries ELSE Put(Dirtied(k), k)
     IN /\ mem' = IF ret = "error" \/ mem[k] = 0 THEN mem ELSE [mem EXCEPT ![k] = @ - 1]
        /\ entries' = IF req[r].at = "drop" THEN dropped ELSE Put(dropped, req[r].slot)
  /\ Finish(r)
  /\ UNCHANGED <<depends, onFlush, fileVars, flags>>

-----------------------------------------------------------------------------
(* qcow2_co_flush_to_os.                                                   *)

FlushBegin(r) ==
  /\ req[r].at = "idle"
  /\ Goes(r, "flushL2") /\ LockAndCall(r, FlushFrame(l2))
  /\ UNCHANGED <<cacheVars, fileVars, flags>>

FlushRefcounts(r) ==
  /\ At(r, "flushL2")
  /\ IF ret = "error" \/ bit THEN Finish(r)
     ELSE Goes(r, "flushed") /\ ThenCall(FlushFrame(refcount))
  /\ UNCHANGED <<cacheVars, fileVars, flags>>

FlushReturns(r) ==
  /\ At(r, "flushed")
  /\ Finish(r)
  /\ UNCHANGED <<cacheVars, fileVars, flags>>

-----------------------------------------------------------------------------
(* qcow2_close, when there are no requests, and qcow2_open.                *)

CloseBegin(r) ==
  /\ \A q \in Reqs : req[q] = Idle
  /\ Goes(r, "closeL2") /\ LockAndCall(r, FlushFrame(l2))
  /\ UNCHANGED <<cacheVars, fileVars, flags>>

CloseRefcounts(r) ==
  /\ At(r, "closeL2")
  /\ Goes(r, "close") /\ ThenCall(FlushFrame(refcount))
  /\ UNCHANGED <<cacheVars, fileVars, flags>>

\* qcow2_mark_clean: bdrv_flush(bs), which flushes the caches again ...
CloseMarkClean(r) ==
  /\ At(r, "close") /\ bit
  /\ bit' = FALSE
  /\ Goes(r, "cleanL2") /\ ThenCall(FlushFrame(l2))
  /\ UNCHANGED <<cacheVars, fileVars, lazy, ignored>>

CloseCleanRefcounts(r) ==
  /\ At(r, "cleanL2") /\ ret = "ok"
  /\ Goes(r, "clean") /\ ThenCall(FlushFrame(refcount))
  /\ UNCHANGED <<cacheVars, fileVars, flags>>

\* ... and qcow2_update_header.
CloseUpdateHeader(r) ==
  /\ At(r, "clean") /\ ret = "ok"
  /\ \/ disk' = [disk EXCEPT ![header] = FALSE] /\ UNCHANGED errors
     \/ Fails /\ disk' \in {disk, [disk EXCEPT ![header] = FALSE]}
  /\ poss' = [poss EXCEPT ![header] = @ \cup {FALSE}]
  /\ Goes(r, "close") /\ GoOn
  /\ UNCHANGED <<cacheVars, uncopied, flags>>

\* The image has been closed, in one way or another, and is opened again.
CloseEnd(r) ==
  /\ \/ At(r, "close") /\ ~bit
     \/ (At(r, "cleanL2") \/ At(r, "clean")) /\ ret = "error"
  /\ Reopen(disk, poss)
  /\ holder' = Null
  /\ req' = [q \in Reqs |-> Idle]
  /\ UNCHANGED flags

\* The host crashes, and the program with it.
Crash ==
  /\ \E links \in Survivors(Slots), counts \in Survivors(Clusters), mark \in Survivors({header}) :
       LET image == Surviving(links, counts, mark)
       IN  Reopen(image, [x \in Locations |-> {image[x]}])
  /\ holder' = Null
  /\ req' = [r \in Reqs |-> Idle]
  /\ bit' = FALSE
  /\ UNCHANGED <<lazy, ignored>>

RequestStep(r) ==
  \/ \E s \in Slots : WriteBegin(r, s) \/ DiscardBegin(r, s)
  \/ WriteLookup(r) \/ WritePick(r) \/ WriteAllocate(r) \/ WriteData(r) \/ WriteCow(r)
  \/ WriteMark(r) \/ WriteLink(r) \/ WriteUpdate(r)
  \/ Discard(r) \/ Free(r) \/ Drop(r)
  \/ FlushBegin(r) \/ FlushRefcounts(r) \/ FlushReturns(r)
  \/ CloseBegin(r) \/ CloseRefcounts(r) \/ CloseMarkClean(r) \/ CloseCleanRefcounts(r)
  \/ CloseUpdateHeader(r) \/ CloseEnd(r)

Next ==
  \/ CacheStep /\ UNCHANGED reqVars
  \/ \E r \in Reqs : RequestStep(r)
  \/ Crash

Spec == Init /\ [][Next]_vars

-----------------------------------------------------------------------------
\* After a crash at any moment, no cluster has fewer references in its refcount than
\* L2 tables and snapshots point to it, whatever the order in which the image file
\* wrote what had not been flushed, or else the image is marked dirty and will be
\* repaired: a cluster in use is never free. It is what "the right order for L2 and
\* refcount update" (qcow2_alloc_cluster_link_l2) is for.
RefcountsCover ==
  FALSE \in poss[header] =>
  \A k \in Clusters : \A n \in poss[k] :
    n >= Cardinality({s \in Slots : k \in poss[s]}) + Shared(k)

\* "Before we update the L2 table to actually point to the new cluster, we need to be
\* sure that ... COW was handled" (perform_cow): no L2 entry that the image file may
\* have from now on points to a cluster whose copied sectors a crash may still lose.
CopiedBeforeLinked ==
  [][\A s \in Slots : (poss'[s] \ poss[s]) \cap uncopied = {}]_vars

\* The image file has for good what a cache has.
OnDisk(c) ==
  \A i \in 1..Size[c] : \A x \in InTable(entries[c][i].offset) : poss[x] = {mem[x]}

\* When qcow2_co_flush_to_os returns 0 the image file has for good what both caches
\* have. With the dirty bit it does not flush the refcounts: then it has the L2 tables,
\* and the dirty bit, because of which the refcounts will be made to match them.
FlushedIsDurable ==
  \A r \in Reqs : ret = "ok" =>
    /\ At(r, "flushed") => OnDisk(l2) /\ OnDisk(refcount)
    /\ At(r, "flushL2") /\ bit => OnDisk(l2) /\ FALSE \notin poss[header]

\* The two caches never depend on each other, and qcow2_cache_flush_dependency is
\* called where there is a dependency to settle. So flushing one cache before the
\* other ends: qcow2_cache_flush is in progress at most once for each.
NoDependencyLoop ==
  /\ \E c \in Caches : depends[c] = Null
  /\ \A i \in DOMAIN stack : stack[i].f = "dependency" => depends[stack[i].c] # Null
  /\ Len(stack) <= 5

=============================================================================
