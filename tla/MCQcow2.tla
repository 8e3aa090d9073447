------------------------------ MODULE MCQcow2 -------------------------------
(***************************************************************************)
(* Two L2 tables with an entry each and two refcount blocks, each cache    *)
(* with room for one table, so that every other request evicts one.  The   *)
(* first guest cluster is shared with a snapshot at first.                 *)
(***************************************************************************)
EXTENDS Qcow2, TLC

CONSTANTS s1, s2, k1, k2, t1, t2, b1, b2

MCHomeOf ==
  [x \in {s1, s2, k1, k2} |->
     CASE x = s1 -> t1 [] x = s2 -> t2 [] x = k1 -> b1 [] x = k2 -> b2]

MCSymmetry == Permutations(Reqs)

\* The run without this constraint follows what happens after a failure is ignored.
NothingIgnored == ~ignored

MCSize == [c \in {l2, refcount} |-> 1]

\* The refcount cache has an entry for each of its blocks.
MCTwoBlocks == [c \in {l2, refcount} |-> IF c = l2 THEN 1 ELSE 2]

MCInitialL2 == [s \in {s1, s2} |-> IF s = s1 THEN k1 ELSE Null]

=============================================================================
