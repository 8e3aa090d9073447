------------------------------ MODULE MCBlockIO -----------------------------
(***************************************************************************)
(* Small instances of BlockIO: four bytes, aligned in pairs, in one        *)
(* cluster.                                                                *)
(***************************************************************************)
EXTENDS BlockIO

Op(kind, off, len) == [kind |-> kind, off |-> off, len |-> len]

MCOps == { Op("write", 0, 1), Op("write", 1, 2), Op("write", 2, 2), Op("cor", 0, 2) }

FlushOps == { Op("write", 0, 2), Op("flush", 0, 1) }

=============================================================================
