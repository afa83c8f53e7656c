---------------------------- MODULE MCRWSpinLock ----------------------------
(* Three threads, guards nested up to three deep: enough for write-read-write *)
(* nesting, for two readers with a writer waiting, and for stale read counts. *)
EXTENDS RWSpinLock

MCThreads == 1..3
=============================================================================
