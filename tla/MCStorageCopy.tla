----------------------------- MODULE MCStorageCopy -----------------------------
(***************************************************************************)
(* A small instance of StorageCopy for TLC: two buckets, the first of them *)
(* with more objects than the gate has slots.                              *)
(***************************************************************************)
EXTENDS StorageCopy

TwoBuckets == <<1, 1, 2>>
===============================================================================
