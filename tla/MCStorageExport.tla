---------------------------- MODULE MCStorageExport ----------------------------
(***************************************************************************)
(* A small instance of StorageExport for TLC: a batch of five objects, one *)
(* of them larger than all that may be in flight, and a batch of one.      *)
(***************************************************************************)
EXTENDS StorageExport

TwoBatches == <<1, 1, 1, 1, 1, 2>>
Sizes == <<1, 4, 2, 1, 1, 0>>
===============================================================================
