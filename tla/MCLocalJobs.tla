------------------------------ MODULE MCLocalJobs ------------------------------
(* A job of the local API server with two runs, in either order: one runs a   *)
(* container, the other a storage copy.                                       *)
EXTENDS LocalJobs, TLC

CONSTANTS r1, r2

OneOfEach == (r1 :> {"container"}) @@ (r2 :> {"memory"})
================================================================================
