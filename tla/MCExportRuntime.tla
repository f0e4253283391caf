--------------------------- MODULE MCExportRuntime ---------------------------
(***************************************************************************)
(* Every mode of the runner, with two objects a schema restore may leave   *)
(* out, of which the limit allows one, and one that it may not.            *)
(***************************************************************************)
EXTENDS ExportRuntime

CONSTANTS trigger, index, table

MCSkippable == {trigger, index}
=============================================================================
