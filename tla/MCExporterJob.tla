---------------------------- MODULE MCExporterJob ----------------------------
(***************************************************************************)
(* Small instances of ExporterJob for TLC.                                 *)
(***************************************************************************)
EXTENDS ExporterJob
=============================================================================
