------------------------- MODULE MCArtifactLiveStream -------------------------
(***************************************************************************)
(* Small instances of ArtifactLiveStream for TLC.  The bound on GETs keeps *)
(* every state below one attempt more than the code allows.                *)
(***************************************************************************)
EXTENDS ArtifactLiveStream, TLC
=============================================================================
