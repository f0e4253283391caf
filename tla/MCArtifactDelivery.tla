-------------------------- MODULE MCArtifactDelivery --------------------------
(***************************************************************************)
(* Small instances of ArtifactDelivery for TLC.                            *)
(***************************************************************************)
EXTENDS ArtifactDelivery, TLC

DeliverySymmetry == Permutations(Runs) \cup Permutations(Tokens)
=============================================================================
