----------------------------- MODULE RunLifecycle -----------------------------
(***************************************************************************)
(* What a job promises about its runs, whatever else happens inside: a run *)
(* begins once, at most one run is live, and a run that is over never      *)
(* becomes live again.  With fairness, every live run is over some day.    *)
(***************************************************************************)
CONSTANT Runs

VARIABLE phase

Phase == {"fresh", "live", "over"}

LifecycleTypeOK == phase \in [Runs -> Phase]

Init == phase = [r \in Runs |-> "fresh"]

\* A run begins; the run that was live, if any, is over.
Begin(r, to) ==
  /\ phase[r] = "fresh"
  /\ phase' = [q \in Runs |-> IF q = r THEN to
                              ELSE IF phase[q] = "live" THEN "over" ELSE phase[q]]

\* The run begins, or is over at once because it could not be started.
Start(r) == \E to \in {"live", "over"} : Begin(r, to)

End(r) ==
  /\ phase[r] = "live"
  /\ phase' = [phase EXCEPT ![r] = "over"]

Next == \E r \in Runs : Start(r) \/ End(r)

Spec == Init /\ [][Next]_phase

FairSpec == Spec /\ \A r \in Runs : WF_phase(End(r))

AtMostOneLive == \A q, r \in Runs : phase[q] = "live" /\ phase[r] = "live" => q = r
=============================================================================
