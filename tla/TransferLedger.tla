---------------------------- MODULE TransferLedger ----------------------------
(***************************************************************************)
(* What an engine that moves many items promises: every item is put into   *)
(* one class once and for all, and the engine says "complete" only when    *)
(* every item has its class.  With fairness it says something some day.    *)
(***************************************************************************)
CONSTANTS Items, Classes, Pending

VARIABLES class, verdict

ledger == <<class, verdict>>

LedgerTypeOK ==
  /\ class \in [Items -> Classes \cup {Pending}]
  /\ verdict \in {"open", "complete", "error"}

Init ==
  /\ class = [i \in Items |-> Pending]
  /\ verdict = "open"

Classify(i) ==
  /\ class[i] = Pending
  /\ \E c \in Classes : class' = [class EXCEPT ![i] = c]
  /\ UNCHANGED verdict

Conclude ==
  /\ verdict = "open"
  /\ \/ verdict' = "complete" /\ \A i \in Items : class[i] # Pending
     \/ verdict' = "error"
  /\ UNCHANGED class

Next == Conclude \/ \E i \in Items : Classify(i)

Spec == Init /\ [][Next]_ledger

FairSpec == Spec /\ WF_ledger(Conclude)

CompleteMeansAll == verdict = "complete" => \A i \in Items : class[i] # Pending
===============================================================================
