------------------------- MODULE TransferLedger_proofs -------------------------
(***************************************************************************)
(* What every engine that implements the ledger inherits from it, for any  *)
(* items and classes.                                                      *)
(***************************************************************************)
EXTENDS TransferLedger, TLAPS

\* The ledger is well-typed: an item has one class at most.
LEMMA LedgerTyped == Spec => []LedgerTypeOK
<1>1. Init => LedgerTypeOK
  BY DEF Init, LedgerTypeOK
<1>2. LedgerTypeOK /\ [Next]_ledger => LedgerTypeOK'
  <2> SUFFICES ASSUME LedgerTypeOK, [Next]_ledger PROVE LedgerTypeOK'
    OBVIOUS
  <2>1. ASSUME NEW i \in Items, Classify(i) PROVE LedgerTypeOK'
    BY <2>1 DEF Classify, LedgerTypeOK
  <2>2. CASE Conclude
    BY <2>2 DEF Conclude, LedgerTypeOK
  <2>3. CASE UNCHANGED ledger
    BY <2>3 DEF ledger, LedgerTypeOK
  <2> QED BY <2>1, <2>2, <2>3 DEF Next
<1> QED BY <1>1, <1>2, PTL DEF Spec

\* An engine that says "complete" has given every item its class
\* (storage-copy.ts:1223-1586 and storage-export.ts:520-749 return a summary
\* that accounts for all that was listed).
THEOREM CompleteLedgersAreFull ==
  ASSUME Pending \notin Classes
  PROVE  Spec => []CompleteMeansAll
<1>1. Init => CompleteMeansAll
  BY DEF Init, CompleteMeansAll
<1>2. LedgerTypeOK /\ CompleteMeansAll /\ [Next]_ledger => CompleteMeansAll'
  <2> SUFFICES ASSUME LedgerTypeOK, CompleteMeansAll, [Next]_ledger PROVE CompleteMeansAll'
    OBVIOUS
  <2>1. ASSUME NEW i \in Items, Classify(i) PROVE CompleteMeansAll'
    BY <2>1 DEF Classify, CompleteMeansAll, LedgerTypeOK
  <2>2. CASE Conclude
    BY <2>2 DEF Conclude, CompleteMeansAll
  <2>3. CASE UNCHANGED ledger
    BY <2>3 DEF ledger, CompleteMeansAll
  <2> QED BY <2>1, <2>2, <2>3 DEF Next
<1> QED BY <1>1, <1>2, LedgerTyped, PTL DEF Spec

\* A class, once given, is never taken back or changed, and a verdict neither:
\* no retry or late answer counts an object twice.
ClassesAreFinal ==
  [][ /\ \A i \in Items : class[i] # Pending => class'[i] = class[i]
      /\ verdict # "open" => verdict' = verdict ]_ledger

\* Every step of the ledger leaves the classes given before as they are.
THEOREM LedgersAreFinal == Spec => ClassesAreFinal
<1>1. LedgerTypeOK /\ [Next]_ledger =>
        [ /\ \A i \in Items : class[i] # Pending => class'[i] = class[i]
          /\ verdict # "open" => verdict' = verdict ]_ledger
  <2> SUFFICES ASSUME LedgerTypeOK, Next
               PROVE  /\ \A i \in Items : class[i] # Pending => class'[i] = class[i]
                      /\ verdict # "open" => verdict' = verdict
    OBVIOUS
  <2>1. ASSUME NEW i \in Items, Classify(i)
        PROVE  /\ \A j \in Items : class[j] # Pending => class'[j] = class[j]
               /\ verdict # "open" => verdict' = verdict
    BY <2>1 DEF Classify, LedgerTypeOK
  <2>2. ASSUME Conclude
        PROVE  /\ \A j \in Items : class[j] # Pending => class'[j] = class[j]
               /\ verdict # "open" => verdict' = verdict
    BY <2>2 DEF Conclude
  <2> QED BY <2>1, <2>2 DEF Next
<1> QED BY <1>1, LedgerTyped, PTL DEF Spec, ClassesAreFinal
================================================================================
