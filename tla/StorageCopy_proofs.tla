--------------------------- MODULE StorageCopy_proofs ---------------------------
(***************************************************************************)
(* Proofs about StorageCopy, for any buckets, objects and limits: the gate *)
(* loses no wake-up, outcomes are honest, nothing runs after the return, a *)
(* copy is given up only if nothing worked, the engine implements the      *)
(* safety part of the ledger, and its retries are bounded.                 *)
(***************************************************************************)
EXTENDS StorageCopy, FiniteSetTheorems, TLAPS

(***************************************************************************)
(* The inductive invariant.                                                *)
(***************************************************************************)

\* A task agrees with what the target holds of its object.
TaskGood(t, held) ==
  /\ t.class = "pending" <=> t.step # "done"
  /\ t.gets \in 0..(MaxAttempts - 1) /\ t.tries \in 0..(MaxAttempts - 1)
  /\ t.reason = "rebuild" => t.streamed
  /\ t.step = "read" => t.reason # "rebuild"
  /\ t.step = "send" => /\ t.body \in {"buffer", "stream"}
                        /\ t.body = "stream" => t.streamed
  /\ held = "ours" => \/ t.step \in {"send", "done"}
                      \/ t.step \in {"resolve", "get"} /\ t.reason = "rebuild"
  /\ t.class = "copied" => held = "ours"
  /\ t.class = "existing" => held # "absent"
  /\ t.class \in {"missing", "oversized"} => held # "ours"

TasksGood == \A o \in Objects : TaskGood(tasks[o], target[o])

Woken == {"woken"}
Steps(now, kinds) == {o \in Objects : now[o].step \in kinds}

\* The gate counts the running transfers, and knows who waits and who was woken.
GateGood ==
  /\ gate.active = Cardinality(Steps(tasks, Running))
  /\ gate.woken = Steps(tasks, Woken)
  /\ \A i \in DOMAIN gate.waiters :
       /\ tasks[gate.waiters[i]].step = "waiting"
       /\ \A j \in DOMAIN gate.waiters : j # i => gate.waiters[j] # gate.waiters[i]

\* The window is open only while all outcomes are the same lack of permission.
WindowGood ==
  window.open => \A o \in Objects : tasks[o].class # "pending" =>
    /\ tasks[o].class = "failed"
    /\ tasks[o].signature = window.signature /\ window.signature # NoSignature

\* Objects are queued in their order, bucket by bucket, and none is queued where the
\* engine does not wait for it.
EngineGood ==
  /\ engine.next \in 1..(Len(BucketOf) + 1)
  /\ \A o \in Objects : tasks[o].step = "listed" <=> o >= engine.next
  /\ engine.pc \notin {"scan", "settle"} => Queued = {}
  /\ engine.pc \in {"scan", "settle"} => engine.bucket <= NumBuckets
  /\ engine.pc \in {"list", "bucket", "scan"} =>
       \A o \in Objects : o >= engine.next => BucketOf[o] >= engine.bucket
  /\ engine.pc = "settle" /\ engine.raised = "none" =>
       \A o \in Objects : o >= engine.next => BucketOf[o] > engine.bucket
  /\ engine.pc \in {"flush", "returned"} => \A o \in Objects : o < engine.next

\* What the target may hold: only objects that are to be skipped are of its own.
Held == IF skip THEN {"absent", "theirs", "ours"} ELSE {"absent", "ours"}

CInv ==
  /\ CopyTypeOK
  /\ target \in [Objects -> Held]
  /\ TasksGood
  /\ GateGood
  /\ WindowGood
  /\ EngineGood
  /\ NoIdleSlot

-----------------------------------------------------------------------------
(***************************************************************************)
(* Objects and the sets that the gate counts.                              *)
(***************************************************************************)

LEMMA ObjectsAreNumbers ==
  /\ Len(BucketOf) \in Nat
  /\ Objects = 1..Len(BucketOf)
  /\ \A o \in Objects : BucketOf[o] \in Buckets
  /\ IsFiniteSet(Objects)
<1>1. /\ Len(BucketOf) \in Nat /\ Objects = 1..Len(BucketOf)
      /\ \A o \in Objects : BucketOf[o] \in Buckets
  BY CopyConstants DEF Objects
<1>2. IsFiniteSet(1..Len(BucketOf))
  BY <1>1, FS_Interval
<1> QED BY <1>1, <1>2

LEMMA StepsFinite ==
  ASSUME NEW now, NEW kinds
  PROVE  IsFiniteSet(Steps(now, kinds)) /\ Cardinality(Steps(now, kinds)) \in Nat
<1>1. Steps(now, kinds) \in SUBSET Objects
  BY DEF Steps
<1>2. IsFiniteSet(Steps(now, kinds))
  BY <1>1, ObjectsAreNumbers, FS_Subset
<1> QED BY <1>2, FS_CardinalityType

\* One transfer joins or leaves those that are counted.
LEMMA StepsChange ==
  ASSUME NEW now, NEW next, NEW kinds, NEW o \in Objects,
         \A p \in Objects : p # o => (now[p].step \in kinds <=> next[p].step \in kinds)
  PROVE  /\ (now[o].step \in kinds <=> next[o].step \in kinds) =>
              Steps(next, kinds) = Steps(now, kinds)
         /\ now[o].step \in kinds /\ next[o].step \notin kinds =>
              /\ Cardinality(Steps(next, kinds)) = Cardinality(Steps(now, kinds)) - 1
              /\ Cardinality(Steps(now, kinds)) > 0
         /\ now[o].step \notin kinds /\ next[o].step \in kinds =>
              Cardinality(Steps(next, kinds)) = Cardinality(Steps(now, kinds)) + 1
<1> DEFINE S == Steps(now, kinds)
           T == Steps(next, kinds)
<1>1. IsFiniteSet(S) /\ Cardinality(S) \in Nat /\ IsFiniteSet(T) /\ Cardinality(T) \in Nat
  BY StepsFinite
<1>2. ASSUME now[o].step \in kinds, next[o].step \notin kinds
      PROVE  Cardinality(T) = Cardinality(S) - 1 /\ Cardinality(S) > 0
  <2>1. T = S \ {o} /\ o \in S
    BY <1>2 DEF Steps
  <2> HIDE DEF S, T
  <2>2. Cardinality(T) = Cardinality(S) - 1
    BY <1>1, <2>1, FS_RemoveElement
  <2> QED BY <1>1, <2>2
<1>3. ASSUME now[o].step \notin kinds, next[o].step \in kinds
      PROVE  Cardinality(T) = Cardinality(S) + 1
  <2>1. T = S \cup {o} /\ o \notin S
    BY <1>3 DEF Steps
  <2> HIDE DEF S, T
  <2> QED BY <1>1, <2>1, FS_AddElement
<1>4. (now[o].step \in kinds <=> next[o].step \in kinds) => T = S
  BY DEF Steps
<1> QED BY <1>2, <1>3, <1>4

-----------------------------------------------------------------------------
(***************************************************************************)
(* The gate.                                                               *)
(***************************************************************************)

LEMMA WaiterFacts ==
  ASSUME CInv
  PROVE  /\ gate \in Gate /\ gate.active \in Nat /\ gate.waiters \in Seq(Objects)
         /\ gate.woken \subseteq Objects
         /\ \A i \in DOMAIN gate.waiters : gate.waiters[i] \in Objects
         /\ tasks \in [Objects -> Transfer]
BY DEF CInv, CopyTypeOK, Gate

\* A transfer that ends leaves the gate, and hands its slot to the first waiter.
LEMMA ReleaseEffect ==
  ASSUME CInv, NEW o \in Objects, tasks[o].step \in Running,
         NEW d \in Transfer, d.step = "done",
         Release([tasks EXCEPT ![o] = d])
  PROVE  /\ tasks' \in [Objects -> Transfer]
         /\ tasks'[o] = d
         /\ \A p \in Objects : p # o =>
              \/ tasks'[p] = tasks[p]
              \/ /\ tasks[p].step = "waiting"
                 /\ tasks'[p] = [tasks[p] EXCEPT !.step = "woken"]
         /\ gate' \in Gate /\ GateGood' /\ NoIdleSlot'
<1> DEFINE after == [tasks EXCEPT ![o] = d]
<1>1. /\ after \in [Objects -> Transfer] /\ after[o] = d
      /\ \A p \in Objects : p # o => after[p] = tasks[p]
  BY WaiterFacts
<1>2. GateGood /\ NoIdleSlot
  BY DEF CInv
<1>3. d.step \notin Running /\ d.step # "woken" /\ d.step # "waiting"
  BY DEF Running
<1>4. tasks[o].step # "woken" /\ tasks[o].step # "waiting"
  BY DEF Running
<1> HIDE DEF after
<1>5. /\ Cardinality(Steps(after, Running)) = Cardinality(Steps(tasks, Running)) - 1
      /\ Cardinality(Steps(tasks, Running)) > 0
      /\ Steps(after, Woken) = Steps(tasks, Woken)
  <2>1. \A kinds : \A p \in Objects : p # o =>
          (tasks[p].step \in kinds <=> after[p].step \in kinds)
    BY <1>1
  <2>2. /\ Cardinality(Steps(after, Running)) = Cardinality(Steps(tasks, Running)) - 1
        /\ Cardinality(Steps(tasks, Running)) > 0
    BY <1>1, <1>3, <2>1, StepsChange
  <2>3. Steps(after, Woken) = Steps(tasks, Woken)
    <3>1. tasks[o].step \in Woken <=> after[o].step \in Woken
      BY <1>1, <1>3, <1>4 DEF Woken
    <3> QED BY <2>1, <3>1 DEF Steps
  <2> QED BY <2>2, <2>3
<1>6. CASE gate.waiters = <<>>
  <2>1. gate' = [gate EXCEPT !.active = @ - 1] /\ tasks' = after
    BY <1>6 DEF Release, after
  <2>2. gate'.active = gate.active - 1 /\ gate'.waiters = <<>> /\ gate'.woken = gate.woken
    BY <1>6, <2>1, WaiterFacts DEF Gate
  <2>3. GateGood'
    BY <1>2, <1>5, <2>1, <2>2 DEF GateGood
  <2>4. gate' \in Gate
    BY <1>2, <1>5, <2>1, WaiterFacts DEF Gate, GateGood
  <2> QED BY <1>1, <2>1, <2>2, <2>3, <2>4 DEF NoIdleSlot
<1>7. CASE gate.waiters # <<>>
  <2> DEFINE w == Head(gate.waiters)
             woken == [after[w] EXCEPT !.step = "woken"]
  <2>1. /\ gate' = [active |-> gate.active - 1, waiters |-> Tail(gate.waiters),
                    woken |-> gate.woken \cup {w}]
        /\ tasks' = [after EXCEPT ![w].step = "woken"]
    BY <1>7 DEF Release, after
  <2>2. /\ w = gate.waiters[1] /\ 1 \in DOMAIN gate.waiters /\ w \in Objects
        /\ Tail(gate.waiters) \in Seq(Objects)
        /\ DOMAIN Tail(gate.waiters) = 1..(Len(gate.waiters) - 1)
        /\ DOMAIN gate.waiters = 1..Len(gate.waiters) /\ Len(gate.waiters) \in Nat
        /\ \A i \in 1..(Len(gate.waiters) - 1) : Tail(gate.waiters)[i] = gate.waiters[i + 1]
    BY <1>7, WaiterFacts
  <2>3. tasks[w].step = "waiting" /\ w # o
    BY <1>2, <1>4, <2>2 DEF GateGood
  <2>4. woken \in Transfer /\ woken.step = "woken"
    BY <1>1, <2>2 DEF Transfer, Step
  <2>5. tasks' = [after EXCEPT ![w] = woken]
    BY <1>1, <2>1, <2>2
  <2> HIDE DEF w, woken
  <2>6. /\ tasks' \in [Objects -> Transfer] /\ tasks'[w] = woken /\ tasks'[o] = d
        /\ \A p \in Objects : p # o /\ p # w => tasks'[p] = tasks[p]
    BY <1>1, <2>2, <2>3, <2>4, <2>5
  <2>7. woken = [tasks[w] EXCEPT !.step = "woken"]
    BY <1>1, <2>2, <2>3 DEF woken
  <2>8. /\ gate'.active = gate.active - 1 /\ gate'.waiters = Tail(gate.waiters)
        /\ gate'.woken = gate.woken \cup {w}
    BY <2>1
  <2>9. Steps(tasks', Running) = Steps(after, Running)
    <3>1. tasks'[w].step \notin Running /\ after[w].step \notin Running
      BY <1>1, <2>2, <2>3, <2>4, <2>6 DEF Running
    <3> QED BY <1>1, <2>6, <3>1 DEF Steps
  <2>10. /\ Steps(tasks', Woken) = gate.woken \cup {w}
         /\ Cardinality(gate.woken \cup {w}) = Cardinality(gate.woken) + 1
    <3>1. Steps(tasks', Woken) = gate.woken \cup {w}
      BY <1>1, <1>2, <1>3, <1>4, <2>2, <2>4, <2>6 DEF Steps, Woken, GateGood
    <3>2. w \notin gate.woken
      BY <1>2, <2>3 DEF Steps, Woken, GateGood
    <3>3. IsFiniteSet(gate.woken)
      BY <1>2, StepsFinite DEF GateGood
    <3> QED BY <3>1, <3>2, <3>3, FS_AddElement
  <2>11. gate'.active = Cardinality(Steps(tasks', Running)) /\ gate'.woken = Steps(tasks', Woken)
    BY <1>2, <1>5, <2>8, <2>9, <2>10 DEF GateGood
  <2>12. \A i \in DOMAIN gate'.waiters :
           /\ tasks'[gate'.waiters[i]].step = "waiting"
           /\ \A j \in DOMAIN gate'.waiters : j # i => gate'.waiters[j] # gate'.waiters[i]
    <3> DEFINE q == gate.waiters
               r == gate'.waiters
    <3>1. \A i \in DOMAIN r : /\ i + 1 \in DOMAIN q /\ i + 1 # 1 /\ r[i] = q[i + 1]
                              /\ \A j \in DOMAIN r : j # i => j + 1 # i + 1
      BY <2>2, <2>8
    <3>2. \A i \in DOMAIN q : /\ tasks[q[i]].step = "waiting" /\ q[i] \in Objects
                              /\ \A j \in DOMAIN q : j # i => q[j] # q[i]
      BY <1>2, WaiterFacts DEF GateGood
    <3> HIDE DEF q, r
    <3>3. \A i \in DOMAIN r : r[i] \in Objects /\ r[i] # w /\ r[i] # o
                              /\ tasks[r[i]].step = "waiting"
      BY <1>4, <2>2, <3>1, <3>2 DEF q
    <3>4. \A i \in DOMAIN r : /\ tasks'[r[i]].step = "waiting"
                              /\ \A j \in DOMAIN r : j # i => r[j] # r[i]
      BY <2>6, <3>1, <3>2, <3>3
    <3> QED BY <3>4 DEF r
  <2>13. GateGood'
    BY <2>11, <2>12 DEF GateGood
  <2>14. gate' \in Gate
    BY <1>2, <1>5, <2>1, <2>2, WaiterFacts DEF Gate, GateGood
  <2>15. NoIdleSlot'
    <3>1. gate.active + Cardinality(gate.woken) >= Concurrency
      BY <1>2, <1>7 DEF NoIdleSlot
    <3>2. Cardinality(gate'.woken) = Cardinality(gate.woken) + 1 /\ Cardinality(gate.woken) \in Nat
      BY <1>2, <2>8, <2>10, StepsFinite DEF GateGood
    <3> QED BY <2>8, <3>1, <3>2, WaiterFacts, CopyConstants DEF NoIdleSlot
  <2> QED BY <2>2, <2>3, <2>6, <2>7, <2>13, <2>14, <2>15
<1> QED BY <1>6, <1>7

-----------------------------------------------------------------------------
(***************************************************************************)
(* The steps of a transfer.                                                *)
(***************************************************************************)

SameClasses == \A p \in Objects : tasks'[p].class = tasks[p].class

Classified(o) ==
  /\ tasks[o].class = "pending" /\ tasks'[o].class \in Class
  /\ \A p \in Objects : p # o => tasks'[p].class = tasks[p].class

\* What an aborting step has to find.
AbortFindsNothingWorked ==
  engine'.transferError = "systemic" /\ engine.transferError = "none" =>
    \A o, p \in Objects :
      tasks'[o].class # "pending" /\ tasks'[p].class # "pending" =>
        /\ tasks'[o].class = "failed"
        /\ tasks'[o].signature = tasks'[p].signature

LEMMA TypeParts ==
  CopyTypeOK <=>
    /\ engine \in Engine /\ gate \in Gate /\ tasks \in [Objects -> Transfer]
    /\ \A o \in Objects : /\ tasks[o].gets \in 0..(MaxAttempts - 1)
                          /\ tasks[o].tries \in 0..(MaxAttempts - 1)
    /\ window \in Window /\ progress \in [posting: BOOLEAN, broken: BOOLEAN]
    /\ gone \subseteq Objects
    /\ target \in [Objects -> {"absent", "theirs", "ours", "overwritten"}] /\ skip \in BOOLEAN
BY DEF CopyTypeOK

\* Where the engine is concerned a step may only take transfers out of the queue.
LEMMA EngineGoodKept ==
  ASSUME EngineGood, engine'.pc = engine.pc, engine'.bucket = engine.bucket,
         engine'.next = engine.next, engine'.raised = engine.raised,
         \A o \in Objects : /\ tasks'[o].step = "listed" <=> tasks[o].step = "listed"
                            /\ tasks[o].step = "done" => tasks'[o].step = "done"
  PROVE  EngineGood'
<1>1. Queued = {} => Queued' = {}
  BY DEF Queued
<1> QED BY <1>1 DEF EngineGood

LEMMA TargetTyped ==
  ASSUME NEW held \in [Objects -> Held]
  PROVE  held \in [Objects -> {"absent", "theirs", "ours", "overwritten"}]
BY DEF Held

\* A transfer goes on to t.
LEMMA AdvanceKeeps ==
  ASSUME CInv, NEW o \in Objects, tasks[o].step \in Running,
         NEW t \in Transfer, t.step \in Running,
         tasks' = [tasks EXCEPT ![o] = t],
         target' \in [Objects -> Held],
         \A p \in Objects : p # o => target'[p] = target[p],
         TaskGood(t, target'[o]),
         UNCHANGED <<engine, gate, window, progress, skip>>, gone' \subseteq Objects
  PROVE  CInv' /\ SameClasses /\ AbortFindsNothingWorked
<1>1. /\ TasksGood /\ GateGood /\ WindowGood /\ EngineGood /\ NoIdleSlot
      /\ tasks \in [Objects -> Transfer] /\ CopyTypeOK
  BY TypeParts DEF CInv
<1>2. /\ tasks' \in [Objects -> Transfer] /\ tasks'[o] = t
      /\ \A p \in Objects : p # o => tasks'[p] = tasks[p]
  BY <1>1
<1>3. t.step \notin {"listed", "waiting", "woken", "done"}
      /\ tasks[o].step \notin {"listed", "waiting", "woken", "done"}
  BY DEF Running
<1>4. TasksGood'
  BY <1>1, <1>2 DEF TasksGood
<1>5. tasks[o].class = "pending" /\ t.class = "pending"
  BY <1>1, <1>3 DEF TasksGood, TaskGood
<1>6. CopyTypeOK'
  <2>1. \A p \in Objects : /\ tasks'[p].gets \in 0..(MaxAttempts - 1)
                           /\ tasks'[p].tries \in 0..(MaxAttempts - 1)
    BY <1>4 DEF TasksGood, TaskGood
  <2> QED BY <1>1, <1>2, <2>1, TypeParts, TargetTyped DEF CopyTypeOK
<1>7. GateGood' /\ NoIdleSlot'
  <2>1. Steps(tasks', Running) = Steps(tasks, Running)
    BY <1>2 DEF Steps
  <2>2. Steps(tasks', Woken) = Steps(tasks, Woken)
    BY <1>2, <1>3 DEF Steps, Woken
  <2>3. \A p \in Objects : tasks[p].step = "waiting" => tasks'[p].step = "waiting"
    BY <1>2, <1>3
  <2>4. \A i \in DOMAIN gate.waiters : gate.waiters[i] \in Objects
    BY WaiterFacts
  <2> QED BY <1>1, <2>1, <2>2, <2>3, <2>4 DEF GateGood, NoIdleSlot
<1>8. WindowGood'
  BY <1>1, <1>2, <1>5 DEF WindowGood
<1>9. EngineGood'
  BY <1>1, <1>2, <1>3, EngineGoodKept
<1> QED BY <1>2, <1>4, <1>5, <1>6, <1>7, <1>8, <1>9
        DEF CInv, SameClasses, AbortFindsNothingWorked, Held

\* A transfer ends.
LEMMA TaskEndsKeeps ==
  ASSUME CInv, NEW o \in Objects, tasks[o].step \in Running,
         NEW class \in Class, NEW signature \in Signature \cup {NoSignature},
         TaskEnds(o, class, signature),
         target' \in [Objects -> Held],
         \A p \in Objects : p # o => target'[p] = target[p],
         class = "copied" => target'[o] = "ours",
         class = "existing" => target'[o] # "absent",
         class \in {"missing", "oversized"} => target'[o] # "ours",
         skip' = skip, gone' \subseteq Objects
  PROVE  CInv' /\ Classified(o) /\ AbortFindsNothingWorked /\ engine'.pc = engine.pc
<1> DEFINE d == Done(class, signature)
           narrowed == Narrow(class, signature)
<1>1. /\ TasksGood /\ GateGood /\ WindowGood /\ EngineGood /\ NoIdleSlot
      /\ tasks \in [Objects -> Transfer] /\ CopyTypeOK
      /\ engine \in Engine /\ window \in Window
      /\ progress \in [posting: BOOLEAN, broken: BOOLEAN]
  BY TypeParts DEF CInv
<1>2. /\ d \in Transfer /\ d.step = "done" /\ d.class = class /\ d.signature = signature
      /\ d.gets = 0 /\ d.tries = 0 /\ d.reason = "first"
  BY DEF Done, NewTransfer, Transfer, Step, Reason
<1>3. /\ window' = narrowed /\ Release([tasks EXCEPT ![o] = d])
      /\ IF class = "failed" /\ narrowed.open /\ narrowed.count >= MaxSystemic
         THEN Raise("systemic") /\ UNCHANGED progress
         ELSE IF progress.broken
         THEN Raise("progress") /\ UNCHANGED progress
         ELSE Emit(FALSE) /\ UNCHANGED engine
  BY DEF TaskEnds
<1> HIDE DEF d
<1>4. /\ tasks' \in [Objects -> Transfer] /\ tasks'[o] = d
      /\ \A p \in Objects : p # o =>
           \/ tasks'[p] = tasks[p]
           \/ /\ tasks[p].step = "waiting"
              /\ tasks'[p] = [tasks[p] EXCEPT !.step = "woken"]
      /\ gate' \in Gate /\ GateGood' /\ NoIdleSlot'
  BY <1>2, <1>3, ReleaseEffect
<1>5. \A p \in Objects : p # o =>
        /\ tasks'[p].class = tasks[p].class /\ tasks'[p].signature = tasks[p].signature
        /\ tasks'[p].gets = tasks[p].gets /\ tasks'[p].tries = tasks[p].tries
        /\ tasks'[p].reason = tasks[p].reason /\ tasks'[p].streamed = tasks[p].streamed
        /\ tasks'[p].body = tasks[p].body
        /\ \/ tasks'[p].step = tasks[p].step
           \/ tasks[p].step = "waiting" /\ tasks'[p].step = "woken"
  <2> SUFFICES ASSUME NEW p \in Objects, p # o,
                      tasks[p].step = "waiting",
                      tasks'[p] = [tasks[p] EXCEPT !.step = "woken"]
               PROVE  /\ tasks'[p].class = tasks[p].class
                      /\ tasks'[p].signature = tasks[p].signature
                      /\ tasks'[p].gets = tasks[p].gets /\ tasks'[p].tries = tasks[p].tries
                      /\ tasks'[p].reason = tasks[p].reason
                      /\ tasks'[p].streamed = tasks[p].streamed
                      /\ tasks'[p].body = tasks[p].body
                      /\ tasks'[p].step = "woken"
    BY <1>4
  <2>1. tasks[p] \in Transfer
    BY <1>1
  <2> QED BY <2>1 DEF Transfer
<1>6. TasksGood'
  <2>1. TaskGood(tasks'[o], target'[o])
    BY <1>2, <1>4, CopyConstants DEF TaskGood, Class
  <2>2. ASSUME NEW p \in Objects, p # o
        PROVE  TaskGood(tasks'[p], target'[p])
    <3>1. TaskGood(tasks[p], target[p]) /\ target'[p] = target[p]
      BY <1>1, <2>2 DEF TasksGood
    <3> QED BY <1>5, <2>2, <3>1 DEF TaskGood
  <2> QED BY <2>1, <2>2 DEF TasksGood
<1>7. narrowed \in Window
  <2>1. window.count + 1 \in Nat
    BY <1>1 DEF Window
  <2>2. /\ [window EXCEPT !.signature = signature, !.count = @ + 1] \in Window
        /\ [window EXCEPT !.open = FALSE] \in Window
    BY <1>1, <2>1 DEF Window
  <2> QED BY <1>1, <2>2 DEF Narrow
<1>8. /\ engine' \in Engine /\ engine'.pc = engine.pc /\ engine'.bucket = engine.bucket
      /\ engine'.next = engine.next /\ engine'.raised = engine.raised
      /\ progress' \in [posting: BOOLEAN, broken: BOOLEAN]
      /\ engine'.transferError = "systemic" /\ engine.transferError = "none" => narrowed.open
  <2> HIDE DEF narrowed
  <2>1. CASE UNCHANGED engine /\ Emit(FALSE)
    BY <1>1, <2>1 DEF Emit
  <2>2. CASE Raise("systemic") /\ UNCHANGED progress /\ narrowed.open
    BY <1>1, <2>2 DEF Raise, Engine, Error
  <2>3. CASE Raise("progress") /\ UNCHANGED progress
    BY <1>1, <2>3 DEF Raise, Engine, Error
  <2> QED BY <1>3, <2>1, <2>2, <2>3
<1>9. CopyTypeOK'
  <2>1. \A p \in Objects : /\ tasks'[p].gets \in 0..(MaxAttempts - 1)
                           /\ tasks'[p].tries \in 0..(MaxAttempts - 1)
    BY <1>6 DEF TasksGood, TaskGood
  <2> QED BY <1>1, <1>3, <1>4, <1>7, <1>8, <2>1, TargetTyped DEF CopyTypeOK
<1>10. WindowGood'
  <2> SUFFICES ASSUME narrowed.open, NEW p \in Objects, tasks'[p].class # "pending"
               PROVE  /\ tasks'[p].class = "failed"
                      /\ tasks'[p].signature = narrowed.signature
                      /\ narrowed.signature # NoSignature
    BY <1>3 DEF WindowGood
  <2>1. /\ window.open /\ class = "failed" /\ signature # NoSignature
        /\ window.signature \in {NoSignature, signature} /\ narrowed.signature = signature
    BY <1>1 DEF Narrow, Window
  <2> QED BY <1>1, <1>2, <1>4, <1>5, <2>1 DEF WindowGood
<1>11. EngineGood'
  <2>1. \A p \in Objects : /\ tasks'[p].step = "listed" <=> tasks[p].step = "listed"
                           /\ tasks[p].step = "done" => tasks'[p].step = "done"
    BY <1>2, <1>4, <1>5 DEF Running
  <2> QED BY <1>1, <1>8, <2>1, EngineGoodKept
<1>12. Classified(o)
  <2>1. tasks[o].class = "pending"
    BY <1>1 DEF TasksGood, TaskGood, Running
  <2> QED BY <1>2, <1>4, <1>5, <2>1 DEF Classified
<1>13. AbortFindsNothingWorked
  BY <1>3, <1>8, <1>10 DEF WindowGood, AbortFindsNothingWorked
<1>14. CInv'
  BY <1>4, <1>6, <1>9, <1>10, <1>11 DEF CInv, Held
<1> QED BY <1>8, <1>12, <1>13, <1>14

-----------------------------------------------------------------------------
(***************************************************************************)
(* One object, action by action.                                           *)
(***************************************************************************)

\* What a step means to the ledger: one more class, or a verdict.
LedgerStep ==
  \/ engine'.pc = engine.pc /\ \E o \in Objects : Classified(o)
  \/ /\ SameClasses
     /\ \/ engine'.pc = engine.pc
        \/ ~Over /\ engine'.pc # "returned"
        \/ engine.pc = "flush" /\ engine'.pc = "returned"

Kept == CInv' /\ AbortFindsNothingWorked /\ LedgerStep

LEMMA TaskFacts ==
  ASSUME CInv, NEW o \in Objects
  PROVE  /\ tasks[o] \in Transfer /\ TaskGood(tasks[o], target[o])
         /\ target \in [Objects -> Held] /\ gone \subseteq Objects
BY DEF CInv, TasksGood, CopyTypeOK

\* A transfer goes on, and nothing else happens but at the target.
LEMMA AdvancesTo ==
  ASSUME CInv, NEW o \in Objects, tasks[o].step \in Running,
         NEW t \in Transfer, t.step \in Running,
         Advance(o, t), Unchanged, TaskGood(t, target'[o]),
         target' \in [Objects -> Held],
         \A p \in Objects : p # o => target'[p] = target[p],
         skip' = skip, gone' \subseteq Objects
  PROVE  Kept
<1>1. tasks' = [tasks EXCEPT ![o] = t] /\ UNCHANGED <<engine, gate, window, progress, skip>>
  BY DEF Advance, Unchanged
<1>2. CInv' /\ SameClasses /\ AbortFindsNothingWorked
  BY <1>1, AdvanceKeeps
<1> QED BY <1>1, <1>2 DEF Kept, LedgerStep

\* A transfer ends, and nothing else happens but at the target.
LEMMA EndsAs ==
  ASSUME CInv, NEW o \in Objects, tasks[o].step \in Running,
         NEW class \in Class, NEW signature \in Signature \cup {NoSignature},
         TaskEnds(o, class, signature),
         target' \in [Objects -> Held],
         \A p \in Objects : p # o => target'[p] = target[p],
         class = "copied" => target'[o] = "ours",
         class = "existing" => target'[o] # "absent",
         class \in {"missing", "oversized"} => target'[o] # "ours",
         skip' = skip, gone' \subseteq Objects
  PROVE  Kept
<1>1. CInv' /\ Classified(o) /\ AbortFindsNothingWorked /\ engine'.pc = engine.pc
  BY TaskEndsKeeps
<1> QED BY <1>1 DEF Kept, LedgerStep

LEMMA ResolvesRequestKeeps ==
  ASSUME CInv, NEW o \in Objects, ResolvesRequest(o) PROVE Kept
<1> DEFINE t == [tasks[o] EXCEPT !.step = "get"]
<1>1. /\ tasks[o].step = "resolve" /\ Advance(o, t) /\ Unchanged
      /\ UNCHANGED <<gone, target, skip>>
  BY DEF ResolvesRequest, InCopy
<1>2. t \in Transfer /\ t.step = "get" /\ TaskGood(t, target[o])
  BY <1>1, TaskFacts DEF Transfer, TaskGood, Step
<1> HIDE DEF t
<1> QED BY <1>1, <1>2, TaskFacts, AdvancesTo DEF Running

LEMMA GetAgainKeeps ==
  ASSUME CInv, NEW o \in Objects, GetAgain(o) PROVE Kept
<1> DEFINE t == [tasks[o] EXCEPT !.gets = @ + 1]
<1>1. /\ tasks[o].step = "get" /\ Advance(o, t) /\ Unchanged
      /\ UNCHANGED <<gone, target, skip>> /\ tasks[o].gets < MaxAttempts - 1
  BY DEF GetAgain, InCopy, TriesLeft
<1>2. tasks[o].gets + 1 \in 0..(MaxAttempts - 1) /\ tasks[o].gets + 1 \in Nat
  BY <1>1, TaskFacts, CopyConstants DEF TaskGood
<1>3. t \in Transfer /\ t.step = "get" /\ TaskGood(t, target[o])
  BY <1>1, <1>2, TaskFacts DEF Transfer, TaskGood
<1> HIDE DEF t
<1> QED BY <1>1, <1>3, TaskFacts, AdvancesTo DEF Running

LEMMA GetSucceedsKeeps ==
  ASSUME CInv, NEW o \in Objects, GetSucceeds(o) PROVE Kept
<1>1. PICK streamed \in BOOLEAN :
        /\ tasks[o].step = "get" /\ Advance(o, Downloaded(tasks[o], streamed))
        /\ Unchanged /\ UNCHANGED <<gone, target, skip>>
  BY DEF GetSucceeds, InCopy
<1> DEFINE t == Downloaded(tasks[o], streamed)
<1>2. 0 \in 0..(MaxAttempts - 1)
  BY CopyConstants
<1>3. /\ tasks[o].reason = "first" /\ streamed =>
           t = [tasks[o] EXCEPT !.gets = 0, !.streamed = TRUE, !.body = "stream", !.step = "send"]
      /\ tasks[o].reason = "rebuild" =>
           t = [tasks[o] EXCEPT !.gets = 0, !.body = "stream", !.step = "send"]
      /\ tasks[o].reason # "rebuild" /\ ~(tasks[o].reason = "first" /\ streamed) =>
           t = [tasks[o] EXCEPT !.gets = 0, !.step = "read"]
  BY DEF Downloaded
<1>4. t \in Transfer /\ t.step \in {"send", "read"} /\ TaskGood(t, target[o])
  <2> HIDE DEF t
  <2>1. CASE tasks[o].reason = "first" /\ streamed
    <3>1. t = [tasks[o] EXCEPT !.gets = 0, !.streamed = TRUE, !.body = "stream", !.step = "send"]
      BY <1>3, <2>1
    <3>2. /\ t \in Transfer /\ t.step = "send" /\ t.reason = tasks[o].reason
          /\ t.gets = 0 /\ t.tries = tasks[o].tries /\ t.streamed = TRUE
          /\ t.body = "stream" /\ t.class = tasks[o].class
      BY <3>1, TaskFacts DEF Transfer, Step
    <3> QED BY <1>1, <1>2, <2>1, <3>2, TaskFacts DEF TaskGood
  <2>2. CASE tasks[o].reason = "rebuild"
    <3>1. t = [tasks[o] EXCEPT !.gets = 0, !.body = "stream", !.step = "send"]
      BY <1>3, <2>2
    <3>2. /\ t \in Transfer /\ t.step = "send" /\ t.reason = tasks[o].reason
          /\ t.gets = 0 /\ t.tries = tasks[o].tries /\ t.streamed = tasks[o].streamed
          /\ t.body = "stream" /\ t.class = tasks[o].class
      BY <3>1, TaskFacts DEF Transfer, Step
    <3> QED BY <1>1, <1>2, <2>2, <3>2, TaskFacts DEF TaskGood
  <2>3. CASE tasks[o].reason # "rebuild" /\ ~(tasks[o].reason = "first" /\ streamed)
    <3>1. t = [tasks[o] EXCEPT !.gets = 0, !.step = "read"]
      BY <1>3, <2>3
    <3>2. /\ t \in Transfer /\ t.step = "read" /\ t.reason = tasks[o].reason
          /\ t.gets = 0 /\ t.tries = tasks[o].tries /\ t.streamed = tasks[o].streamed
          /\ t.body = tasks[o].body /\ t.class = tasks[o].class
      BY <3>1, TaskFacts DEF Transfer, Step
    <3> QED BY <1>1, <1>2, <2>3, <3>2, TaskFacts DEF TaskGood
  <2> QED BY <2>1, <2>2, <2>3
<1> HIDE DEF t
<1> QED BY <1>1, <1>4, TaskFacts, AdvancesTo DEF Running, t

LEMMA ReadSucceedsKeeps ==
  ASSUME CInv, NEW o \in Objects, ReadSucceeds(o) PROVE Kept
<1> DEFINE t == [tasks[o] EXCEPT !.step = "send", !.body = "buffer", !.tries = 0]
<1>1. /\ tasks[o].step = "read" /\ Advance(o, t) /\ Unchanged
      /\ UNCHANGED <<gone, target, skip>>
  BY DEF ReadSucceeds, InCopy
<1>2. t \in Transfer /\ t.step = "send" /\ TaskGood(t, target[o])
  <2>1. /\ t \in Transfer /\ t.step = "send" /\ t.reason = tasks[o].reason
        /\ t.gets = tasks[o].gets /\ t.tries = 0 /\ t.streamed = tasks[o].streamed
        /\ t.body = "buffer" /\ t.class = tasks[o].class
    BY TaskFacts DEF Transfer, Step
  <2> HIDE DEF t
  <2> QED BY <1>1, <2>1, TaskFacts, CopyConstants DEF TaskGood
<1> HIDE DEF t
<1> QED BY <1>1, <1>2, TaskFacts, AdvancesTo DEF Running

LEMMA ReadFailsKeeps ==
  ASSUME CInv, NEW o \in Objects, ReadFails(o) PROVE Kept
<1> DEFINE t == [tasks[o] EXCEPT !.tries = @ + 1, !.step = "resolve", !.reason = "reread"]
<1>1. tasks[o].step = "read" /\ UNCHANGED <<gone, target, skip>>
  BY DEF ReadFails, InCopy
<1>2. CASE TriesLeft(tasks[o].tries)
  <2>1. tasks[o].tries + 1 \in 0..(MaxAttempts - 1) /\ tasks[o].tries + 1 \in Nat
    BY <1>2, TaskFacts, CopyConstants DEF TaskGood, TriesLeft
  <2>2. t \in Transfer /\ t.step = "resolve" /\ TaskGood(t, target[o])
    BY <1>1, <2>1, TaskFacts DEF Transfer, TaskGood, Step, Reason
  <2>3. Advance(o, t) /\ Unchanged
    BY <1>2 DEF ReadFails
  <2> HIDE DEF t
  <2> QED BY <1>1, <2>2, <2>3, TaskFacts, AdvancesTo DEF Running
<1>3. CASE ~TriesLeft(tasks[o].tries)
  <2>1. TaskEnds(o, "failed", NoSignature)
    BY <1>3 DEF ReadFails
  <2> QED BY <1>1, <2>1, TaskFacts, EndsAs DEF Running, Class
<1> QED BY <1>2, <1>3

\* The body that an attempt leaves behind.
LEMMA SpentFacts ==
  ASSUME NEW t \in Transfer
  PROVE  /\ Spent(t) \in Transfer /\ Spent(t).step = t.step /\ Spent(t).reason = t.reason
         /\ Spent(t).gets = t.gets /\ Spent(t).tries = t.tries
         /\ Spent(t).streamed = t.streamed /\ Spent(t).class = t.class
         /\ t.body # "stream" => Spent(t).body = t.body
BY DEF Spent, Transfer

\* An attempt of an upload fails: another one, or the end.
LEMMA UploadFailsKeeps ==
  ASSUME CInv, NEW o \in Objects, NEW signature \in Signature \cup {NoSignature},
         \/ tasks[o].step = "send"
         \/ tasks[o].step \in {"resolve", "get"} /\ tasks[o].reason = "rebuild",
         UploadFails(o, signature),
         target' \in [Objects -> Held],
         \A p \in Objects : p # o => target'[p] = target[p],
         skip' = skip, gone' \subseteq Objects
  PROVE  Kept
<1>1. tasks[o].step \in Running
  BY DEF Running
<1>2. CASE TriesLeft(tasks[o].tries)
  <2> DEFINE s == Spent(tasks[o])
             t == UploadAgain(s)
  <2>1. tasks[o].tries + 1 \in 0..(MaxAttempts - 1) /\ tasks[o].tries + 1 \in Nat
    BY <1>2, TaskFacts, CopyConstants DEF TaskGood, TriesLeft
  <2>2. /\ s \in Transfer /\ s.step = tasks[o].step /\ s.reason = tasks[o].reason
        /\ s.gets = tasks[o].gets /\ s.tries = tasks[o].tries
        /\ s.streamed = tasks[o].streamed /\ s.class = tasks[o].class
        /\ tasks[o].body # "stream" => s.body = tasks[o].body
    BY TaskFacts, SpentFacts
  <2>3. Advance(o, t) /\ Unchanged
    BY <1>2 DEF UploadFails
  <2> HIDE DEF s
  <2>4. t \in Transfer /\ t.step \in Running /\ TaskGood(t, target'[o])
    <3>1. CASE tasks[o].streamed
      <4>1. t = [s EXCEPT !.tries = @ + 1, !.gets = 0, !.step = "resolve",
                          !.reason = "rebuild", !.body = "none"]
        BY <2>2, <3>1 DEF UploadAgain
      <4> HIDE DEF t
      <4>2. /\ t \in Transfer /\ t.step = "resolve" /\ t.reason = "rebuild"
            /\ t.gets = 0 /\ t.tries = tasks[o].tries + 1
            /\ t.streamed = tasks[o].streamed /\ t.class = tasks[o].class
        BY <2>1, <2>2, <4>1 DEF Transfer, Step, Reason
      <4> QED BY <2>1, <3>1, <4>2, TaskFacts, CopyConstants DEF TaskGood, Running
    <3>2. CASE ~tasks[o].streamed
      <4>1. tasks[o].step = "send" /\ tasks[o].body = "buffer"
        BY <3>2, TaskFacts DEF TaskGood
      <4>2. t = [s EXCEPT !.tries = @ + 1]
        BY <2>2, <3>2 DEF UploadAgain
      <4> HIDE DEF t
      <4>3. /\ t \in Transfer /\ t.step = "send" /\ t.reason = tasks[o].reason
            /\ t.gets = tasks[o].gets /\ t.tries = tasks[o].tries + 1
            /\ t.streamed = tasks[o].streamed /\ t.class = tasks[o].class /\ t.body = "buffer"
        BY <2>1, <2>2, <4>1, <4>2 DEF Transfer
      <4> QED BY <2>1, <3>2, <4>1, <4>3, TaskFacts DEF TaskGood, Running
    <3> QED BY <3>1, <3>2
  <2> HIDE DEF t
  <2> QED BY <1>1, <2>3, <2>4, AdvancesTo
<1>3. CASE ~TriesLeft(tasks[o].tries)
  <2>1. TaskEnds(o, "failed", signature)
    BY <1>3 DEF UploadFails
  <2> QED BY <1>1, <2>1, EndsAs DEF Class
<1> QED BY <1>2, <1>3

\* The download of an object fails for good.
LEMMA DownloadFailsKeeps ==
  ASSUME CInv, NEW o \in Objects, NEW signature \in Signature \cup {NoSignature},
         tasks[o].step \in {"resolve", "get"}, DownloadFails(o, signature),
         UNCHANGED <<target, skip>>, gone' \subseteq Objects
  PROVE  Kept
<1>1. tasks[o].step \in Running
  BY DEF Running
<1>2. CASE tasks[o].reason = "rebuild"
  <2>1. UploadFails(o, NoSignature)
    BY <1>2 DEF DownloadFails
  <2> QED BY <1>2, <2>1, TaskFacts, UploadFailsKeeps
<1>3. CASE tasks[o].reason # "rebuild"
  <2>1. TaskEnds(o, "failed", signature)
    BY <1>3 DEF DownloadFails
  <2> QED BY <1>1, <2>1, TaskFacts, EndsAs DEF Class
<1> QED BY <1>2, <1>3

\* The object turns out to be gone at the source.
LEMMA GoneKeeps ==
  ASSUME CInv, NEW o \in Objects, tasks[o].step \in {"resolve", "get"},
         IF tasks[o].reason = "first" THEN TaskEnds(o, "missing", NoSignature)
                                      ELSE DownloadFails(o, NoSignature),
         UNCHANGED <<target, skip>>, gone' = gone \cup {o}
  PROVE  Kept
<1>1. tasks[o].step \in Running /\ gone' \subseteq Objects
  BY TaskFacts DEF Running
<1>2. CASE tasks[o].reason = "first"
  <2>1. target'[o] # "ours"
    BY <1>2, TaskFacts DEF TaskGood
  <2> QED BY <1>1, <1>2, <2>1, TaskFacts, EndsAs DEF Class
<1>3. CASE tasks[o].reason # "first"
  BY <1>1, <1>3, DownloadFailsKeeps
<1> QED BY <1>2, <1>3

LEMMA DownloadActionsKeep ==
  ASSUME CInv, NEW o \in Objects,
         ResolvesMissing(o) \/ ResolveThrows(o) \/ GetFinds404(o) \/ GetRefused(o)
  PROVE  Kept
<1>1. CASE ResolvesMissing(o)
  BY <1>1, GoneKeeps DEF ResolvesMissing, InCopy
<1>2. CASE ResolveThrows(o)
  BY <1>2, TaskFacts, DownloadFailsKeeps DEF ResolveThrows, InCopy
<1>3. CASE GetFinds404(o)
  BY <1>3, GoneKeeps DEF GetFinds404, InCopy
<1>4. CASE GetRefused(o)
  <2>1. PICK signature \in {NoSignature, "get"} : DownloadFails(o, signature)
    BY <1>4 DEF GetRefused
  <2>2. tasks[o].step = "get" /\ UNCHANGED <<gone, target, skip>>
    BY <1>4 DEF GetRefused, InCopy
  <2> QED BY <2>1, <2>2, TaskFacts, DownloadFailsKeeps DEF Signature
<1> QED BY <1>1, <1>2, <1>3, <1>4

LEMMA UploadActionsKeep ==
  ASSUME CInv, NEW o \in Objects,
         \/ UploadLost(o) \/ UploadApplied(o) \/ UploadFindsExisting(o)
         \/ UploadOversized(o) \/ UploadRefused(o)
  PROVE  Kept
<1>1. tasks[o].step = "send" /\ tasks[o].step \in Running
  BY DEF UploadLost, UploadApplied, UploadFindsExisting, UploadOversized, UploadRefused,
         InCopy, Running
<1>2. CASE UploadLost(o)
  BY <1>1, <1>2, TaskFacts, UploadFailsKeeps DEF UploadLost
<1>3. CASE UploadApplied(o)
  <2>1. /\ target' \in [Objects -> Held] /\ target'[o] = "ours"
        /\ \A p \in Objects : p # o => target'[p] = target[p]
        /\ UNCHANGED <<gone, skip>>
    <3>1. target' = [target EXCEPT ![o] = Stored(target[o])] /\ UNCHANGED <<gone, skip>>
      BY <1>3 DEF UploadApplied
    <3>2. Stored(target[o]) = "ours"
      BY <1>3, TaskFacts DEF UploadApplied, Accepts, Stored, Held
    <3> QED BY <3>1, <3>2, TaskFacts DEF Held
  <2>2. CASE TaskEnds(o, "copied", NoSignature)
    BY <1>1, <2>1, <2>2, TaskFacts, EndsAs DEF Class
  <2>3. CASE UploadFails(o, NoSignature)
    BY <1>1, <2>1, <2>3, TaskFacts, UploadFailsKeeps
  <2> QED BY <1>3, <2>2, <2>3 DEF UploadApplied
<1>4. CASE UploadFindsExisting(o)
  <2>1. target[o] # "absent" /\ TaskEnds(o, "existing", NoSignature)
        /\ UNCHANGED <<gone, target, skip>>
    BY <1>4 DEF UploadFindsExisting, Accepts
  <2> QED BY <1>1, <2>1, TaskFacts, EndsAs DEF Class
<1>5. CASE UploadOversized(o)
  <2>1. target[o] # "ours" /\ TaskEnds(o, "oversized", NoSignature)
        /\ UNCHANGED <<gone, target, skip>>
    BY <1>5 DEF UploadOversized
  <2> QED BY <1>1, <2>1, TaskFacts, EndsAs DEF Class
<1>6. CASE UploadRefused(o)
  <2>1. PICK signature \in {NoSignature, "send"} : TaskEnds(o, "failed", signature)
    BY <1>6 DEF UploadRefused
  <2>2. UNCHANGED <<gone, target, skip>>
    BY <1>6 DEF UploadRefused
  <2> QED BY <1>1, <2>1, <2>2, TaskFacts, EndsAs DEF Class, Signature
<1> QED BY <1>2, <1>3, <1>4, <1>5, <1>6

-----------------------------------------------------------------------------
(***************************************************************************)
(* The gate lets transfers in.                                             *)
(***************************************************************************)

\* Only the step of a transfer that has no class changes, to one that leaves it without.
LEMMA StepChanges ==
  ASSUME CInv, NEW o \in Objects, NEW step \in {"waiting", "resolve"},
         tasks[o].step \in {"listed", "woken"},
         tasks' = [tasks EXCEPT ![o].step = step], UNCHANGED <<target, window>>
  PROVE  /\ tasks' \in [Objects -> Transfer] /\ tasks'[o].step = step
         /\ \A p \in Objects : p # o => tasks'[p] = tasks[p]
         /\ SameClasses /\ TasksGood' /\ WindowGood'
<1> DEFINE t == [tasks[o] EXCEPT !.step = step]
<1>1. /\ t \in Transfer /\ t.step = step /\ t.reason = tasks[o].reason
      /\ t.gets = tasks[o].gets /\ t.tries = tasks[o].tries
      /\ t.streamed = tasks[o].streamed /\ t.class = tasks[o].class
  BY TaskFacts DEF Transfer, Step
<1>2. tasks' = [tasks EXCEPT ![o] = t]
  BY WaiterFacts
<1> HIDE DEF t
<1>3. /\ tasks' \in [Objects -> Transfer] /\ tasks'[o] = t
      /\ \A p \in Objects : p # o => tasks'[p] = tasks[p]
  BY <1>1, <1>2, WaiterFacts
<1>4. /\ tasks[o].class = "pending" /\ TaskGood(t, target[o])
  BY <1>1, TaskFacts DEF TaskGood
<1>5. TasksGood'
  BY <1>3, <1>4, TaskFacts DEF TasksGood
<1>6. SameClasses
  BY <1>1, <1>3 DEF SameClasses
<1>7. WindowGood'
  BY <1>1, <1>3, <1>4 DEF CInv, WindowGood
<1> QED BY <1>1, <1>3, <1>5, <1>6, <1>7

LEMMA WokenEntersKeeps ==
  ASSUME CInv, NEW o \in Objects, WokenEnters(o) PROVE Kept
<1>1. /\ o \in gate.woken
      /\ gate' = [gate EXCEPT !.active = @ + 1, !.woken = @ \ {o}]
      /\ tasks' = [tasks EXCEPT ![o].step = "resolve"]
      /\ UNCHANGED <<engine, window, progress, gone, target, skip>>
  BY DEF WokenEnters
<1>2. TasksGood /\ GateGood /\ WindowGood /\ EngineGood /\ NoIdleSlot /\ CopyTypeOK
  BY DEF CInv
<1>3. tasks[o].step = "woken"
  BY <1>1, <1>2 DEF GateGood, Steps, Woken
<1>4. /\ tasks' \in [Objects -> Transfer] /\ tasks'[o].step = "resolve"
      /\ \A p \in Objects : p # o => tasks'[p] = tasks[p]
      /\ SameClasses /\ TasksGood' /\ WindowGood'
  BY <1>1, <1>3, StepChanges
<1>5. /\ gate'.active = gate.active + 1 /\ gate'.waiters = gate.waiters
      /\ gate'.woken = gate.woken \ {o} /\ gate' \in Gate
  <2>1. gate.active + 1 \in Nat /\ gate.woken \ {o} \in SUBSET Objects
    BY WaiterFacts
  <2> QED BY <1>1, <2>1, WaiterFacts DEF Gate
<1>6. Cardinality(Steps(tasks', Running)) = Cardinality(Steps(tasks, Running)) + 1
  <2>1. tasks[o].step \notin Running /\ tasks'[o].step \in Running
    BY <1>3, <1>4 DEF Running
  <2>2. \A p \in Objects : p # o => (tasks[p].step \in Running <=> tasks'[p].step \in Running)
    BY <1>4
  <2> QED BY <2>1, <2>2, StepsChange
<1>7. Steps(tasks', Woken) = Steps(tasks, Woken) \ {o}
  <2>1. tasks'[o].step \notin Woken
    BY <1>4 DEF Woken
  <2> QED BY <1>4, <2>1 DEF Steps
<1>8. GateGood'
  <2>1. \A i \in DOMAIN gate.waiters : gate.waiters[i] \in Objects /\ gate.waiters[i] # o
    BY <1>2, <1>3, WaiterFacts DEF GateGood
  <2> QED BY <1>2, <1>4, <1>5, <1>6, <1>7, <2>1 DEF GateGood
<1>9. NoIdleSlot'
  <2>1. IsFiniteSet(gate.woken) /\ Cardinality(gate.woken) \in Nat
    BY <1>2, StepsFinite DEF GateGood
  <2>2. Cardinality(gate.woken \ {o}) = Cardinality(gate.woken) - 1
    BY <1>1, <2>1, FS_RemoveElement
  <2> QED BY <1>2, <1>5, <2>1, <2>2, WaiterFacts DEF NoIdleSlot
<1>10. EngineGood'
  <2>1. \A p \in Objects : /\ tasks'[p].step = "listed" <=> tasks[p].step = "listed"
                           /\ tasks[p].step = "done" => tasks'[p].step = "done"
    BY <1>3, <1>4
  <2> QED BY <1>1, <1>2, <2>1, EngineGoodKept
<1>11. CopyTypeOK'
  <2>1. \A p \in Objects : /\ tasks'[p].gets \in 0..(MaxAttempts - 1)
                           /\ tasks'[p].tries \in 0..(MaxAttempts - 1)
    BY <1>4 DEF TasksGood, TaskGood
  <2> QED BY <1>1, <1>2, <1>4, <1>5, <2>1 DEF CopyTypeOK
<1> QED BY <1>1, <1>4, <1>8, <1>9, <1>10, <1>11
        DEF CInv, Kept, LedgerStep, AbortFindsNothingWorked, Held

\* The next object asks for a slot, and waits or gets it.
LEMMA AcquireEffect ==
  ASSUME CInv, NEW o \in Objects, tasks[o].step = "listed", Acquire(o),
         UNCHANGED <<target, window>>
  PROVE  /\ tasks' \in [Objects -> Transfer] /\ tasks'[o].step \in {"waiting", "resolve"}
         /\ \A p \in Objects : p # o => tasks'[p] = tasks[p]
         /\ SameClasses /\ TasksGood' /\ WindowGood'
         /\ gate' \in Gate /\ GateGood' /\ NoIdleSlot'
<1>1. GateGood /\ NoIdleSlot
  BY DEF CInv
<1>2. CASE gate.active >= Concurrency
  <2>1. /\ gate' = [gate EXCEPT !.waiters = Append(@, o)]
        /\ tasks' = [tasks EXCEPT ![o].step = "waiting"]
    BY <1>2 DEF Acquire
  <2>2. /\ tasks' \in [Objects -> Transfer] /\ tasks'[o].step = "waiting"
        /\ \A p \in Objects : p # o => tasks'[p] = tasks[p]
        /\ SameClasses /\ TasksGood' /\ WindowGood'
    BY <2>1, StepChanges
  <2> DEFINE q == gate.waiters
             r == Append(q, o)
  <2>3. /\ q \in Seq(Objects) /\ r \in Seq(Objects) /\ Len(q) \in Nat
        /\ DOMAIN q = 1..Len(q) /\ DOMAIN r = 1..(Len(q) + 1)
        /\ \A i \in 1..Len(q) : r[i] = q[i] /\ q[i] \in Objects
        /\ r[Len(q) + 1] = o
    BY WaiterFacts
  <2>4. /\ gate'.active = gate.active /\ gate'.waiters = r
        /\ gate'.woken = gate.woken /\ gate' \in Gate
    BY <2>1, <2>3, WaiterFacts DEF Gate
  <2> HIDE DEF q, r
  <2>5. Steps(tasks', Running) = Steps(tasks, Running) /\ Steps(tasks', Woken) = Steps(tasks, Woken)
    <3>1. tasks'[o].step \notin Running /\ tasks[o].step \notin Running
      BY <2>2 DEF Running
    <3>2. tasks'[o].step \notin Woken /\ tasks[o].step \notin Woken
      BY <2>2 DEF Woken
    <3> QED BY <2>2, <3>1, <3>2 DEF Steps
  <2>6. \A i \in DOMAIN r : /\ tasks'[r[i]].step = "waiting"
                            /\ \A j \in DOMAIN r : j # i => r[j] # r[i]
    <3>1. \A i \in DOMAIN q : /\ tasks[q[i]].step = "waiting" /\ q[i] # o
                              /\ \A j \in DOMAIN q : j # i => q[j] # q[i]
      BY <1>1 DEF GateGood, q
    <3>2. \A i \in DOMAIN r : i \in DOMAIN q \/ i = Len(q) + 1
      BY <2>3
    <3> QED BY <2>2, <2>3, <3>1, <3>2
  <2>7. GateGood'
    BY <1>1, <2>4, <2>5, <2>6 DEF GateGood
  <2>8. NoIdleSlot'
    <3>1. Cardinality(gate.woken) \in Nat
      BY <1>1, StepsFinite DEF GateGood
    <3> QED BY <1>2, <2>4, <3>1, WaiterFacts, CopyConstants DEF NoIdleSlot
  <2> QED BY <2>2, <2>4, <2>7, <2>8
<1>3. CASE ~(gate.active >= Concurrency)
  <2>1. /\ gate' = [gate EXCEPT !.active = @ + 1]
        /\ tasks' = [tasks EXCEPT ![o].step = "resolve"]
    BY <1>3 DEF Acquire
  <2>2. /\ tasks' \in [Objects -> Transfer] /\ tasks'[o].step = "resolve"
        /\ \A p \in Objects : p # o => tasks'[p] = tasks[p]
        /\ SameClasses /\ TasksGood' /\ WindowGood'
    BY <2>1, StepChanges
  <2>3. /\ gate'.active = gate.active + 1 /\ gate'.waiters = gate.waiters
        /\ gate'.woken = gate.woken /\ gate' \in Gate
    BY <2>1, WaiterFacts DEF Gate
  <2>4. Cardinality(Steps(tasks', Running)) = Cardinality(Steps(tasks, Running)) + 1
    <3>1. tasks[o].step \notin Running /\ tasks'[o].step \in Running
      BY <2>2 DEF Running
    <3>2. \A p \in Objects : p # o => (tasks[p].step \in Running <=> tasks'[p].step \in Running)
      BY <2>2
    <3> DEFINE now == tasks
               next == tasks'
    <3>3. /\ now[o].step \notin Running /\ next[o].step \in Running
          /\ \A p \in Objects : p # o => (now[p].step \in Running <=> next[p].step \in Running)
      BY <3>1, <3>2
    <3> HIDE DEF now, next
    <3>4. Cardinality(Steps(next, Running)) = Cardinality(Steps(now, Running)) + 1
      BY <3>3, StepsChange
    <3> QED BY <3>4 DEF now, next
  <2>5. Steps(tasks', Woken) = Steps(tasks, Woken)
    <3>1. tasks'[o].step \notin Woken /\ tasks[o].step \notin Woken
      BY <2>2 DEF Woken
    <3> QED BY <2>2, <3>1 DEF Steps
  <2>6. GateGood'
    <3>1. \A i \in DOMAIN gate.waiters : gate.waiters[i] \in Objects /\ gate.waiters[i] # o
      BY <1>1, WaiterFacts DEF GateGood
    <3> QED BY <1>1, <2>2, <2>3, <2>4, <2>5, <3>1 DEF GateGood
  <2>7. NoIdleSlot'
    <3>1. Cardinality(gate.woken) \in Nat
      BY <1>1, StepsFinite DEF GateGood
    <3> QED BY <1>1, <2>3, <3>1, WaiterFacts, CopyConstants DEF NoIdleSlot
  <2> QED BY <2>2, <2>3, <2>6, <2>7
<1> QED BY <1>2, <1>3

-----------------------------------------------------------------------------
(***************************************************************************)
(* The engine.                                                             *)
(***************************************************************************)

LEMMA EngineFacts ==
  ASSUME CInv
  PROVE  /\ engine \in Engine /\ EngineGood /\ engine.next \in Nat
         /\ engine.bucket \in 1..(NumBuckets + 1) /\ NumBuckets \in Nat
         /\ progress \in [posting: BOOLEAN, broken: BOOLEAN]
BY CopyConstants DEF CInv, CopyTypeOK, Engine

LEMMA EmitTyped ==
  ASSUME CInv, NEW forced \in BOOLEAN, Emit(forced)
  PROVE  progress' \in [posting: BOOLEAN, broken: BOOLEAN]
BY EngineFacts DEF Emit

\* The engine moves, and the transfers do not.
LEMMA EngineMoves ==
  ASSUME CInv, EngineOnly, engine' \in Engine, EngineGood',
         engine'.transferError = engine.transferError,
         progress' \in [posting: BOOLEAN, broken: BOOLEAN]
  PROVE  CInv' /\ SameClasses /\ AbortFindsNothingWorked
<1>1. UNCHANGED <<gate, tasks, window, gone, target, skip>>
  BY DEF EngineOnly
<1>2. CopyTypeOK'
  BY <1>1 DEF CInv, CopyTypeOK
<1>3. TasksGood' /\ WindowGood' /\ NoIdleSlot'
  BY <1>1 DEF CInv, TasksGood, WindowGood, NoIdleSlot
<1>4. GateGood'
  <2>1. Steps(tasks', Running) = Steps(tasks, Running) /\ Steps(tasks', Woken) = Steps(tasks, Woken)
    BY <1>1
  <2> QED BY <1>1, <2>1 DEF CInv, GateGood
<1> QED BY <1>1, <1>2, <1>3, <1>4 DEF CInv, SameClasses, AbortFindsNothingWorked, Held

\* The engine throws, once the queue is empty.
LEMMA ThrowKeeps ==
  ASSUME CInv, NEW error \in Error, Throw(error), Queued = {}, ~Over, EngineOnly,
         progress' \in [posting: BOOLEAN, broken: BOOLEAN]
  PROVE  Kept
<1>1. /\ engine' \in Engine /\ engine'.pc = "thrown" /\ engine'.next = engine.next
      /\ engine'.transferError = engine.transferError
  BY EngineFacts DEF Throw, Engine
<1>2. Queued' = {} /\ UNCHANGED tasks
  BY DEF Queued, EngineOnly
<1>3. EngineGood'
  BY <1>1, <1>2, EngineFacts DEF EngineGood
<1> QED BY <1>1, <1>3, EngineMoves DEF Kept, LedgerStep

\* The engine stops listing with an error, or at the end of the bucket.
LEMMA StopListingKeeps ==
  ASSUME CInv, NEW error \in Error, StopListing(error), engine.pc = "scan", EngineOnly,
         error = "none" => ~InBucket(engine.next),
         progress' \in [posting: BOOLEAN, broken: BOOLEAN]
  PROVE  Kept
<1>1. /\ engine' \in Engine /\ engine'.pc = "settle" /\ engine'.next = engine.next
      /\ engine'.transferError = engine.transferError /\ engine'.raised = error
      /\ engine'.bucket = engine.bucket
  BY EngineFacts DEF StopListing, Engine
<1>2. UNCHANGED tasks
  BY DEF EngineOnly
<1>3. ASSUME error = "none", NEW o \in Objects, o >= engine.next
      PROVE  BucketOf[o] > engine.bucket
  <2>1. engine.next \in Objects
    BY <1>3, ObjectsAreNumbers, EngineFacts DEF EngineGood
  <2>2. BucketOf[engine.next] >= engine.bucket /\ BucketOf[engine.next] # engine.bucket
    BY <1>3, <2>1, EngineFacts DEF EngineGood, InBucket
  <2>3. BucketOf[engine.next] <= BucketOf[o]
    BY <1>3, <2>1, CopyConstants
  <2> QED BY <2>1, <2>2, <2>3, ObjectsAreNumbers, EngineFacts DEF Buckets
<1>4. EngineGood'
  BY <1>1, <1>2, <1>3, EngineFacts DEF EngineGood
<1> QED BY <1>1, <1>4, EngineMoves DEF Kept, LedgerStep, Over

LEMMA ListBucketsKeeps ==
  ASSUME CInv, ListBuckets PROVE Kept
<1>1. engine.pc = "list" /\ EngineOnly /\ Queued = {} /\ ~Over
  BY EngineFacts DEF ListBuckets, EngineGood, Over
<1>2. CASE Go("bucket") /\ Emit(Objects # {})
  <2>1. /\ engine' \in Engine /\ engine'.pc = "bucket" /\ engine'.next = engine.next
        /\ engine'.transferError = engine.transferError /\ engine'.bucket = engine.bucket
    BY <1>2, EngineFacts DEF Go, Engine
  <2>2. Queued' = {} /\ UNCHANGED tasks
    BY <1>1 DEF Queued, EngineOnly
  <2>3. EngineGood'
    BY <1>1, <2>1, <2>2, EngineFacts DEF EngineGood
  <2>4. progress' \in [posting: BOOLEAN, broken: BOOLEAN]
    BY <1>2, EmitTyped
  <2> QED BY <1>1, <2>1, <2>3, <2>4, EngineMoves DEF Kept, LedgerStep
<1>3. CASE Throw("listing") /\ UNCHANGED progress
  BY <1>1, <1>3, EngineFacts, ThrowKeeps DEF Error
<1> QED BY <1>2, <1>3 DEF ListBuckets

LEMMA PrepareBucketKeeps ==
  ASSUME CInv, PrepareBucket PROVE Kept
<1>1. /\ engine.pc = "bucket" /\ engine.bucket <= NumBuckets /\ EngineOnly /\ Queued = {}
      /\ ~Over /\ UNCHANGED progress
  BY EngineFacts DEF PrepareBucket, EngineGood, Over
<1>2. CASE Go("scan")
  <2>1. /\ engine' \in Engine /\ engine'.pc = "scan" /\ engine'.next = engine.next
        /\ engine'.transferError = engine.transferError /\ engine'.bucket = engine.bucket
    BY <1>2, EngineFacts DEF Go, Engine
  <2>2. UNCHANGED tasks
    BY <1>1 DEF EngineOnly
  <2>3. EngineGood'
    BY <1>1, <2>1, <2>2, EngineFacts DEF EngineGood
  <2> QED BY <1>1, <2>1, <2>3, EngineFacts, EngineMoves DEF Kept, LedgerStep
<1>3. CASE Throw("listing")
  BY <1>1, <1>3, EngineFacts, ThrowKeeps DEF Error
<1> QED BY <1>2, <1>3 DEF PrepareBucket

LEMMA QueueTransferKeeps ==
  ASSUME CInv, QueueTransfer PROVE Kept
<1> DEFINE o == engine.next
<1>1. /\ engine.pc = "scan" /\ o \in Objects
      /\ engine' = [engine EXCEPT !.next = @ + 1] /\ Acquire(o)
      /\ IF progress.broken THEN UNCHANGED progress ELSE Emit(FALSE)
      /\ UNCHANGED <<window, gone, target, skip>>
  BY DEF QueueTransfer, InBucket
<1>2. /\ engine' \in Engine /\ engine'.pc = "scan" /\ engine'.next = engine.next + 1
      /\ engine'.transferError = engine.transferError /\ engine'.bucket = engine.bucket
      /\ engine'.raised = engine.raised
  BY <1>1, EngineFacts DEF Engine
<1>3. progress' \in [posting: BOOLEAN, broken: BOOLEAN]
  BY <1>1, EngineFacts, EmitTyped
<1>4. tasks[o].step = "listed"
  BY <1>1, EngineFacts DEF EngineGood
<1>5. /\ tasks' \in [Objects -> Transfer] /\ tasks'[o].step \in {"waiting", "resolve"}
      /\ \A p \in Objects : p # o => tasks'[p] = tasks[p]
      /\ SameClasses /\ TasksGood' /\ WindowGood'
      /\ gate' \in Gate /\ GateGood' /\ NoIdleSlot'
  BY <1>1, <1>4, AcquireEffect
<1>6. EngineGood'
  <2>1. o \in Nat /\ o <= Len(BucketOf)
    BY <1>1, ObjectsAreNumbers
  <2>2. \A p \in Objects : tasks'[p].step = "listed" <=> p >= o + 1
    BY <1>1, <1>5, <2>1, ObjectsAreNumbers, EngineFacts DEF EngineGood
  <2>3. \A p \in Objects : p >= o + 1 => BucketOf[p] >= engine.bucket
    BY <1>1, <2>1, ObjectsAreNumbers, EngineFacts DEF EngineGood
  <2>4. engine'.next \in 1..(Len(BucketOf) + 1)
    BY <1>2, <2>1, ObjectsAreNumbers
  <2> QED BY <1>1, <1>2, <2>2, <2>3, <2>4, EngineFacts DEF EngineGood
<1>7. CopyTypeOK'
  <2>1. \A p \in Objects : /\ tasks'[p].gets \in 0..(MaxAttempts - 1)
                           /\ tasks'[p].tries \in 0..(MaxAttempts - 1)
    BY <1>5 DEF TasksGood, TaskGood
  <2>2. /\ window \in Window /\ gone \subseteq Objects /\ skip \in BOOLEAN
        /\ target \in [Objects -> {"absent", "theirs", "ours", "overwritten"}]
    BY TypeParts DEF CInv
  <2>3. UNCHANGED <<window, gone, target, skip>>
    BY <1>1
  <2> QED BY <1>2, <1>3, <1>5, <2>1, <2>2, <2>3 DEF CopyTypeOK
<1> QED BY <1>1, <1>2, <1>5, <1>6, <1>7
        DEF CInv, Kept, LedgerStep, AbortFindsNothingWorked, Held

LEMMA ListingActionsKeep ==
  ASSUME CInv, StopQueuing \/ ListingFails \/ ListingEnds PROVE Kept
<1>1. engine.pc = "scan" /\ EngineOnly /\ engine.transferError \in Error
  BY EngineFacts DEF StopQueuing, ListingFails, ListingEnds, Engine
<1>2. CASE StopQueuing
  <2>1. \/ engine.transferError # "none" /\ StopListing(engine.transferError)
        \/ StopListing("progress")
    BY <1>2 DEF StopQueuing
  <2>2. UNCHANGED progress
    BY <1>2 DEF StopQueuing
  <2> QED BY <1>1, <2>1, <2>2, EngineFacts, StopListingKeeps DEF Error
<1>3. CASE ListingFails
  BY <1>1, <1>3, EngineFacts, StopListingKeeps DEF ListingFails, Error
<1>4. CASE ListingEnds
  <2>1. CASE progress.broken
    BY <1>1, <1>4, <2>1, EngineFacts, StopListingKeeps DEF ListingEnds, Error
  <2>2. CASE ~progress.broken
    <3>1. StopListing("none") /\ Emit(FALSE) /\ ~InBucket(engine.next)
      BY <1>4, <2>2 DEF ListingEnds
    <3>2. progress' \in [posting: BOOLEAN, broken: BOOLEAN]
      BY <3>1, EmitTyped
    <3> QED BY <1>1, <3>1, <3>2, StopListingKeeps DEF Error
  <2> QED BY <2>1, <2>2
<1> QED BY <1>2, <1>3, <1>4

LEMMA SettleBucketKeeps ==
  ASSUME CInv, SettleBucket PROVE Kept
<1> DEFINE error == IF engine.raised # "none" THEN engine.raised
                    ELSE IF engine.transferError # "none" THEN engine.transferError
                    ELSE IF progress.broken THEN "progress" ELSE "none"
<1>1. /\ engine.pc = "settle" /\ Queued = {} /\ EngineOnly /\ ~Over
      /\ IF error # "none" THEN Throw(error) /\ UNCHANGED progress
         ELSE /\ engine' = [engine EXCEPT !.pc = "bucket", !.bucket = @ + 1]
              /\ Emit(TRUE)
  BY DEF SettleBucket, Settled, Over
<1>2. error \in Error /\ (error = "none" => engine.raised = "none")
  BY EngineFacts DEF Engine, Error
<1> HIDE DEF error
<1>3. CASE error # "none"
  BY <1>1, <1>2, <1>3, EngineFacts, ThrowKeeps
<1>4. CASE error = "none"
  <2>1. engine.bucket + 1 \in 1..(NumBuckets + 1)
    BY <1>1, EngineFacts DEF EngineGood
  <2>2. /\ engine' \in Engine /\ engine'.pc = "bucket" /\ engine'.next = engine.next
        /\ engine'.transferError = engine.transferError /\ engine'.bucket = engine.bucket + 1
    <3>1. engine' = [engine EXCEPT !.pc = "bucket", !.bucket = engine.bucket + 1]
      BY <1>1, <1>4, EngineFacts
    <3> QED BY <2>1, <3>1, EngineFacts DEF Engine
  <2>3. Queued' = {} /\ UNCHANGED tasks
    BY <1>1 DEF Queued, EngineOnly
  <2>4. \A o \in Objects : o >= engine.next => BucketOf[o] >= engine.bucket + 1
    BY <1>1, <1>2, <1>4, ObjectsAreNumbers, EngineFacts DEF EngineGood, Buckets
  <2>5. EngineGood'
    BY <2>2, <2>3, <2>4, EngineFacts DEF EngineGood
  <2>6. progress' \in [posting: BOOLEAN, broken: BOOLEAN]
    BY <1>1, <1>4, EmitTyped
  <2> QED BY <1>1, <2>2, <2>5, <2>6, EngineMoves DEF Kept, LedgerStep
<1> QED BY <1>3, <1>4

LEMMA LastBucketDoneKeeps ==
  ASSUME CInv, LastBucketDone PROVE Kept
<1>1. /\ engine.pc = "bucket" /\ engine.bucket > NumBuckets /\ EngineOnly /\ ~Over
      /\ Queued = {}
      /\ IF progress.broken THEN Throw("progress") /\ UNCHANGED progress
                            ELSE Go("flush") /\ Emit(TRUE)
  BY EngineFacts DEF LastBucketDone, EngineGood, Over
<1>2. CASE progress.broken
  BY <1>1, <1>2, EngineFacts, ThrowKeeps DEF Error
<1>3. CASE ~progress.broken
  <2>1. /\ engine' \in Engine /\ engine'.pc = "flush" /\ engine'.next = engine.next
        /\ engine'.transferError = engine.transferError
    BY <1>1, <1>3, EngineFacts DEF Go, Engine
  <2>2. Queued' = {} /\ UNCHANGED tasks
    BY <1>1 DEF Queued, EngineOnly
  <2>3. \A o \in Objects : o < engine.next
    <3> SUFFICES ASSUME NEW o \in Objects, o >= engine.next PROVE FALSE
      BY ObjectsAreNumbers, EngineFacts
    <3>1. BucketOf[o] >= engine.bucket
      BY <1>1, EngineFacts DEF EngineGood
    <3>2. BucketOf[o] \in 1..NumBuckets
      BY ObjectsAreNumbers DEF Buckets
    <3> QED BY <1>1, <3>1, <3>2, EngineFacts
  <2>4. EngineGood'
    BY <2>1, <2>2, <2>3, EngineFacts DEF EngineGood
  <2>5. progress' \in [posting: BOOLEAN, broken: BOOLEAN]
    BY <1>1, <1>3, EmitTyped
  <2> QED BY <1>1, <2>1, <2>4, <2>5, EngineMoves DEF Kept, LedgerStep
<1> QED BY <1>2, <1>3

LEMMA ReturnKeeps ==
  ASSUME CInv, Return PROVE Kept
<1>1. /\ engine.pc = "flush" /\ EngineOnly /\ ~Over /\ Queued = {} /\ UNCHANGED progress
      /\ Throw("progress") \/ Go("returned")
  BY EngineFacts DEF Return, EngineGood, Over
<1>2. CASE Throw("progress")
  BY <1>1, <1>2, EngineFacts, ThrowKeeps DEF Error
<1>3. CASE Go("returned")
  <2>1. /\ engine' \in Engine /\ engine'.pc = "returned" /\ engine'.next = engine.next
        /\ engine'.transferError = engine.transferError
    BY <1>3, EngineFacts DEF Go, Engine
  <2>2. Queued' = {} /\ UNCHANGED tasks
    BY <1>1 DEF Queued, EngineOnly
  <2>3. EngineGood'
    BY <1>1, <2>1, <2>2, EngineFacts DEF EngineGood
  <2> QED BY <1>1, <2>1, <2>3, EngineFacts, EngineMoves DEF Kept, LedgerStep
<1> QED BY <1>1, <1>2, <1>3

LEMMA PostsKeep ==
  ASSUME CInv, PostsSettle \/ PostFails \/ UNCHANGED vars PROVE Kept
<1>1. UNCHANGED <<engine, gate, tasks, window, gone, target, skip>>
  BY DEF PostsSettle, PostFails, vars
<1>2. progress' \in [posting: BOOLEAN, broken: BOOLEAN]
  BY EngineFacts DEF PostsSettle, PostFails, vars
<1>3. EngineGood'
  BY <1>1, EngineFacts DEF EngineGood, Queued
<1> QED BY <1>1, <1>2, <1>3, EngineFacts, EngineMoves DEF Kept, LedgerStep, EngineOnly

-----------------------------------------------------------------------------
(***************************************************************************)
(* The theorems.                                                           *)
(***************************************************************************)

LEMMA InitCInv == Init => CInv
<1> SUFFICES ASSUME Init PROVE CInv
  OBVIOUS
<1>1. /\ NewTransfer \in Transfer /\ NewTransfer.step = "listed" /\ NewTransfer.gets = 0
      /\ NewTransfer.tries = 0 /\ NewTransfer.reason = "first" /\ NewTransfer.class = "pending"
  BY DEF NewTransfer, Transfer, Step, Reason
<1>2. \A o \in Objects : tasks[o] = NewTransfer
  BY DEF Init
<1>3. /\ target \in [Objects -> Held] /\ \A o \in Objects : target[o] # "ours"
      /\ target \in [Objects -> {"absent", "theirs", "ours", "overwritten"}]
  <2> DEFINE held == IF skip THEN {"absent", "theirs"} ELSE {"absent"}
  <2>1. /\ target \in [Objects -> held]
        /\ held \subseteq Held /\ held \subseteq {"absent", "theirs"}
    BY DEF Init, Held
  <2> HIDE DEF held
  <2> QED BY <2>1, TargetTyped
<1> HIDE DEF NewTransfer
<1>4. TasksGood
  BY <1>1, <1>2, <1>3, CopyConstants DEF TasksGood, TaskGood
<1>5. CopyTypeOK
  <2>1. tasks \in [Objects -> Transfer]
    BY <1>1 DEF Init
  <2>2. engine \in Engine /\ window \in Window /\ gate \in Gate
    BY CopyConstants DEF Init, Engine, Window, Gate, Error
  <2> QED BY <1>3, <1>4, <2>1, <2>2 DEF Init, CopyTypeOK, TasksGood, TaskGood
<1>6. GateGood
  <2>1. \A o \in Objects : tasks[o].step \notin Running /\ tasks[o].step \notin Woken
    BY <1>1, <1>2 DEF Running, Woken
  <2>2. Steps(tasks, Running) = {} /\ Steps(tasks, Woken) = {}
    BY <2>1 DEF Steps
  <2>3. Cardinality({}) = 0
    BY FS_EmptySet
  <2>4. gate.active = 0 /\ gate.woken = {} /\ gate.waiters = <<>>
    BY DEF Init
  <2> QED BY <2>2, <2>3, <2>4 DEF GateGood
<1>7. WindowGood /\ NoIdleSlot
  BY <1>1, <1>2 DEF Init, WindowGood, NoIdleSlot
<1>8. EngineGood
  <2>1. Queued = {}
    BY <1>1, <1>2 DEF Queued
  <2>2. \A o \in Objects : o >= 1 /\ BucketOf[o] >= 1
    BY ObjectsAreNumbers DEF Buckets
  <2> QED BY <1>1, <1>2, <2>1, <2>2, ObjectsAreNumbers DEF Init, EngineGood
<1> QED BY <1>3, <1>4, <1>5, <1>6, <1>7, <1>8 DEF CInv

\* Every step keeps the invariant, aborts only with reason, and is one of the ledger.
LEMMA NextKeeps == CInv /\ [Next]_vars => Kept
<1> SUFFICES ASSUME CInv, [Next]_vars PROVE Kept
  OBVIOUS
<1>1. CASE EngineSteps
  BY <1>1, ListBucketsKeeps, PrepareBucketKeeps, QueueTransferKeeps, ListingActionsKeep,
     SettleBucketKeeps, LastBucketDoneKeeps, ReturnKeeps DEF EngineSteps
<1>2. CASE PostsSettle \/ PostFails \/ UNCHANGED vars
  BY <1>2, PostsKeep
<1>3. ASSUME NEW o \in Objects, Transfers(o) PROVE Kept
  BY <1>3, WokenEntersKeeps, ResolvesRequestKeeps, GetAgainKeeps, GetSucceedsKeeps,
     ReadSucceedsKeeps, ReadFailsKeeps, DownloadActionsKeep, UploadActionsKeep DEF Transfers
<1> QED BY <1>1, <1>2, <1>3 DEF Next

\* Transfers, gate, window and engine agree in every reachable state
\* (runStorageCopyEngine, storage-copy.ts:1223-1586).
THEOREM CopyInvariant == Spec => []CInv
<1>1. CInv /\ [Next]_vars => CInv'
  BY NextKeeps DEF Kept
<1> QED BY <1>1, InitCInv, PTL DEF Spec

\* Type correctness: no transfer counts more tries than MaxAttempts allows.
THEOREM CopyTypeCorrect == Spec => []CopyTypeOK
<1>1. CInv => CopyTypeOK
  BY DEF CInv
<1> QED BY <1>1, CopyInvariant, PTL

\* The gate loses no wake-up (storage-copy.ts:763-790): transfers wait only while
\* every slot is taken or handed on.
THEOREM GateLosesNoWakeUp == Spec => []NoIdleSlot
<1>1. CInv => NoIdleSlot
  BY DEF CInv
<1> QED BY <1>1, CopyInvariant, PTL

\* What is reported of an object is true of the target (copyOneObject), whichever
\* answers were lost, and objects to be skipped are not overwritten.
THEOREM ReportsAreHonest == Spec => []OutcomesAreHonest
<1>1. CInv => OutcomesAreHonest
  BY DEF CInv, Held, TasksGood, TaskGood, OutcomesAreHonest, InCopy
<1> QED BY <1>1, CopyInvariant, PTL

\* "So nothing keeps writing after the run returns": the queue has settled whenever
\* the engine has returned or thrown (settleQueuedTransfers).
THEOREM QueueSettlesFirst == Spec => []NothingRunsAfterReturn
<1>1. CInv => NothingRunsAfterReturn
  BY DEF CInv, EngineGood, NothingRunsAfterReturn, Over
<1> QED BY <1>1, CopyInvariant, PTL

\* The copy is given up as systemic only if all objects that have an outcome failed
\* with the same lack of permission.
THEOREM AbortsHaveReason == Spec => AbortMeansNothingWorked
<1>1. CInv /\ [Next]_vars =>
        [engine'.transferError = "systemic" /\ engine.transferError = "none" =>
           \A o, p \in Objects :
             tasks'[o].class # "pending" /\ tasks'[p].class # "pending" =>
               /\ tasks'[o].class = "failed"
               /\ tasks'[o].signature = tasks'[p].signature]_vars
  BY NextKeeps DEF Kept, AbortFindsNothingWorked
<1> QED BY <1>1, CopyInvariant, PTL DEF Spec, AbortMeansNothingWorked

\* The engine implements the safety part of the ledger: an object gets one class, for
\* good, and the engine returns its summary only when all have theirs.
THEOREM CopyImplementsLedger == Spec => Ledger!Spec
<1> DEFINE seen == [o \in Objects |-> tasks[o].class]
           said == CASE engine.pc = "returned" -> "complete"
                     [] engine.pc = "thrown" -> "error"
                     [] OTHER -> "open"
<1>1. Init => Ledger!Init
  <2> SUFFICES ASSUME Init PROVE Ledger!Init
    OBVIOUS
  <2>1. \A o \in Objects : tasks[o].class = "pending"
    BY DEF Init, NewTransfer
  <2>2. engine.pc = "list"
    BY DEF Init
  <2> QED BY <2>1, <2>2 DEF Ledger!Init
<1>2. CInv /\ [Next]_vars => [Ledger!Next]_(Ledger!ledger)
  <2> SUFFICES ASSUME CInv, [Next]_vars PROVE [Ledger!Next]_(Ledger!ledger)
    OBVIOUS
  <2>1. LedgerStep
    BY NextKeeps DEF Kept
  <2>2. SameClasses => seen' = seen
    BY DEF SameClasses
  <2>3. engine'.pc = engine.pc => said' = said
    OBVIOUS
  <2>4. ASSUME NEW o \in Objects, Classified(o), engine'.pc = engine.pc
        PROVE  Ledger!Classify(o)
    <3>1. seen[o] = "pending" /\ tasks'[o].class \in Class
      BY <2>4 DEF Classified
    <3>2. seen' = [seen EXCEPT ![o] = tasks'[o].class]
      BY <2>4 DEF Classified
    <3> QED BY <2>3, <2>4, <3>1, <3>2 DEF Ledger!Classify
  <2>5. ASSUME SameClasses, engine'.pc = engine.pc
        PROVE  UNCHANGED Ledger!ledger
    BY <2>2, <2>3, <2>5 DEF Ledger!ledger
  <2>6. ASSUME SameClasses, ~Over, engine'.pc # "returned"
        PROVE  Ledger!Conclude \/ UNCHANGED Ledger!ledger
    <3>1. said = "open" /\ said' \in {"open", "error"}
      BY <2>6 DEF Over
    <3> QED BY <2>2, <2>6, <3>1 DEF Ledger!Conclude, Ledger!ledger
  <2>7. ASSUME SameClasses, engine.pc = "flush", engine'.pc = "returned"
        PROVE  Ledger!Conclude
    <3>1. said = "open" /\ said' = "complete"
      BY <2>7
    <3>2. \A o \in Objects : tasks[o].class # "pending"
      <4> SUFFICES ASSUME NEW o \in Objects PROVE tasks[o].class # "pending"
        OBVIOUS
      <4>1. o < engine.next /\ Queued = {}
        BY <2>7, EngineFacts DEF EngineGood
      <4>2. tasks[o].step # "listed"
        BY <4>1, ObjectsAreNumbers, EngineFacts DEF EngineGood
      <4>3. tasks[o].step = "done"
        BY <4>1, <4>2 DEF Queued
      <4> QED BY <4>3, TaskFacts DEF TaskGood
    <3>3. \A o \in Objects : seen[o] # "pending"
      BY <3>2
    <3> QED BY <2>2, <2>7, <3>1, <3>3 DEF Ledger!Conclude
  <2> QED BY <2>1, <2>4, <2>5, <2>6, <2>7 DEF LedgerStep, Ledger!Next
<1> QED BY <1>1, <1>2, CopyInvariant, PTL DEF Spec, Ledger!Spec

-----------------------------------------------------------------------------
(***************************************************************************)
(* Bounded effort: the retries of an upload, each of which may download    *)
(* the object again with retries of its own, come to an end whatever fails.*)
(***************************************************************************)

\* The longest a round of an object can be: resolving its download, the tries of a
\* GET, reading the body and sending it.
Round == MaxAttempts + 4

StepEffort(t) ==
  CASE t.step = "resolve" -> MaxAttempts + 3
    [] t.step = "get" -> MaxAttempts + 2 - t.gets
    [] t.step = "read" -> 2
    [] t.step = "send" -> 1

\* A body that is had is uploaded; until then all attempts to upload are to come.
Uploading(t) == t.step = "send" \/ t.reason = "rebuild"

RoundsLeft(t) == (MaxAttempts - 1 - t.tries) + (IF Uploading(t) THEN 0 ELSE MaxAttempts)

FullEffort == (MaxAttempts + MaxAttempts) * Round

\* How many steps a transfer has left at most.
Effort(t) ==
  CASE t.step = "listed" -> FullEffort + 2
    [] t.step = "waiting" -> FullEffort + 1
    [] t.step = "woken" -> FullEffort
    [] t.step = "done" -> 0
    [] OTHER -> RoundsLeft(t) * Round + StepEffort(t)

\* The steps the engine has left in a bucket, or after the last one.
PhaseEffort(pc) ==
  CASE pc = "list" -> 4
    [] pc = "bucket" -> 3
    [] pc \in {"scan", "flush"} -> 2
    [] pc = "settle" -> 1
    [] pc \in {"returned", "thrown"} -> 0

\* The steps the engine has left at most, whatever its transfers do.
EngineEffort ==
  (Len(BucketOf) + 1 - engine.next) + 4 * (NumBuckets + 1 - engine.bucket)
    + PhaseEffort(engine.pc)

PostEffort == (IF progress.posting THEN 1 ELSE 0) + (IF progress.broken THEN 0 ELSE 1)

\* One step: the engine has less to do, or some transfer has, or, these being as they
\* were, the chain of posts has; and nothing ever has more to do.
EffortsShrink ==
  /\ EngineEffort' <= EngineEffort
  /\ \A o \in Objects : Effort(tasks'[o]) <= Effort(tasks[o])
  /\ \/ EngineEffort' < EngineEffort
     \/ \E o \in Objects : Effort(tasks'[o]) < Effort(tasks[o])
     \/ PostEffort' < PostEffort
  /\ EngineSteps => EngineEffort' < EngineEffort
  /\ \A o \in Objects : Transfers(o) => Effort(tasks'[o]) < Effort(tasks[o])

EffortsTyped ==
  /\ EngineEffort \in Nat /\ PostEffort \in Nat
  /\ \A o \in Objects : Effort(tasks[o]) \in 0..(FullEffort + 2)

-----------------------------------------------------------------------------
\* Rounds weigh more than anything inside one.
LEMMA RoundsWeigh ==
  /\ MaxAttempts \in Nat \ {0} /\ Round \in Nat /\ FullEffort \in Nat
  /\ \A m, n, x, y \in Nat : m < n /\ x < Round => m * Round + x < n * Round + y
<1>1. MaxAttempts \in Nat \ {0} /\ Round \in Nat
  BY CopyConstants DEF Round
<1>2. \A m, n \in Nat : m * Round \in Nat
  BY <1>1
<1>3. FullEffort \in Nat
  BY <1>1, <1>2 DEF FullEffort
<1>4. ASSUME NEW m \in Nat, NEW n \in Nat, NEW x \in Nat, NEW y \in Nat, m < n, x < Round
      PROVE  m * Round + x < n * Round + y
  <2>1. PICK k \in Nat : n = m + 1 + k
    <3>1. n - m - 1 \in Nat /\ n = m + 1 + (n - m - 1)
      BY <1>4
    <3>2. QED
      BY <3>1
  <2>2. n * Round = m * Round + Round + k * Round
    BY <1>1, <2>1
  <2>3. k * Round \in Nat /\ m * Round \in Nat /\ n * Round \in Nat
    BY <1>2
  <2>4. QED
    BY <1>1, <1>4, <2>2, <2>3
<1>5. QED
  BY <1>1, <1>3, <1>4

\* A record of a transfer whose tries are counted within the limit.
Counted(t) == t \in Transfer /\ t.gets \in 0..(MaxAttempts - 1) /\ t.tries \in 0..(MaxAttempts - 1)

LEMMA EffortInside ==
  ASSUME NEW t, Counted(t), t.step \in Running
  PROVE  /\ RoundsLeft(t) \in 0..(MaxAttempts + MaxAttempts - 1)
         /\ StepEffort(t) \in 1..(Round - 1)
         /\ Effort(t) = RoundsLeft(t) * Round + StepEffort(t)
         /\ Effort(t) \in Nat /\ 0 < Effort(t) /\ Effort(t) < FullEffort
<1>1. MaxAttempts \in Nat \ {0} /\ Round \in Nat /\ FullEffort \in Nat
  BY RoundsWeigh
<1>2. RoundsLeft(t) \in 0..(MaxAttempts + MaxAttempts - 1)
  BY <1>1 DEF RoundsLeft, Counted
<1>3. StepEffort(t) \in 1..(Round - 1)
  BY <1>1 DEF StepEffort, Counted, Running, Round
<1>4. Effort(t) = RoundsLeft(t) * Round + StepEffort(t)
  BY DEF Effort, Running
<1> DEFINE r == RoundsLeft(t)
           x == StepEffort(t)
           n == MaxAttempts + MaxAttempts
<1>5. /\ r \in Nat /\ x \in Nat /\ n \in Nat /\ r < n /\ 0 < x /\ x < Round
  BY <1>1, <1>2, <1>3
<1>6. FullEffort = n * Round + 0
  BY <1>1 DEF FullEffort
<1> HIDE DEF r, x, n
<1>7. r * Round \in Nat
  BY <1>1, <1>5
<1>8. r * Round + x < n * Round + 0
  BY <1>5, RoundsWeigh
<1>9. r * Round + x \in Nat /\ 0 < r * Round + x
  BY <1>5, <1>7
<1>10. QED
  BY <1>2, <1>3, <1>4, <1>6, <1>8, <1>9 DEF r, x

\* A transfer that goes on in the same round, or begins another.
LEMMA EffortFalls ==
  ASSUME NEW s, Counted(s), s.step \in Running,
         NEW t, Counted(t), t.step \in Running,
         \/ RoundsLeft(t) < RoundsLeft(s)
         \/ RoundsLeft(t) = RoundsLeft(s) /\ StepEffort(t) < StepEffort(s)
  PROVE  Effort(t) < Effort(s)
<1>1. /\ RoundsLeft(s) \in Nat /\ RoundsLeft(t) \in Nat
      /\ StepEffort(s) \in Nat /\ StepEffort(t) \in Nat /\ StepEffort(t) < Round
      /\ Effort(s) = RoundsLeft(s) * Round + StepEffort(s)
      /\ Effort(t) = RoundsLeft(t) * Round + StepEffort(t)
      /\ MaxAttempts \in Nat /\ Round \in Nat
  BY EffortInside, RoundsWeigh
<1>2. CASE RoundsLeft(t) < RoundsLeft(s)
  BY <1>1, <1>2, RoundsWeigh
<1>3. CASE RoundsLeft(t) = RoundsLeft(s) /\ StepEffort(t) < StepEffort(s)
  <2>1. RoundsLeft(s) * Round \in Nat
    BY <1>1
  <2>2. QED
    BY <1>1, <1>3, <2>1
<1>4. QED
  BY <1>2, <1>3

\* Outside of a transfer the effort is known.
LEMMA EffortOutside ==
  /\ \A t : t.step = "listed" => Effort(t) = FullEffort + 2
  /\ \A t : t.step = "waiting" => Effort(t) = FullEffort + 1
  /\ \A t : t.step = "woken" => Effort(t) = FullEffort
  /\ \A t : t.step = "done" => Effort(t) = 0
BY DEF Effort

LEMMA TasksAreCounted ==
  ASSUME CInv, NEW o \in Objects
  PROVE  /\ Counted(tasks[o]) /\ Effort(tasks[o]) \in 0..(FullEffort + 2)
<1>1. Counted(tasks[o])
  BY TaskFacts DEF Counted, TaskGood
<1>2. tasks[o].step \in Running \cup {"listed", "waiting", "woken", "done"}
  BY TaskFacts DEF Transfer, Step, Running
<1>3. FullEffort \in Nat
  BY RoundsWeigh
<1>4. CASE tasks[o].step \in Running
  BY <1>1, <1>3, <1>4, EffortInside
<1>5. CASE tasks[o].step \notin Running
  <2>1. Effort(tasks[o]) \in {FullEffort + 2, FullEffort + 1, FullEffort, 0}
    BY <1>2, <1>5, EffortOutside
  <2>2. QED
    BY <1>1, <1>3, <2>1
<1>6. QED
  BY <1>4, <1>5

-----------------------------------------------------------------------------
\* The transfer of o has less to do, and no other has more; nor has the engine.
Works(o) ==
  /\ Effort(tasks'[o]) < Effort(tasks[o])
  /\ \A p \in Objects : Effort(tasks'[p]) <= Effort(tasks[p])
  /\ EngineEffort' = EngineEffort

LEMMA GoesOn ==
  ASSUME CInv, NEW o \in Objects, tasks[o].step \in Running,
         NEW t, Counted(t), t.step \in Running, Advance(o, t), engine' = engine,
         \/ RoundsLeft(t) < RoundsLeft(tasks[o])
         \/ RoundsLeft(t) = RoundsLeft(tasks[o]) /\ StepEffort(t) < StepEffort(tasks[o])
  PROVE  Works(o)
<1>1. Effort(t) < Effort(tasks[o])
  BY EffortFalls, TasksAreCounted
<1>2. tasks'[o] = t /\ \A p \in Objects : p # o => tasks'[p] = tasks[p]
  BY WaiterFacts DEF Advance
<1>3. \A p \in Objects : Effort(tasks[p]) \in Nat
  BY TasksAreCounted, RoundsWeigh
<1>4. \A p \in Objects : Effort(tasks'[p]) <= Effort(tasks[p])
  <2>1. \A p \in Objects : p # o => Effort(tasks'[p]) = Effort(tasks[p])
    BY <1>2, Zenon
  <2>2. Effort(tasks'[o]) = Effort(t) /\ Effort(t) \in Nat
    BY <1>2, EffortInside
  <2>3. SUFFICES ASSUME NEW p \in Objects PROVE Effort(tasks'[p]) <= Effort(tasks[p])
    OBVIOUS
  <2>4. CASE p = o
    BY <1>1, <1>3, <2>2, <2>4
  <2>5. CASE p # o
    BY <1>3, <2>1, <2>5
  <2>6. QED
    BY <2>4, <2>5
<1>5. EngineEffort' = EngineEffort
  BY DEF EngineEffort
<1>6. QED
  BY <1>1, <1>2, <1>4, <1>5 DEF Works

LEMMA ComesToItsEnd ==
  ASSUME CInv, NEW o \in Objects, tasks[o].step \in Running,
         NEW class \in Class, NEW signature \in Signature \cup {NoSignature},
         TaskEnds(o, class, signature)
  PROVE  Works(o)
<1> DEFINE d == Done(class, signature)
<1>1. /\ d \in Transfer /\ d.step = "done"
  BY DEF Done, NewTransfer, Transfer, Step, Reason
<1>2. Release([tasks EXCEPT ![o] = d])
  BY DEF TaskEnds
<1>3. /\ engine' = engine \/ \E error : Raise(error)
  BY DEF TaskEnds
<1> HIDE DEF d
<1>4. /\ tasks'[o] = d
      /\ \A p \in Objects : p # o =>
           \/ tasks'[p] = tasks[p]
           \/ /\ tasks[p].step = "waiting"
              /\ tasks'[p] = [tasks[p] EXCEPT !.step = "woken"]
  BY <1>1, <1>2, ReleaseEffect
<1>5. Effort(tasks'[o]) = 0 /\ 0 < Effort(tasks[o]) /\ Effort(tasks[o]) \in Nat
  BY <1>1, <1>4, EffortOutside, EffortInside, TasksAreCounted
<1>6. ASSUME NEW p \in Objects PROVE Effort(tasks'[p]) <= Effort(tasks[p])
  <2>1. Effort(tasks[p]) \in Nat /\ FullEffort \in Nat
    BY TasksAreCounted, RoundsWeigh
  <2>2. CASE p = o
    BY <1>5, <2>2
  <2>3. CASE tasks'[p] = tasks[p]
    BY <2>1, <2>3
  <2>4. CASE tasks[p].step = "waiting" /\ tasks'[p] = [tasks[p] EXCEPT !.step = "woken"]
    <3>1. tasks'[p].step = "woken"
      BY <2>4, TaskFacts DEF Transfer
    <3>2. Effort(tasks[p]) = FullEffort + 1 /\ Effort(tasks'[p]) = FullEffort
      BY <2>4, <3>1, EffortOutside
    <3>3. QED
      BY <2>1, <3>2
  <2>5. QED
    BY <1>4, <2>2, <2>3, <2>4
<1>7. EngineEffort' = EngineEffort
  <2>1. CASE engine' = engine
    BY <2>1 DEF EngineEffort
  <2>2. CASE \E error : Raise(error)
    <3>1. engine'.pc = engine.pc /\ engine'.next = engine.next /\ engine'.bucket = engine.bucket
      BY <2>2, EngineFacts DEF Raise, Engine
    <3>2. QED
      BY <3>1 DEF EngineEffort
  <2>3. QED
    BY <1>3, <2>1, <2>2
<1>8. QED
  BY <1>5, <1>6, <1>7 DEF Works

-----------------------------------------------------------------------------
\* Transfers that go on.
LEMMA ResolvesRequestWorks ==
  ASSUME CInv, NEW o \in Objects, ResolvesRequest(o) PROVE Works(o)
<1> DEFINE t == [tasks[o] EXCEPT !.step = "get"]
<1>1. /\ tasks[o].step = "resolve" /\ Advance(o, t) /\ engine' = engine
      /\ tasks[o].step \in Running
  BY DEF ResolvesRequest, InCopy, Unchanged, Running
<1>2. Counted(tasks[o]) /\ MaxAttempts \in Nat \ {0}
  BY TasksAreCounted, RoundsWeigh
<1>3. /\ t \in Transfer /\ t.step = "get" /\ t.reason = tasks[o].reason
      /\ t.gets = tasks[o].gets /\ t.tries = tasks[o].tries
  BY <1>2 DEF Counted, Transfer, Step
<1> HIDE DEF t
<1>4. Counted(t) /\ t.step \in Running
  BY <1>2, <1>3 DEF Counted, Running
<1>5. RoundsLeft(t) = RoundsLeft(tasks[o])
  BY <1>1, <1>3 DEF RoundsLeft, Uploading
<1>6. StepEffort(t) = MaxAttempts + 2 - tasks[o].gets /\ StepEffort(tasks[o]) = MaxAttempts + 3
  BY <1>1, <1>3 DEF StepEffort
<1>7. StepEffort(t) < StepEffort(tasks[o])
  BY <1>2, <1>6 DEF Counted
<1> QED BY <1>1, <1>4, <1>5, <1>7, GoesOn

LEMMA GetAgainWorks ==
  ASSUME CInv, NEW o \in Objects, GetAgain(o) PROVE Works(o)
<1> DEFINE t == [tasks[o] EXCEPT !.gets = @ + 1]
<1>1. /\ tasks[o].step = "get" /\ Advance(o, t) /\ engine' = engine
      /\ tasks[o].step \in Running /\ tasks[o].gets < MaxAttempts - 1
  BY DEF GetAgain, InCopy, Unchanged, Running, TriesLeft
<1>2. Counted(tasks[o]) /\ MaxAttempts \in Nat \ {0}
  BY TasksAreCounted, RoundsWeigh
<1>3. tasks[o].gets + 1 \in 0..(MaxAttempts - 1) /\ tasks[o].gets + 1 \in Nat
  BY <1>1, <1>2 DEF Counted
<1>4. /\ t \in Transfer /\ t.step = "get" /\ t.reason = tasks[o].reason
      /\ t.gets = tasks[o].gets + 1 /\ t.tries = tasks[o].tries
  BY <1>1, <1>2, <1>3 DEF Counted, Transfer
<1> HIDE DEF t
<1>5. Counted(t) /\ t.step \in Running
  BY <1>2, <1>3, <1>4 DEF Counted, Running
<1>6. RoundsLeft(t) = RoundsLeft(tasks[o])
  BY <1>1, <1>4 DEF RoundsLeft, Uploading
<1>7. /\ StepEffort(t) = MaxAttempts + 2 - (tasks[o].gets + 1)
      /\ StepEffort(tasks[o]) = MaxAttempts + 2 - tasks[o].gets
  BY <1>1, <1>4 DEF StepEffort
<1>8. StepEffort(t) < StepEffort(tasks[o])
  BY <1>2, <1>7 DEF Counted
<1> QED BY <1>1, <1>5, <1>6, <1>8, GoesOn

LEMMA GetSucceedsWorks ==
  ASSUME CInv, NEW o \in Objects, GetSucceeds(o) PROVE Works(o)
<1>1. PICK streamed \in BOOLEAN :
        /\ tasks[o].step = "get" /\ Advance(o, Downloaded(tasks[o], streamed))
        /\ engine' = engine /\ tasks[o].step \in Running
  BY DEF GetSucceeds, InCopy, Unchanged, Running
<1> DEFINE t == Downloaded(tasks[o], streamed)
<1>2. /\ Counted(tasks[o]) /\ MaxAttempts \in Nat \ {0} /\ 0 \in 0..(MaxAttempts - 1)
  BY TasksAreCounted, RoundsWeigh
<1>3. /\ t \in Transfer /\ t.reason = tasks[o].reason /\ t.gets = 0
      /\ t.tries = tasks[o].tries
      /\ \/ t.step = "send" /\ t.reason \in {"first", "rebuild"}
         \/ t.step = "read" /\ t.reason # "rebuild"
  <2>1. tasks[o] \in Transfer
    BY <1>2 DEF Counted
  <2>2. CASE tasks[o].reason = "first" /\ streamed
    <3>1. t = [tasks[o] EXCEPT !.gets = 0, !.streamed = TRUE, !.body = "stream", !.step = "send"]
      BY <2>2 DEF Downloaded
    <3> HIDE DEF t
    <3> QED BY <2>1, <2>2, <3>1 DEF Transfer, Step
  <2>3. CASE tasks[o].reason = "rebuild"
    <3>1. t = [tasks[o] EXCEPT !.gets = 0, !.body = "stream", !.step = "send"]
      BY <2>3 DEF Downloaded
    <3> HIDE DEF t
    <3> QED BY <2>1, <2>3, <3>1 DEF Transfer, Step
  <2>4. CASE tasks[o].reason # "rebuild" /\ ~(tasks[o].reason = "first" /\ streamed)
    <3>1. t = [tasks[o] EXCEPT !.gets = 0, !.step = "read"]
      BY <2>4 DEF Downloaded
    <3> HIDE DEF t
    <3> QED BY <2>1, <2>4, <3>1 DEF Transfer, Step
  <2> QED BY <2>2, <2>3, <2>4
<1>4. Advance(o, t)
  BY <1>1
<1> HIDE DEF t
<1>5. Counted(t) /\ t.step \in Running
  BY <1>2, <1>3 DEF Counted, Running
<1>6. StepEffort(t) \in {1, 2} /\ StepEffort(tasks[o]) = MaxAttempts + 2 - tasks[o].gets
  BY <1>1, <1>3 DEF StepEffort
<1>7. RoundsLeft(t) = RoundsLeft(tasks[o]) \/ RoundsLeft(t) < RoundsLeft(tasks[o])
  BY <1>1, <1>2, <1>3 DEF RoundsLeft, Uploading, Counted
<1>8. StepEffort(t) < StepEffort(tasks[o])
  BY <1>2, <1>6 DEF Counted
<1> QED BY <1>1, <1>4, <1>5, <1>7, <1>8, GoesOn

LEMMA ReadSucceedsWorks ==
  ASSUME CInv, NEW o \in Objects, ReadSucceeds(o) PROVE Works(o)
<1> DEFINE t == [tasks[o] EXCEPT !.step = "send", !.body = "buffer", !.tries = 0]
<1>1. /\ tasks[o].step = "read" /\ Advance(o, t) /\ engine' = engine
      /\ tasks[o].step \in Running
  BY DEF ReadSucceeds, InCopy, Unchanged, Running
<1>2. /\ Counted(tasks[o]) /\ MaxAttempts \in Nat \ {0} /\ 0 \in 0..(MaxAttempts - 1)
      /\ tasks[o].reason # "rebuild"
  BY <1>1, TaskFacts, TasksAreCounted, RoundsWeigh DEF TaskGood
<1>3. /\ t \in Transfer /\ t.step = "send" /\ t.gets = tasks[o].gets /\ t.tries = 0
  BY <1>2 DEF Counted, Transfer, Step
<1> HIDE DEF t
<1>4. Counted(t) /\ t.step \in Running
  BY <1>2, <1>3 DEF Counted, Running
<1>5. RoundsLeft(t) < RoundsLeft(tasks[o])
  BY <1>1, <1>2, <1>3 DEF RoundsLeft, Uploading, Counted
<1> QED BY <1>1, <1>4, <1>5, GoesOn

LEMMA ReadFailsWorks ==
  ASSUME CInv, NEW o \in Objects, ReadFails(o) PROVE Works(o)
<1> DEFINE t == [tasks[o] EXCEPT !.tries = @ + 1, !.step = "resolve", !.reason = "reread"]
<1>1. tasks[o].step = "read" /\ tasks[o].step \in Running
  BY DEF ReadFails, InCopy, Running
<1>2. CASE TriesLeft(tasks[o].tries)
  <2>1. Advance(o, t) /\ engine' = engine
    BY <1>2 DEF ReadFails, Unchanged
  <2>2. /\ Counted(tasks[o]) /\ MaxAttempts \in Nat \ {0} /\ tasks[o].reason # "rebuild"
        /\ tasks[o].tries < MaxAttempts - 1
    BY <1>1, <1>2, TaskFacts, TasksAreCounted, RoundsWeigh DEF TaskGood, TriesLeft
  <2>3. tasks[o].tries + 1 \in 0..(MaxAttempts - 1) /\ tasks[o].tries + 1 \in Nat
    BY <2>2 DEF Counted
  <2>4. /\ t \in Transfer /\ t.step = "resolve" /\ t.reason = "reread"
        /\ t.gets = tasks[o].gets /\ t.tries = tasks[o].tries + 1
    BY <2>2, <2>3 DEF Counted, Transfer, Step, Reason
  <2> HIDE DEF t
  <2>5. Counted(t) /\ t.step \in Running
    BY <2>2, <2>3, <2>4 DEF Counted, Running
  <2>6. RoundsLeft(t) < RoundsLeft(tasks[o])
    BY <1>1, <2>2, <2>4 DEF RoundsLeft, Uploading, Counted
  <2> QED BY <1>1, <2>1, <2>5, <2>6, GoesOn
<1>3. CASE ~TriesLeft(tasks[o].tries)
  <2>1. TaskEnds(o, "failed", NoSignature)
    BY <1>3 DEF ReadFails
  <2> QED BY <1>1, <2>1, ComesToItsEnd DEF Class
<1> QED BY <1>2, <1>3

-----------------------------------------------------------------------------
\* Transfers that fail once more, or come to their end.
LEMMA UploadFailsWorks ==
  ASSUME CInv, NEW o \in Objects, NEW signature \in Signature \cup {NoSignature},
         \/ tasks[o].step = "send"
         \/ tasks[o].step \in {"resolve", "get"} /\ tasks[o].reason = "rebuild",
         UploadFails(o, signature)
  PROVE  Works(o)
<1>1. tasks[o].step \in Running
  BY DEF Running
<1>2. CASE TriesLeft(tasks[o].tries)
  <2> DEFINE s == Spent(tasks[o])
             t == UploadAgain(s)
  <2>1. /\ Counted(tasks[o]) /\ MaxAttempts \in Nat \ {0}
        /\ tasks[o].tries < MaxAttempts - 1
    BY <1>2, TasksAreCounted, RoundsWeigh DEF TriesLeft
  <2>2. tasks[o].tries + 1 \in 0..(MaxAttempts - 1) /\ tasks[o].tries + 1 \in Nat
    BY <2>1 DEF Counted
  <2>3. /\ s \in Transfer /\ s.step = tasks[o].step /\ s.reason = tasks[o].reason
        /\ s.gets = tasks[o].gets /\ s.tries = tasks[o].tries
        /\ s.streamed = tasks[o].streamed
    BY TaskFacts, SpentFacts
  <2>4. Advance(o, t) /\ engine' = engine
    BY <1>2 DEF UploadFails, Unchanged
  <2>5. tasks[o].reason = "rebuild" => tasks[o].streamed
    BY TaskFacts DEF TaskGood
  <2> HIDE DEF s
  <2>6. /\ t \in Transfer /\ t.gets \in {0, tasks[o].gets} /\ t.tries = tasks[o].tries + 1
        /\ \/ t.step = "resolve" /\ t.reason = "rebuild"
           \/ t.step = "send" /\ tasks[o].step = "send"
    <3>1. CASE s.streamed
      <4>1. t = [s EXCEPT !.tries = @ + 1, !.gets = 0, !.step = "resolve",
                          !.reason = "rebuild", !.body = "none"]
        BY <3>1 DEF UploadAgain
      <4> HIDE DEF t
      <4> QED BY <2>2, <2>3, <4>1 DEF Transfer, Step, Reason
    <3>2. CASE ~s.streamed
      <4>1. t = [s EXCEPT !.tries = @ + 1] /\ s.step = "send"
        BY <2>3, <2>5, <3>2 DEF UploadAgain
      <4> HIDE DEF t
      <4> QED BY <2>2, <2>3, <4>1 DEF Transfer
    <3> QED BY <3>1, <3>2
  <2> HIDE DEF t
  <2>7. Counted(t) /\ t.step \in Running
    BY <2>1, <2>2, <2>6 DEF Counted, Running
  <2>8. Uploading(t) /\ Uploading(tasks[o])
    BY <2>6 DEF Uploading
  <2>9. RoundsLeft(t) < RoundsLeft(tasks[o])
    BY <2>1, <2>6, <2>8 DEF RoundsLeft, Counted
  <2> QED BY <1>1, <2>4, <2>7, <2>9, GoesOn
<1>3. CASE ~TriesLeft(tasks[o].tries)
  <2>1. TaskEnds(o, "failed", signature)
    BY <1>3 DEF UploadFails
  <2> QED BY <1>1, <2>1, ComesToItsEnd DEF Class
<1> QED BY <1>2, <1>3

LEMMA DownloadFailsWorks ==
  ASSUME CInv, NEW o \in Objects, NEW signature \in Signature \cup {NoSignature},
         tasks[o].step \in {"resolve", "get"}, DownloadFails(o, signature)
  PROVE  Works(o)
<1>1. CASE tasks[o].reason = "rebuild"
  BY <1>1, UploadFailsWorks DEF DownloadFails
<1>2. CASE tasks[o].reason # "rebuild"
  <2>1. TaskEnds(o, "failed", signature) /\ tasks[o].step \in Running
    BY <1>2 DEF DownloadFails, Running
  <2> QED BY <2>1, ComesToItsEnd DEF Class
<1> QED BY <1>1, <1>2

LEMMA DownloadActionsWork ==
  ASSUME CInv, NEW o \in Objects,
         ResolvesMissing(o) \/ ResolveThrows(o) \/ GetFinds404(o) \/ GetRefused(o)
  PROVE  Works(o)
<1>1. tasks[o].step \in {"resolve", "get"} /\ tasks[o].step \in Running
  BY DEF ResolvesMissing, ResolveThrows, GetFinds404, GetRefused, InCopy, Running
<1>2. \/ TaskEnds(o, "missing", NoSignature)
      \/ \E signature \in {NoSignature, "get"} : DownloadFails(o, signature)
  BY DEF ResolvesMissing, ResolveThrows, GetFinds404, GetRefused
<1>3. CASE TaskEnds(o, "missing", NoSignature)
  BY <1>1, <1>3, ComesToItsEnd DEF Class
<1>4. ASSUME NEW signature \in {NoSignature, "get"}, DownloadFails(o, signature)
      PROVE  Works(o)
  BY <1>1, <1>4, DownloadFailsWorks DEF Signature
<1> QED BY <1>2, <1>3, <1>4

LEMMA UploadActionsWork ==
  ASSUME CInv, NEW o \in Objects,
         \/ UploadLost(o) \/ UploadApplied(o) \/ UploadFindsExisting(o)
         \/ UploadOversized(o) \/ UploadRefused(o)
  PROVE  Works(o)
<1>1. tasks[o].step = "send" /\ tasks[o].step \in Running
  BY DEF UploadLost, UploadApplied, UploadFindsExisting, UploadOversized, UploadRefused,
         InCopy, Running
<1>2. \/ UploadFails(o, NoSignature)
      \/ \E class \in Class, signature \in {NoSignature, "send"} : TaskEnds(o, class, signature)
  BY DEF UploadLost, UploadApplied, UploadFindsExisting, UploadOversized, UploadRefused, Class
<1>3. CASE UploadFails(o, NoSignature)
  BY <1>1, <1>3, UploadFailsWorks
<1>4. ASSUME NEW class \in Class, NEW signature \in {NoSignature, "send"},
             TaskEnds(o, class, signature)
      PROVE  Works(o)
  BY <1>1, <1>4, ComesToItsEnd DEF Signature
<1> QED BY <1>2, <1>3, <1>4

\* A woken transfer has all of its rounds before it, and less than that once it runs.
LEMMA WokenEntersWorks ==
  ASSUME CInv, NEW o \in Objects, WokenEnters(o) PROVE Works(o)
<1>1. /\ o \in gate.woken /\ tasks' = [tasks EXCEPT ![o].step = "resolve"]
      /\ UNCHANGED <<engine, window, progress, gone, target, skip>>
  BY DEF WokenEnters
<1>2. tasks[o].step = "woken"
  BY <1>1 DEF CInv, GateGood, Steps, Woken
<1> DEFINE t == [tasks[o] EXCEPT !.step = "resolve"]
<1>3. tasks'[o] = t /\ \A p \in Objects : p # o => tasks'[p] = tasks[p]
  BY <1>1, WaiterFacts
<1>4. Counted(tasks[o])
  BY TasksAreCounted
<1>5. /\ t \in Transfer /\ t.step = "resolve" /\ t.gets = tasks[o].gets
      /\ t.tries = tasks[o].tries
  BY <1>4 DEF Counted, Transfer, Step
<1> HIDE DEF t
<1>6. Counted(t) /\ t.step \in Running
  BY <1>4, <1>5 DEF Counted, Running
<1>7. Effort(t) \in Nat /\ Effort(t) < FullEffort
  BY <1>6, EffortInside
<1>8. Effort(tasks[o]) = FullEffort /\ FullEffort \in Nat
  BY <1>2, EffortOutside, RoundsWeigh
<1>9. Effort(tasks'[o]) < Effort(tasks[o])
  BY <1>3, <1>7, <1>8
<1>10. \A p \in Objects : Effort(tasks'[p]) <= Effort(tasks[p])
  <2>1. SUFFICES ASSUME NEW p \in Objects PROVE Effort(tasks'[p]) <= Effort(tasks[p])
    OBVIOUS
  <2>2. Effort(tasks[p]) \in Nat
    BY TasksAreCounted, RoundsWeigh
  <2>3. CASE p = o
    BY <1>3, <1>7, <1>8, <2>3
  <2>4. CASE p # o
    BY <1>3, <2>2, <2>4
  <2> QED BY <2>3, <2>4
<1>11. EngineEffort' = EngineEffort
  BY <1>1 DEF EngineEffort
<1> QED BY <1>9, <1>10, <1>11 DEF Works

LEMMA TransfersWork ==
  ASSUME CInv, NEW o \in Objects, Transfers(o) PROVE Works(o)
BY WokenEntersWorks, ResolvesRequestWorks, GetAgainWorks, GetSucceedsWorks,
   ReadSucceedsWorks, ReadFailsWorks, DownloadActionsWork, UploadActionsWork DEF Transfers

-----------------------------------------------------------------------------
LEMMA Phases ==
  /\ PhaseEffort("list") = 4 /\ PhaseEffort("bucket") = 3 /\ PhaseEffort("scan") = 2
  /\ PhaseEffort("flush") = 2 /\ PhaseEffort("settle") = 1 /\ PhaseEffort("returned") = 0
  /\ PhaseEffort("thrown") = 0
BY DEF PhaseEffort

LEMMA EngineEffortIs ==
  ASSUME CInv
  PROVE  /\ Len(BucketOf) + 1 - engine.next \in Nat
         /\ NumBuckets + 1 - engine.bucket \in Nat
         /\ PhaseEffort(engine.pc) \in Nat /\ EngineEffort \in Nat
<1>1. Len(BucketOf) + 1 - engine.next \in Nat
  BY ObjectsAreNumbers, EngineFacts DEF EngineGood
<1>2. NumBuckets + 1 - engine.bucket \in Nat
  BY EngineFacts
<1>3. PhaseEffort(engine.pc) \in Nat
  BY EngineFacts, Phases DEF Engine
<1> QED BY <1>1, <1>2, <1>3 DEF EngineEffort

\* The engine goes on: to the next object, to the next bucket or to a later phase.
Onward ==
  \/ /\ engine'.next = engine.next + 1
     /\ engine'.bucket = engine.bucket /\ engine'.pc = engine.pc
  \/ /\ engine'.next = engine.next /\ engine'.bucket = engine.bucket + 1
     /\ PhaseEffort(engine'.pc) < PhaseEffort(engine.pc) + 4
  \/ /\ engine'.next = engine.next /\ engine'.bucket = engine.bucket
     /\ PhaseEffort(engine'.pc) < PhaseEffort(engine.pc)

LEMMA EngineGoesOn ==
  ASSUME CInv, CInv', Onward
  PROVE  EngineEffort' < EngineEffort /\ EngineEffort' <= EngineEffort
<1> DEFINE x == Len(BucketOf) + 1 - engine.next
           y == NumBuckets + 1 - engine.bucket
           z == PhaseEffort(engine.pc)
           x1 == Len(BucketOf) + 1 - engine'.next
           y1 == NumBuckets + 1 - engine'.bucket
           z1 == PhaseEffort(engine'.pc)
<1>1. /\ x \in Nat /\ y \in Nat /\ z \in Nat /\ EngineEffort = x + 4 * y + z
  BY EngineEffortIs DEF EngineEffort
<1>2. engine' \in Engine
  BY DEF CInv, CopyTypeOK
<1>3. EngineEffort' = x1 + 4 * y1 + z1
  BY DEF EngineEffort
<1>4. /\ x1 \in Int /\ y1 \in Int /\ z1 \in Nat
  BY <1>2, CopyConstants, ObjectsAreNumbers, Phases DEF Engine
<1>5. \/ x1 = x - 1 /\ y1 = y /\ z1 = z
      \/ x1 = x /\ y1 = y - 1 /\ z1 < z + 4
      \/ x1 = x /\ y1 = y /\ z1 < z
  <2>1. /\ engine.next \in Int /\ engine.bucket \in Int /\ NumBuckets \in Int
        /\ Len(BucketOf) \in Int
    BY EngineFacts, ObjectsAreNumbers
  <2>2. CASE /\ engine'.next = engine.next + 1
             /\ engine'.bucket = engine.bucket /\ engine'.pc = engine.pc
    <3>1. z1 = z
      BY <2>2, Zenon
    <3> HIDE DEF z, z1
    <3> QED BY <2>1, <2>2, <3>1
  <2>3. CASE /\ engine'.next = engine.next /\ engine'.bucket = engine.bucket + 1
             /\ z1 < z + 4
    <3> HIDE DEF z, z1
    <3> QED BY <2>1, <2>3
  <2>4. CASE /\ engine'.next = engine.next /\ engine'.bucket = engine.bucket /\ z1 < z
    <3> HIDE DEF z, z1
    <3> QED BY <2>1, <2>4
  <2> QED BY <2>2, <2>3, <2>4 DEF Onward
<1> HIDE DEF x, y, z, x1, y1, z1
<1> QED BY <1>1, <1>3, <1>4, <1>5

LEMMA PhaseChanges ==
  ASSUME CInv
  PROVE  /\ \A pc : Go(pc) => /\ engine'.next = engine.next /\ engine'.bucket = engine.bucket
                              /\ engine'.pc = pc
         /\ \A error : Throw(error) =>
              /\ engine'.next = engine.next /\ engine'.bucket = engine.bucket
              /\ engine'.pc = "thrown"
         /\ \A error : StopListing(error) =>
              /\ engine'.next = engine.next /\ engine'.bucket = engine.bucket
              /\ engine'.pc = "settle"
BY EngineFacts DEF Engine, Go, Throw, StopListing

LEMMA EngineStepsGoOn ==
  ASSUME CInv, EngineSteps PROVE Onward
<1>1. CASE QueueTransfer
  <2>1. engine' = [engine EXCEPT !.next = @ + 1]
    BY <1>1 DEF QueueTransfer
  <2> QED BY <2>1, EngineFacts DEF Onward, Engine
<1>2. CASE ListBuckets
  <2>1. engine.pc = "list" /\ (Go("bucket") \/ Throw("listing"))
    BY <1>2 DEF ListBuckets
  <2> QED BY <2>1, PhaseChanges, Phases DEF Onward
<1>3. CASE PrepareBucket
  <2>1. engine.pc = "bucket" /\ (Go("scan") \/ Throw("listing"))
    BY <1>3 DEF PrepareBucket
  <2> QED BY <2>1, PhaseChanges, Phases DEF Onward
<1>4. CASE StopQueuing \/ ListingFails \/ ListingEnds
  <2>1. engine.pc = "scan" /\ \E error : StopListing(error)
    BY <1>4 DEF StopQueuing, ListingFails, ListingEnds
  <2> QED BY <2>1, PhaseChanges, Phases DEF Onward
<1>5. CASE SettleBucket
  <2>1. /\ engine.pc = "settle"
        /\ \/ \E error : Throw(error)
           \/ engine' = [engine EXCEPT !.pc = "bucket", !.bucket = @ + 1]
    BY <1>5 DEF SettleBucket
  <2>2. CASE \E error : Throw(error)
    BY <2>1, <2>2, PhaseChanges, Phases DEF Onward
  <2>3. CASE engine' = [engine EXCEPT !.pc = "bucket", !.bucket = @ + 1]
    <3>1. /\ engine'.next = engine.next /\ engine'.bucket = engine.bucket + 1
          /\ engine'.pc = "bucket"
      BY <2>3, EngineFacts DEF Engine
    <3> QED BY <2>1, <3>1, Phases DEF Onward
  <2> QED BY <2>1, <2>2, <2>3
<1>6. CASE LastBucketDone
  <2>1. engine.pc = "bucket" /\ (Go("flush") \/ Throw("progress"))
    BY <1>6 DEF LastBucketDone
  <2> QED BY <2>1, PhaseChanges, Phases DEF Onward
<1>7. CASE Return
  <2>1. engine.pc = "flush" /\ (Go("returned") \/ Throw("progress"))
    BY <1>7 DEF Return
  <2> QED BY <2>1, PhaseChanges, Phases DEF Onward
<1> QED BY <1>1, <1>2, <1>3, <1>4, <1>5, <1>6, <1>7 DEF EngineSteps

\* No step of the engine gives a transfer more to do; queueing it is the first it does.
LEMMA EngineLeavesTransfers ==
  ASSUME CInv, CInv', EngineSteps
  PROVE  \A p \in Objects : Effort(tasks'[p]) <= Effort(tasks[p])
<1>1. ASSUME NEW p \in Objects, tasks'[p] = tasks[p]
      PROVE  Effort(tasks'[p]) <= Effort(tasks[p])
  <2>1. Effort(tasks[p]) \in Nat
    BY TasksAreCounted, RoundsWeigh
  <2> QED BY <1>1, <2>1
<1>2. CASE QueueTransfer
  <2> DEFINE o == engine.next
  <2>1. o \in Objects /\ Acquire(o) /\ UNCHANGED <<target, window>>
    BY <1>2 DEF QueueTransfer, InBucket
  <2>2. tasks[o].step = "listed"
    BY <2>1, EngineFacts DEF EngineGood
  <2> HIDE DEF o
  <2>3. /\ tasks'[o].step \in {"waiting", "resolve"}
        /\ \A p \in Objects : p # o => tasks'[p] = tasks[p]
    BY <2>1, <2>2, AcquireEffect
  <2>4. Counted(tasks'[o])
    BY <2>1 DEF CInv, CopyTypeOK, TasksGood, TaskGood, Counted
  <2>5. /\ Effort(tasks[o]) = FullEffort + 2 /\ FullEffort \in Nat
        /\ tasks'[o].step = "waiting" => Effort(tasks'[o]) = FullEffort + 1
        /\ tasks'[o].step = "resolve" => /\ Effort(tasks'[o]) \in Nat
                                         /\ Effort(tasks'[o]) < FullEffort
    BY <2>2, <2>4, EffortOutside, EffortInside, RoundsWeigh DEF Running
  <2>6. Effort(tasks'[o]) <= Effort(tasks[o])
    BY <2>3, <2>5
  <2> QED BY <1>1, <2>3, <2>6
<1>3. CASE ~QueueTransfer
  <2>1. UNCHANGED tasks
    BY <1>3 DEF EngineSteps, ListBuckets, PrepareBucket, StopQueuing, ListingFails, ListingEnds,
                SettleBucket, LastBucketDone, Return, EngineOnly
  <2> QED BY <1>1, <2>1
<1> QED BY <1>2, <1>3

\* Every step leaves less to do.
LEMMA NextShrinks ==
  ASSUME CInv, CInv', Next PROVE EffortsShrink
<1>1. /\ EngineEffort \in Nat /\ \A p \in Objects : Effort(tasks[p]) \in Nat
  BY EngineEffortIs, TasksAreCounted, RoundsWeigh
<1>2. EngineSteps => EngineEffort' < EngineEffort
  BY EngineStepsGoOn, EngineGoesOn
<1>3. \A o \in Objects : Transfers(o) => Works(o)
  BY TransfersWork
<1>4. \A o \in Objects : Transfers(o) => Effort(tasks'[o]) < Effort(tasks[o])
  BY <1>3 DEF Works
<1>5. CASE EngineSteps
  <2>1. EngineEffort' < EngineEffort /\ EngineEffort' <= EngineEffort
    BY <1>5, EngineStepsGoOn, EngineGoesOn
  <2> QED BY <1>2, <1>4, <1>5, <2>1, EngineLeavesTransfers DEF EffortsShrink
<1>6. CASE \E o \in Objects : Transfers(o)
  <2>1. PICK o \in Objects : Transfers(o)
    BY <1>6
  <2>2. /\ Effort(tasks'[o]) < Effort(tasks[o]) /\ EngineEffort' = EngineEffort
        /\ \A p \in Objects : Effort(tasks'[p]) <= Effort(tasks[p])
    BY <1>3, <2>1 DEF Works
  <2>3. EngineEffort' <= EngineEffort
    BY <1>1, <2>2
  <2> QED BY <1>2, <1>4, <2>2, <2>3 DEF EffortsShrink
<1>7. CASE PostsSettle \/ PostFails
  <2>1. /\ engine' = engine /\ tasks' = tasks
        /\ progress \in [posting: BOOLEAN, broken: BOOLEAN]
        /\ \/ progress.posting /\ progress' = [progress EXCEPT !.posting = FALSE]
           \/ ~progress.broken /\ progress' = [progress EXCEPT !.broken = TRUE]
    BY <1>7, EngineFacts DEF PostsSettle, PostFails
  <2>2. PostEffort' < PostEffort
    BY <2>1 DEF PostEffort
  <2>3. EngineEffort' = EngineEffort
    BY <2>1 DEF EngineEffort
  <2>4. EngineEffort' <= EngineEffort
    BY <1>1, <2>3
  <2>5. \A p \in Objects : Effort(tasks'[p]) <= Effort(tasks[p])
    BY <1>1, <2>1
  <2> QED BY <1>2, <1>4, <2>2, <2>4, <2>5 DEF EffortsShrink
<1> QED BY <1>5, <1>6, <1>7 DEF Next

\* Retries of retries are bounded.  A body is read in at most MaxAttempts tries, and
\* uploaded in as many (readBufferedSourceBody, fetchWithRetry), and each of them may
\* download it anew, with as many GETs.  Every step of an object uses up some of
\* the FullEffort + 2 it may take, every step of the engine some of its own, and none
\* gives any back; so a copy that does not end is one that takes no more steps.
THEOREM CopySpendsItsEffort == Spec => []EffortsTyped /\ [][EffortsShrink]_vars
<1>1. CInv => EffortsTyped
  <2> SUFFICES ASSUME CInv PROVE EffortsTyped
    OBVIOUS
  <2>1. PostEffort \in Nat
    BY DEF PostEffort
  <2> QED BY <2>1, EngineEffortIs, TasksAreCounted DEF EffortsTyped
<1>2. CInv /\ CInv' /\ [Next]_vars => [EffortsShrink]_vars
  BY NextShrinks
<1> QED BY <1>1, <1>2, CopyInvariant, PTL DEF Spec
===============================================================================
