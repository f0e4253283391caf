-------------------------- MODULE StorageExport_proofs --------------------------
(***************************************************************************)
(* Proofs about StorageExport, for any objects, sizes, batches and limits: *)
(* the archive agrees with the report and is whole when it is complete,    *)
(* the engine implements the safety part of the ledger, the weighted gate  *)
(* bounds the bytes of the downloads and loses no wake-up, and the steps   *)
(* of an export are bounded.  All but the gate's results do not depend on  *)
(* when it lets a download in (AInv); the gate is right whatever becomes   *)
(* of the archive (GateRight).                                             *)
(***************************************************************************)
EXTENDS StorageExport, FiniteSetTheorems, WellFoundedInduction, TLAPS

(***************************************************************************)
(* The inductive invariant.                                                *)
(***************************************************************************)

Parts ==
  /\ engine \in Engine
  /\ tasks \in [Objects -> Task]
  /\ progress \in [posting: BOOLEAN, broken: BOOLEAN]
  /\ writer \in [state: {"open", "broken", "complete"}, pending: Seq(Entries)]
  /\ zip \in [Entries -> Nat]
  /\ signal \in BOOLEAN

\* An object has an entry from when it is written, and a class when it is done.
TaskRight(t, entries) ==
  /\ entries = IF t.step = "written" \/ t.class = "copied" THEN 1 ELSE 0
  /\ t.class # "pending" => t.step = "done"

TasksRight == \A o \in Objects : TaskRight(tasks[o], zip[o])

\* Who waits for an entry is in the queue of the writer, once, and nobody else is.
QueueRight ==
  /\ writer.pending # <<>> => writer.state = "open"
  /\ \A i, j \in DOMAIN writer.pending : i # j => writer.pending[i] # writer.pending[j]
  /\ \A o \in Objects : tasks[o].step = "append" <=> o \in ToSet(writer.pending)
  /\ engine.pc = "manifest" <=> Manifest \in ToSet(writer.pending)
  /\ engine.pc = "csv" <=> MissingList \in ToSet(writer.pending)

\* Batches come one after the other, and only a batch that is under way may fail.
EngineRight ==
  /\ engine.pc # "thrown" => \A o \in Objects :
       /\ BatchOf[o] < engine.batch => tasks[o].step = "done"
       /\ BatchOf[o] > engine.batch => tasks[o].step = "listed"
       /\ BatchOf[o] = engine.batch /\ engine.pc # "batch" => tasks[o].step = "listed"
  /\ engine.pc \notin {"batch", "thrown"} => ~engine.failed
  /\ ~engine.failed => \A o \in Objects : tasks[o].step = "done" => tasks[o].class # "pending"
  /\ engine.pc \in {"flush", "csv", "returned"} => \A o \in Objects : BatchOf[o] < engine.batch

\* The entries of the engine itself.
OwnEntries ==
  /\ engine.pc \in {"list", "manifest"} => zip[Manifest] = 0
  /\ engine.pc \in {"scan", "batch", "flush", "csv", "returned"} => zip[Manifest] = 1
  /\ engine.pc \notin {"returned", "thrown"} => zip[MissingList] = 0
  /\ engine.pc = "csv" => SomeMissing
  /\ engine.pc = "returned" => zip[MissingList] = IF SomeMissing THEN 1 ELSE 0
  /\ writer.state = "complete" => engine.pc = "returned"

AInv ==
  /\ Parts
  /\ TasksRight
  /\ QueueRight
  /\ EngineRight
  /\ OwnEntries

-----------------------------------------------------------------------------
(***************************************************************************)
(* Objects, entries and queues.                                            *)
(***************************************************************************)

LEMMA ObjectFacts ==
  /\ \A o \in Objects : BatchOf[o] \in Nat \ {0} /\ o \in Entries /\ o # Manifest /\ o # MissingList
  /\ Manifest \in Entries /\ MissingList \in Entries /\ Manifest # MissingList
BY ExportConstants DEF Objects, Entries

LEMMA SetOfQueue ==
  ASSUME NEW s \in Seq(Entries), NEW e \in Entries
  PROVE  /\ Append(s, e) \in Seq(Entries) /\ ToSet(Append(s, e)) = ToSet(s) \cup {e}
         /\ e \notin ToSet(s) /\ (\A i, j \in DOMAIN s : i # j => s[i] # s[j]) =>
              \A i, j \in DOMAIN Append(s, e) : i # j => Append(s, e)[i] # Append(s, e)[j]
<1> DEFINE t == Append(s, e)
<1>1. /\ t \in Seq(Entries) /\ Len(s) \in Nat
      /\ DOMAIN s = 1..Len(s) /\ DOMAIN t = 1..(Len(s) + 1)
      /\ \A i \in 1..Len(s) : t[i] = s[i]
      /\ t[Len(s) + 1] = e
  OBVIOUS
<1> HIDE DEF t
<1>2. ToSet(t) = ToSet(s) \cup {e}
  BY <1>1 DEF ToSet
<1>3. ASSUME e \notin ToSet(s), \A i, j \in DOMAIN s : i # j => s[i] # s[j],
             NEW i \in DOMAIN t, NEW j \in DOMAIN t, i # j
      PROVE  t[i] # t[j]
  <2>1. \A k \in DOMAIN s : s[k] # e
    BY <1>3 DEF ToSet
  <2>2. (i \in DOMAIN s \/ i = Len(s) + 1) /\ (j \in DOMAIN s \/ j = Len(s) + 1)
    BY <1>1, <1>3
  <2> QED BY <1>1, <1>3, <2>1, <2>2
<1> QED BY <1>1, <1>2, <1>3 DEF t

LEMMA SetOfTail ==
  ASSUME NEW s \in Seq(Entries), s # <<>>, \A i, j \in DOMAIN s : i # j => s[i] # s[j]
  PROVE  /\ Tail(s) \in Seq(Entries) /\ Head(s) \in Entries /\ Head(s) \in ToSet(s)
         /\ ToSet(Tail(s)) = ToSet(s) \ {Head(s)}
         /\ \A i, j \in DOMAIN Tail(s) : i # j => Tail(s)[i] # Tail(s)[j]
<1> DEFINE t == Tail(s)
<1>1. /\ t \in Seq(Entries) /\ Len(s) \in Nat /\ Len(s) > 0 /\ Head(s) = s[1]
      /\ DOMAIN s = 1..Len(s) /\ DOMAIN t = 1..(Len(s) - 1)
      /\ \A i \in 1..(Len(s) - 1) : t[i] = s[i + 1]
      /\ \A i \in 1..Len(s) : s[i] \in Entries
  OBVIOUS
<1> HIDE DEF t
<1>2. Head(s) \in Entries /\ Head(s) \in ToSet(s)
  BY <1>1 DEF ToSet
<1>3. ToSet(t) = ToSet(s) \ {s[1]}
  <2>1. ASSUME NEW e \in ToSet(t) PROVE e \in ToSet(s) /\ e # s[1]
    <3>1. PICK i \in DOMAIN t : e = t[i]
      BY <2>1 DEF ToSet
    <3>2. i + 1 \in DOMAIN s /\ i + 1 # 1 /\ 1 \in DOMAIN s /\ e = s[i + 1]
      BY <1>1, <3>1
    <3> QED BY <3>2 DEF ToSet
  <2>2. ASSUME NEW e \in ToSet(s), e # s[1] PROVE e \in ToSet(t)
    <3>1. PICK i \in DOMAIN s : e = s[i]
      BY <2>2 DEF ToSet
    <3>2. i - 1 \in DOMAIN t /\ t[i - 1] = s[i]
      BY <1>1, <2>2, <3>1
    <3> QED BY <3>1, <3>2 DEF ToSet
  <2> QED BY <2>1, <2>2
<1>4. \A i, j \in DOMAIN t : i # j => t[i] # t[j]
  <2> SUFFICES ASSUME NEW i \in DOMAIN t, NEW j \in DOMAIN t, i # j PROVE t[i] # t[j]
    OBVIOUS
  <2>1. i + 1 \in DOMAIN s /\ j + 1 \in DOMAIN s /\ i + 1 # j + 1
    BY <1>1
  <2> QED BY <1>1, <2>1
<1> QED BY <1>1, <1>2, <1>3, <1>4 DEF t

LEMMA EmptyQueue ==
  ASSUME NEW s \in Seq(Entries)
  PROVE  ToSet(s) = {} <=> s = <<>>
<1>1. s # <<>> => s[1] \in ToSet(s)
  <2>1. s # <<>> => 1 \in DOMAIN s
    OBVIOUS
  <2> QED BY <2>1 DEF ToSet
<1>2. s = <<>> => ToSet(s) = {}
  BY DEF ToSet
<1> QED BY <1>1, <1>2

-----------------------------------------------------------------------------
(***************************************************************************)
(* What a step means to the ledger.                                        *)
(***************************************************************************)

SameClasses == \A p \in Objects : tasks'[p].class = tasks[p].class

Classified(o) ==
  /\ tasks[o].class = "pending" /\ tasks'[o].class \in Class
  /\ \A p \in Objects : p # o => tasks'[p].class = tasks[p].class

AllClassified == \A p \in Objects : tasks[p].class # "pending"

LedgerStep ==
  \/ engine'.pc = engine.pc /\ \E o \in Objects : Classified(o)
  \/ /\ SameClasses
     /\ \/ engine'.pc = engine.pc
        \/ engine.pc \notin {"returned", "thrown"} /\ engine'.pc # "returned"
        \/ engine.pc \in {"flush", "csv"} /\ engine'.pc = "returned" /\ AllClassified

Kept == AInv' /\ LedgerStep

LEMMA TaskFacts ==
  ASSUME AInv, NEW o \in Objects
  PROVE  /\ tasks[o] \in Task /\ TaskRight(tasks[o], zip[o])
         /\ tasks[o].step = "append" <=> o \in ToSet(writer.pending)
BY DEF AInv, Parts, TasksRight, QueueRight

\* Once all batches are over, every object is done and has its class.
LEMMA AllDone ==
  ASSUME AInv, engine.pc \in {"flush", "csv", "returned"}
  PROVE  AllClassified /\ \A o \in Objects : tasks[o].step = "done"
BY DEF AInv, EngineRight, AllClassified

\* Downloads go on only during a batch or when the engine has thrown.
LEMMA ActiveInBatch ==
  ASSUME AInv, NEW o \in Objects, tasks[o].step \notin {"listed", "done"}
  PROVE  engine.pc \in {"batch", "thrown"}
<1>1. EngineRight /\ engine \in Engine
  BY DEF AInv, Parts
<1>2. BatchOf[o] \in Nat /\ engine.batch \in Nat
  BY <1>1, ObjectFacts DEF Engine
<1>3. BatchOf[o] < engine.batch \/ BatchOf[o] > engine.batch \/ BatchOf[o] = engine.batch
  BY <1>2
<1> QED BY <1>1, <1>3 DEF EngineRight

-----------------------------------------------------------------------------
(***************************************************************************)
(* The steps of a download.                                                *)
(***************************************************************************)

Working == {"start", "get", "spool"}

\* A download goes on to t without touching the archive.
LEMMA MoveKeeps ==
  ASSUME AInv, NEW o \in Objects, tasks[o].step \in Working,
         NEW t \in Task, t.step \in Working, t.class = tasks[o].class,
         tasks' = [tasks EXCEPT ![o] = t],
         UNCHANGED <<engine, progress, writer, zip, signal>>
  PROVE  Kept
<1>1. Parts /\ TasksRight /\ QueueRight /\ EngineRight /\ OwnEntries
  BY DEF AInv
<1>2. /\ tasks' \in [Objects -> Task] /\ tasks'[o] = t
      /\ \A p \in Objects : p # o => tasks'[p] = tasks[p]
  BY <1>1 DEF Parts
<1>3. /\ t.step \notin {"listed", "append", "written", "done"}
      /\ tasks[o].step \notin {"listed", "append", "written", "done"}
  BY DEF Working
<1>4. SameClasses
  BY <1>2 DEF SameClasses
<1>5. Parts'
  BY <1>1, <1>2 DEF Parts
<1>6. TasksRight'
  BY <1>1, <1>2, <1>3 DEF TasksRight, TaskRight
<1>7. QueueRight'
  BY <1>1, <1>2, <1>3 DEF QueueRight
<1>8. EngineRight'
  BY <1>1, <1>2, <1>3 DEF EngineRight
<1>9. OwnEntries'
  BY <1>1, <1>4 DEF OwnEntries, SomeMissing, SameClasses
<1> QED BY <1>4, <1>5, <1>6, <1>7, <1>8, <1>9 DEF Kept, AInv, LedgerStep

\* What leaving does to the others: the gate may let some of them in.
LEMMA LeaveEffect ==
  ASSUME AInv, NEW o \in Objects, NEW class \in Class \cup {"pending"}, Leave(o, class),
         tasks[o].step # "waiting"
  PROVE  /\ tasks' \in [Objects -> Task]
         /\ tasks'[o].step = "done" /\ tasks'[o].class = class
         /\ \A p \in Objects : p # o =>
              /\ tasks'[p].class = tasks[p].class
              /\ \/ tasks'[p].step = tasks[p].step
                 \/ tasks[p].step = "waiting" /\ tasks'[p].step = "start"
<1> DEFINE d == [step |-> "done", attempt |-> 1, class |-> class]
           after == [tasks EXCEPT ![o] = d]
<1>1. tasks' = Entered(after, Release(gate, o))
  BY DEF Leave
<1>2. d \in Task /\ d.step = "done" /\ d.class = class
  BY ExportConstants DEF Task, Step
<1>3. after \in [Objects -> Task] /\ after[o] = d /\ \A p \in Objects : p # o => after[p] = tasks[p]
  BY <1>2 DEF AInv, Parts
<1> HIDE DEF d, after
<1>4. \A p \in Objects :
        \/ tasks'[p] = after[p]
        \/ after[p].step = "waiting" /\ tasks'[p] = [after[p] EXCEPT !.step = "start"]
  BY <1>1 DEF Entered
<1>5. \A p \in Objects : LET t == [after[p] EXCEPT !.step = "start"]
                         IN  t \in Task /\ t.step = "start" /\ t.class = after[p].class
  BY <1>3 DEF Task, Step
<1>6. tasks' = [p \in Objects |-> tasks'[p]]
  BY <1>1 DEF Entered
<1>7. tasks' \in [Objects -> Task]
  BY <1>3, <1>4, <1>5, <1>6
<1> QED BY <1>2, <1>3, <1>4, <1>5, <1>7

\* A download is over.
LEMMA LeaveKeeps ==
  ASSUME AInv, NEW o \in Objects, tasks[o].step \in Working \cup {"written", "rejected"},
         NEW class \in Class \cup {"pending"}, Leave(o, class),
         class = "copied" <=> tasks[o].step = "written",
         engine' \in Engine, engine'.pc = engine.pc, engine'.batch = engine.batch,
         engine.failed => engine'.failed, class = "pending" => engine'.failed,
         progress' \in [posting: BOOLEAN, broken: BOOLEAN],
         UNCHANGED <<writer, zip, signal>>
  PROVE  Kept
<1>1. Parts /\ TasksRight /\ QueueRight /\ EngineRight /\ OwnEntries
  BY DEF AInv
<1>2. tasks[o].step \notin {"listed", "waiting", "append", "done"}
  BY DEF Working
<1>3. /\ tasks' \in [Objects -> Task]
      /\ tasks'[o].step = "done" /\ tasks'[o].class = class
      /\ \A p \in Objects : p # o =>
           /\ tasks'[p].class = tasks[p].class
           /\ \/ tasks'[p].step = tasks[p].step
              \/ tasks[p].step = "waiting" /\ tasks'[p].step = "start"
  BY <1>2, LeaveEffect
<1>4. engine.pc \in {"batch", "thrown"} /\ tasks[o].class = "pending"
  BY <1>2, ActiveInBatch, TaskFacts DEF TaskRight
<1>5. Parts'
  BY <1>1, <1>3 DEF Parts
<1>6. TasksRight'
  <2>1. TaskRight(tasks'[o], zip'[o])
    <3>1. zip[o] = IF tasks[o].step = "written" THEN 1 ELSE 0
      BY <1>4, TaskFacts DEF TaskRight
    <3> QED BY <1>3, <3>1 DEF TaskRight
  <2>2. ASSUME NEW p \in Objects, p # o PROVE TaskRight(tasks'[p], zip'[p])
    BY <1>3, <2>2, TaskFacts DEF TaskRight
  <2> QED BY <2>1, <2>2 DEF TasksRight
<1>7. QueueRight'
  BY <1>1, <1>2, <1>3 DEF QueueRight
<1>8. EngineRight'
  BY <1>1, <1>2, <1>3, <1>4 DEF EngineRight
<1>9. OwnEntries'
  BY <1>1, <1>4 DEF OwnEntries
<1>10. LedgerStep
  <2>1. class = "pending" => SameClasses
    BY <1>3, <1>4 DEF SameClasses
  <2>2. class # "pending" => Classified(o)
    BY <1>3, <1>4 DEF Classified
  <2> QED BY <2>1, <2>2 DEF LedgerStep
<1> QED BY <1>5, <1>6, <1>7, <1>8, <1>9, <1>10 DEF Kept, AInv

LEMMA EngineFails ==
  ASSUME AInv
  PROVE  LET e == [engine EXCEPT !.failed = TRUE]
         IN  e \in Engine /\ e.pc = engine.pc /\ e.batch = engine.batch /\ e.failed
BY DEF AInv, Parts, Engine

LEMMA ThrowsKeeps ==
  ASSUME AInv, NEW o \in Objects, tasks[o].step \in Working \cup {"rejected"}, Throws(o)
  PROVE  Kept
<1>1. /\ Leave(o, "pending") /\ engine' = [engine EXCEPT !.failed = TRUE]
      /\ UNCHANGED <<progress, writer, zip, signal>>
  BY DEF Throws
<1>2. /\ engine' \in Engine /\ engine'.pc = engine.pc /\ engine'.batch = engine.batch
      /\ engine'.failed
  BY <1>1, EngineFails
<1>3. progress' \in [posting: BOOLEAN, broken: BOOLEAN]
  BY <1>1 DEF AInv, Parts
<1>4. tasks[o].step # "written"
  BY DEF Working
<1> QED BY <1>1, <1>2, <1>3, <1>4, LeaveKeeps

LEMMA EmitTyped ==
  ASSUME AInv, NEW forced \in BOOLEAN, Emit(forced)
  PROVE  progress' \in [posting: BOOLEAN, broken: BOOLEAN]
<1>1. progress \in [posting: BOOLEAN, broken: BOOLEAN]
  BY DEF AInv, Parts
<1> QED BY <1>1 DEF Emit

LEMMA EndsKeeps ==
  ASSUME AInv, NEW o \in Objects, NEW class \in Class, Ends(o, class),
         \/ class = "missing" /\ tasks[o].step \in Working
         \/ class = "copied" /\ tasks[o].step = "written"
  PROVE  Kept
<1>1. /\ Leave(o, class) /\ UNCHANGED <<writer, zip, signal>>
      /\ \/ engine' = [engine EXCEPT !.failed = TRUE] /\ UNCHANGED progress
         \/ UNCHANGED engine /\ Emit(FALSE)
  BY DEF Ends
<1>2. progress' \in [posting: BOOLEAN, broken: BOOLEAN]
  <2>1. progress \in [posting: BOOLEAN, broken: BOOLEAN]
    BY DEF AInv, Parts
  <2> QED BY <1>1, <2>1, EmitTyped
<1>3. /\ engine' \in Engine /\ engine'.pc = engine.pc /\ engine'.batch = engine.batch
      /\ engine.failed => engine'.failed
  <2>1. engine \in Engine
    BY DEF AInv, Parts
  <2> QED BY <1>1, <2>1, EngineFails
<1>4. class # "pending" /\ (class = "copied" <=> tasks[o].step = "written")
  BY DEF Working, Class
<1> QED BY <1>1, <1>2, <1>3, <1>4, LeaveKeeps

\* The object joins the queue of the writer.
LEMMA AppendKeeps ==
  ASSUME AInv, NEW o \in Objects, tasks[o].step \in Working, writer.state = "open",
         Advance(o, "append"), AppendEntry(o), Unchanged
  PROVE  Kept
<1> DEFINE t == [tasks[o] EXCEPT !.step = "append"]
           q == writer.pending
           r == Append(writer.pending, o)
<1>1. Parts /\ TasksRight /\ QueueRight /\ EngineRight /\ OwnEntries
  BY DEF AInv
<1>2. t \in Task /\ t.step = "append" /\ t.class = tasks[o].class
  BY TaskFacts DEF Task, Step
<1>3. tasks' = [tasks EXCEPT ![o] = t] /\ UNCHANGED <<engine, progress, zip, signal>>
  BY <1>1 DEF Advance, Unchanged, Parts
<1>4. /\ writer' \in [state: {"open", "broken", "complete"}, pending: Seq(Entries)]
      /\ writer'.state = "open" /\ writer'.pending = r
      /\ q \in Seq(Entries)
  <2>1. q \in Seq(Entries) /\ o \in Entries
    BY <1>1, ObjectFacts DEF Parts
  <2>2. r \in Seq(Entries)
    BY <2>1
  <2>3. writer' = [writer EXCEPT !.pending = r]
    BY <1>1 DEF AppendEntry, Parts
  <2> HIDE DEF r
  <2> QED BY <1>1, <2>1, <2>2, <2>3 DEF Parts
<1> HIDE DEF t, q, r
<1>5. /\ tasks' \in [Objects -> Task] /\ tasks'[o] = t
      /\ \A p \in Objects : p # o => tasks'[p] = tasks[p]
  BY <1>1, <1>2, <1>3 DEF Parts
<1>6. tasks[o].step \notin {"listed", "append", "written", "done"}
  BY DEF Working
<1>7. o \notin ToSet(q)
  BY <1>6, TaskFacts DEF q
<1>8. ToSet(r) = ToSet(q) \cup {o} /\ \A i, j \in DOMAIN r : i # j => r[i] # r[j]
  <2>1. \A i, j \in DOMAIN q : i # j => q[i] # q[j]
    BY <1>1 DEF QueueRight, q
  <2> QED BY <1>4, <1>7, <2>1, ObjectFacts, SetOfQueue DEF q, r
<1>9. SameClasses
  BY <1>2, <1>5 DEF SameClasses
<1>10. Parts'
  BY <1>1, <1>3, <1>4, <1>5 DEF Parts
<1>11. TasksRight'
  BY <1>1, <1>2, <1>3, <1>5, <1>6 DEF TasksRight, TaskRight
<1>12. QueueRight'
  BY <1>1, <1>2, <1>3, <1>4, <1>5, <1>8, ObjectFacts DEF QueueRight, q
<1>13. EngineRight'
  BY <1>1, <1>2, <1>3, <1>5, <1>6 DEF EngineRight
<1>14. OwnEntries'
  BY <1>1, <1>3, <1>4, <1>9 DEF OwnEntries, SomeMissing, SameClasses
<1> QED BY <1>3, <1>9, <1>10, <1>11, <1>12, <1>13, <1>14 DEF Kept, AInv, LedgerStep

LEMMA AgainKeeps ==
  ASSUME AInv, NEW o \in Objects, tasks[o].step \in Working, Again(o)
  PROVE  Kept
<1>1. CASE tasks[o].attempt < MaxAttempts
  <2> DEFINE t == [tasks[o] EXCEPT !.step = "start", !.attempt = @ + 1]
  <2>1. tasks[o].attempt + 1 \in 1..MaxAttempts
    BY <1>1, TaskFacts, ExportConstants DEF Task
  <2>2. t \in Task /\ t.step = "start" /\ t.class = tasks[o].class
    BY <2>1, TaskFacts DEF Task, Step
  <2>3. tasks' = [tasks EXCEPT ![o] = t] /\ UNCHANGED <<engine, progress, writer, zip, signal>>
    BY <1>1 DEF Again, Unchanged, AInv, Parts
  <2> HIDE DEF t
  <2> QED BY <2>2, <2>3, MoveKeeps DEF Working
<1>2. CASE ~(tasks[o].attempt < MaxAttempts)
  BY <1>2, EndsKeeps DEF Again, Class
<1> QED BY <1>1, <1>2

LEMMA AppendOrThrowKeeps ==
  ASSUME AInv, NEW o \in Objects, tasks[o].step \in Working, AppendOrThrow(o)
  PROVE  Kept
BY AppendKeeps, ThrowsKeeps DEF AppendOrThrow

LEMMA AdvanceKeeps ==
  ASSUME AInv, NEW o \in Objects, tasks[o].step \in Working, NEW step \in Working,
         Advance(o, step), Unchanged, UNCHANGED writer
  PROVE  Kept
<1> DEFINE t == [tasks[o] EXCEPT !.step = step]
<1>1. t \in Task /\ t.step = step /\ t.class = tasks[o].class
  BY TaskFacts DEF Task, Step, Working
<1>2. tasks' = [tasks EXCEPT ![o] = t] /\ UNCHANGED <<engine, progress, writer, zip, signal>>
  BY DEF Advance, Unchanged, AInv, Parts
<1> HIDE DEF t
<1> QED BY <1>1, <1>2, MoveKeeps

LEMMA DownloadsKeep ==
  ASSUME AInv, NEW o \in Objects, Downloads(o)
  PROVE  Kept
<1>1. CASE StartAttempt(o)
  BY <1>1, AdvanceKeeps DEF StartAttempt, At, Working
<1>2. CASE FindsAborted(o)
  BY <1>2, ThrowsKeeps DEF FindsAborted, At, Working
<1>3. CASE GetFails(o)
  BY <1>3, AgainKeeps DEF GetFails, At, Working
<1>4. CASE GetRefused(o)
  BY <1>4, EndsKeeps DEF GetRefused, At, Working, Class
<1>5. CASE GetStream(o)
  BY <1>5, AdvanceKeeps DEF GetStream, At, Working
<1>6. CASE GetBuffer(o)
  BY <1>6, AppendOrThrowKeeps DEF GetBuffer, At, Working
<1>7. CASE SpoolFails(o)
  BY <1>7, AgainKeeps, EndsKeeps, ThrowsKeeps DEF SpoolFails, At, Working, Class
<1>8. CASE SpoolSucceeds(o)
  BY <1>8, AppendOrThrowKeeps DEF SpoolSucceeds, At, Working
<1>9. CASE CountWritten(o)
  BY <1>9, EndsKeeps DEF CountWritten, At, Class
<1>10. CASE ThrowRejected(o)
  BY <1>10, ThrowsKeeps DEF ThrowRejected, At
<1> QED BY <1>1, <1>2, <1>3, <1>4, <1>5, <1>6, <1>7, <1>8, <1>9, <1>10 DEF Downloads

-----------------------------------------------------------------------------
(***************************************************************************)
(* The archive writer.                                                     *)
(***************************************************************************)

LEMMA InvParts ==
  ASSUME AInv
  PROVE  /\ Parts /\ TasksRight /\ QueueRight /\ EngineRight /\ OwnEntries
         /\ engine \in Engine /\ tasks \in [Objects -> Task]
         /\ writer.pending \in Seq(Entries) /\ zip \in [Entries -> Nat]
BY DEF AInv, Parts

\* The output breaks, and all who wait for an entry hear of it.
LEMMA BreakKeeps ==
  ASSUME AInv, Break, UNCHANGED <<progress, zip>>, signal' \in BOOLEAN
  PROVE  Kept
<1> DEFINE pending == ToSet(writer.pending)
<1>1. /\ writer.state = "open" /\ writer' = [state |-> "broken", pending |-> <<>>]
      /\ tasks' = [o \in Objects |-> IF o \in pending THEN [tasks[o] EXCEPT !.step = "rejected"]
                                                      ELSE tasks[o]]
      /\ engine' = IF pending \cap {Manifest, MissingList} = {} THEN engine
                   ELSE [engine EXCEPT !.pc = "thrown"]
  BY DEF Break, RejectPending
<1>2. \A o \in Objects : LET t == [tasks[o] EXCEPT !.step = "rejected"]
                         IN  t \in Task /\ t.step = "rejected" /\ t.class = tasks[o].class
  BY InvParts DEF Task, Step
<1>3. /\ \A o \in Objects : tasks[o].step = "append" <=> o \in pending
      /\ engine.pc = "manifest" <=> Manifest \in pending
      /\ engine.pc = "csv" <=> MissingList \in pending
  BY InvParts DEF QueueRight
<1> HIDE DEF pending
<1>4. /\ tasks' \in [Objects -> Task]
      /\ \A o \in Objects :
           /\ tasks'[o].class = tasks[o].class
           /\ tasks[o].step = "append" => tasks'[o].step = "rejected"
           /\ tasks[o].step # "append" => tasks'[o].step = tasks[o].step
  <2>1. \A o \in Objects : IF o \in pending THEN [tasks[o] EXCEPT !.step = "rejected"] \in Task
                                            ELSE tasks[o] \in Task
    BY <1>2, InvParts
  <2>2. tasks' \in [Objects -> Task]
    BY <1>1, <2>1
  <2> QED BY <1>1, <1>2, <1>3, <2>2
<1>5. /\ engine' \in Engine /\ engine'.batch = engine.batch /\ engine'.failed = engine.failed
      /\ engine'.pc = IF engine.pc \in {"manifest", "csv"} THEN "thrown" ELSE engine.pc
  <2>1. LET e == [engine EXCEPT !.pc = "thrown"]
        IN e \in Engine /\ e.pc = "thrown" /\ e.batch = engine.batch /\ e.failed = engine.failed
    BY InvParts DEF Engine
  <2>2. pending \cap {Manifest, MissingList} = {} <=> engine.pc \notin {"manifest", "csv"}
    BY <1>3
  <2> QED BY <1>1, <2>1, <2>2, InvParts
<1>6. SameClasses
  BY <1>4 DEF SameClasses
<1>7. Parts'
  BY <1>1, <1>4, <1>5, InvParts DEF Parts
<1>8. TasksRight'
  BY <1>4, InvParts DEF TasksRight, TaskRight
<1>9. QueueRight'
  <2>1. writer'.pending = <<>> /\ ToSet(writer'.pending) = {}
    BY <1>1 DEF ToSet
  <2>2. \A o \in Objects : tasks'[o].step # "append"
    BY <1>4
  <2> QED BY <1>5, <2>1, <2>2 DEF QueueRight
<1>10. EngineRight'
  BY <1>4, <1>5, InvParts DEF EngineRight
<1>11. OwnEntries'
  BY <1>1, <1>5, <1>6, InvParts DEF OwnEntries, SomeMissing, SameClasses
<1> QED BY <1>5, <1>6, <1>7, <1>8, <1>9, <1>10, <1>11 DEF Kept, AInv, LedgerStep

LEMMA EntryWrittenKeeps ==
  ASSUME AInv, EntryWritten PROVE Kept
<1> DEFINE e == Head(writer.pending)
           q == writer.pending
<1>1. /\ q # <<>> /\ writer' = [writer EXCEPT !.pending = Tail(q)]
      /\ zip' = [zip EXCEPT ![e] = @ + 1] /\ UNCHANGED <<gate, signal>>
      /\ IF e \in Objects
         THEN tasks' = [tasks EXCEPT ![e].step = "written"] /\ UNCHANGED <<engine, progress>>
         ELSE IF e = Manifest
         THEN engine' = [engine EXCEPT !.pc = "scan"] /\ Emit(Objects # {}) /\ UNCHANGED tasks
         ELSE engine' = [engine EXCEPT !.pc = "returned"] /\ UNCHANGED <<tasks, progress>>
  <2>1. [writer EXCEPT !.pending = Tail(@)] = [writer EXCEPT !.pending = Tail(q)]
    BY DEF AInv, Parts
  <2> QED BY <2>1 DEF EntryWritten
<1>2. /\ Tail(q) \in Seq(Entries) /\ e \in Entries /\ e \in ToSet(q)
      /\ ToSet(Tail(q)) = ToSet(q) \ {e}
      /\ \A i, j \in DOMAIN Tail(q) : i # j => Tail(q)[i] # Tail(q)[j]
  BY <1>1, InvParts, SetOfTail DEF QueueRight
<1>3. /\ writer' \in [state: {"open", "broken", "complete"}, pending: Seq(Entries)]
      /\ writer'.state = writer.state /\ writer.state = "open" /\ writer'.pending = Tail(q)
  <2>1. writer.state = "open"
    BY <1>1, InvParts DEF QueueRight
  <2>2. writer \in [state: {"open", "broken", "complete"}, pending: Seq(Entries)]
    BY InvParts DEF Parts
  <2> HIDE DEF q, e
  <2> QED BY <1>1, <1>2, <2>1, <2>2
<1> HIDE DEF e, q
<1>4. /\ zip' \in [Entries -> Nat] /\ zip'[e] = zip[e] + 1
      /\ \A f \in Entries : f # e => zip'[f] = zip[f]
  BY <1>1, <1>2, InvParts
<1>5. CASE e \in Objects
  <2> DEFINE t == [tasks[e] EXCEPT !.step = "written"]
  <2>1. t \in Task /\ t.step = "written" /\ t.class = tasks[e].class
    BY <1>5, TaskFacts DEF Task, Step
  <2>2. tasks' = [tasks EXCEPT ![e] = t] /\ UNCHANGED <<engine, progress>>
    BY <1>1, <1>5, InvParts
  <2> HIDE DEF t
  <2>3. /\ tasks' \in [Objects -> Task] /\ tasks'[e] = t
        /\ \A p \in Objects : p # e => tasks'[p] = tasks[p]
    BY <1>5, <2>1, <2>2, InvParts
  <2>4. tasks[e].step = "append" /\ e # Manifest /\ e # MissingList
    BY <1>2, <1>5, TaskFacts, ObjectFacts DEF q
  <2>5. zip[e] = 0 /\ tasks[e].class = "pending"
    BY <1>5, <2>4, TaskFacts DEF TaskRight
  <2>6. SameClasses
    BY <2>1, <2>3 DEF SameClasses
  <2>7. Parts'
    BY <1>1, <1>3, <1>4, <2>2, <2>3, InvParts DEF Parts
  <2>8. TasksRight'
    <3>1. TaskRight(tasks'[e], zip'[e])
      BY <1>4, <2>1, <2>3, <2>5 DEF TaskRight
    <3>2. ASSUME NEW p \in Objects, p # e PROVE TaskRight(tasks'[p], zip'[p])
      BY <1>4, <2>3, <3>2, TaskFacts, ObjectFacts
    <3> QED BY <3>1, <3>2 DEF TasksRight
  <2>9. QueueRight'
    BY <1>2, <1>3, <1>5, <2>1, <2>2, <2>3, <2>4, InvParts, ObjectFacts DEF QueueRight, q
  <2>10. EngineRight'
    BY <1>5, <2>1, <2>2, <2>3, <2>4, InvParts DEF EngineRight
  <2>11. OwnEntries'
    BY <1>3, <1>4, <2>2, <2>4, <2>6, InvParts, ObjectFacts DEF OwnEntries, SomeMissing, SameClasses
  <2> QED BY <2>2, <2>6, <2>7, <2>8, <2>9, <2>10, <2>11 DEF Kept, AInv, LedgerStep
<1>6. ASSUME e \notin Objects
      PROVE  \/ e = Manifest /\ engine.pc = "manifest"
             \/ e = MissingList /\ engine.pc = "csv"
  BY <1>2, <1>6, InvParts DEF Entries, QueueRight, q
<1>7. ASSUME e \notin Objects, UNCHANGED tasks
      PROVE  TasksRight' /\ SameClasses
  BY <1>4, <1>7, InvParts, ObjectFacts DEF TasksRight, TaskRight, SameClasses
<1>8. CASE e = Manifest
  <2>1. e \notin Objects /\ engine.pc = "manifest"
    BY <1>6, <1>8, ObjectFacts
  <2>2. engine' = [engine EXCEPT !.pc = "scan"] /\ Emit(Objects # {}) /\ UNCHANGED tasks
    BY <1>1, <1>8, <2>1
  <2>3. /\ engine' \in Engine /\ engine'.pc = "scan" /\ engine'.batch = engine.batch
        /\ engine'.failed = engine.failed
    BY <2>2, InvParts DEF Engine
  <2>4. progress' \in [posting: BOOLEAN, broken: BOOLEAN]
    BY <2>2, EmitTyped
  <2>5. Parts'
    BY <1>1, <1>3, <1>4, <2>2, <2>3, <2>4, InvParts DEF Parts
  <2>6. QueueRight'
    BY <1>2, <1>3, <1>8, <2>1, <2>2, <2>3, InvParts, ObjectFacts DEF QueueRight, q
  <2>7. EngineRight'
    BY <2>1, <2>2, <2>3, InvParts DEF EngineRight
  <2>8. OwnEntries'
    BY <1>3, <1>4, <1>8, <2>1, <2>2, <2>3, InvParts, ObjectFacts DEF OwnEntries, SomeMissing
  <2> QED BY <1>7, <2>1, <2>2, <2>3, <2>5, <2>6, <2>7, <2>8 DEF Kept, AInv, LedgerStep
<1>9. CASE e = MissingList
  <2>1. e \notin Objects /\ engine.pc = "csv" /\ e # Manifest
    BY <1>6, <1>9, ObjectFacts
  <2>2. engine' = [engine EXCEPT !.pc = "returned"] /\ UNCHANGED <<tasks, progress>>
    BY <1>1, <2>1
  <2>3. /\ engine' \in Engine /\ engine'.pc = "returned" /\ engine'.batch = engine.batch
        /\ engine'.failed = engine.failed
    BY <2>2, InvParts DEF Engine
  <2>4. Parts'
    BY <1>1, <1>3, <1>4, <2>2, <2>3, InvParts DEF Parts
  <2>5. QueueRight'
    BY <1>2, <1>3, <1>9, <2>1, <2>2, <2>3, InvParts, ObjectFacts DEF QueueRight, q
  <2>6. EngineRight'
    BY <2>1, <2>2, <2>3, InvParts DEF EngineRight
  <2>7. OwnEntries'
    BY <1>3, <1>4, <1>9, <2>1, <2>2, <2>3, InvParts, ObjectFacts DEF OwnEntries, SomeMissing
  <2>8. AllClassified
    BY <2>1, AllDone
  <2> QED BY <1>7, <2>1, <2>2, <2>3, <2>4, <2>5, <2>6, <2>7, <2>8 DEF Kept, AInv, LedgerStep
<1> QED BY <1>2, <1>5, <1>8, <1>9 DEF Entries

LEMMA FinalizeKeeps ==
  ASSUME AInv, Finalize PROVE Kept
<1>1. /\ engine.pc = "returned" /\ writer' = [writer EXCEPT !.state = "complete"]
      /\ UNCHANGED <<engine, tasks, progress, zip, signal>>
  BY DEF Finalize
<1>2. writer.pending = <<>>
  <2>1. \A o \in Objects : o \notin ToSet(writer.pending)
    BY <1>1, AllDone, TaskFacts
  <2>2. Manifest \notin ToSet(writer.pending) /\ MissingList \notin ToSet(writer.pending)
    BY <1>1, InvParts DEF QueueRight
  <2>3. ToSet(writer.pending) \subseteq Entries
    BY InvParts DEF ToSet
  <2>4. ToSet(writer.pending) = {}
    BY <2>1, <2>2, <2>3 DEF Entries
  <2> QED BY <2>4, InvParts, EmptyQueue
<1>3. /\ writer' \in [state: {"open", "broken", "complete"}, pending: Seq(Entries)]
      /\ writer'.pending = writer.pending
  BY <1>1, InvParts DEF Parts
<1>4. Parts'
  BY <1>1, <1>3, InvParts DEF Parts
<1>5. TasksRight' /\ EngineRight'
  BY <1>1, InvParts DEF TasksRight, EngineRight
<1>6. QueueRight'
  BY <1>1, <1>2, <1>3, InvParts DEF QueueRight
<1>7. OwnEntries'
  BY <1>1, InvParts DEF OwnEntries, SomeMissing
<1>8. SameClasses
  BY <1>1 DEF SameClasses
<1> QED BY <1>1, <1>4, <1>5, <1>6, <1>7, <1>8 DEF Kept, AInv, LedgerStep

-----------------------------------------------------------------------------
(***************************************************************************)
(* The engine.                                                             *)
(***************************************************************************)

LEMMA EngineGoes ==
  ASSUME AInv,
         NEW pc \in {"list", "manifest", "scan", "batch", "flush", "csv", "returned", "thrown"},
         Go(pc)
  PROVE  /\ engine' \in Engine /\ engine'.pc = pc /\ engine'.batch = engine.batch
         /\ engine'.failed = engine.failed
BY InvParts DEF Go, Engine

\* The engine throws.
LEMMA ThrownKeeps ==
  ASSUME AInv, Go("thrown"), engine.pc \notin {"manifest", "csv", "returned", "thrown"},
         Unmoved, UNCHANGED writer, progress' \in [posting: BOOLEAN, broken: BOOLEAN]
  PROVE  Kept
<1>1. /\ engine' \in Engine /\ engine'.pc = "thrown" /\ engine'.batch = engine.batch
      /\ engine'.failed = engine.failed /\ UNCHANGED <<tasks, zip, signal, writer>>
  BY EngineGoes DEF Unmoved
<1>2. Parts'
  BY <1>1, InvParts DEF Parts
<1>3. TasksRight' /\ EngineRight'
  BY <1>1, InvParts DEF TasksRight, EngineRight
<1>4. QueueRight'
  BY <1>1, InvParts DEF QueueRight
<1>5. OwnEntries'
  BY <1>1, InvParts DEF OwnEntries
<1>6. SameClasses
  BY <1>1 DEF SameClasses
<1> QED BY <1>1, <1>2, <1>3, <1>4, <1>5, <1>6 DEF Kept, AInv, LedgerStep

\* The engine appends an entry of its own, or throws.
LEMMA AppendOwnKeeps ==
  ASSUME AInv, NEW e, NEW pc, AppendOwn(e, pc), Unmoved, UNCHANGED progress,
         \/ e = Manifest /\ pc = "manifest" /\ engine.pc = "list"
         \/ e = MissingList /\ pc = "csv" /\ engine.pc = "flush" /\ SomeMissing
  PROVE  Kept
<1>1. CASE signal \/ writer.state # "open"
  <2>1. Go("thrown") /\ UNCHANGED writer
    BY <1>1 DEF AppendOwn
  <2> QED BY <2>1, InvParts, ThrownKeeps DEF Parts
<1>2. CASE ~(signal \/ writer.state # "open")
  <2> DEFINE q == writer.pending
             r == Append(writer.pending, e)
  <2>1. Go(pc) /\ writer' = [writer EXCEPT !.pending = Append(@, e)] /\ writer.state = "open"
    BY <1>2 DEF AppendOwn, AppendEntry
  <2>2. /\ engine' \in Engine /\ engine'.pc = pc /\ engine'.batch = engine.batch
        /\ engine'.failed = engine.failed /\ UNCHANGED <<tasks, zip, signal>>
    BY <2>1, EngineGoes DEF Unmoved
  <2>3. e \in Entries /\ e \notin Objects
    BY ObjectFacts, ExportConstants
  <2>4. e \notin ToSet(q)
    BY InvParts DEF QueueRight
  <2>5. /\ q \in Seq(Entries) /\ r \in Seq(Entries) /\ ToSet(r) = ToSet(q) \cup {e}
        /\ \A i, j \in DOMAIN r : i # j => r[i] # r[j]
    <3>1. \A i, j \in DOMAIN q : i # j => q[i] # q[j]
      BY InvParts DEF QueueRight
    <3> QED BY <2>3, <2>4, <3>1, InvParts, SetOfQueue
  <2>6. /\ writer' \in [state: {"open", "broken", "complete"}, pending: Seq(Entries)]
        /\ writer'.state = "open" /\ writer'.pending = r
    <3>1. writer \in [state: {"open", "broken", "complete"}, pending: Seq(Entries)]
      BY InvParts DEF Parts
    <3>2. writer' = [writer EXCEPT !.pending = r]
      BY <2>1, <3>1
    <3> HIDE DEF r, q
    <3> QED BY <2>1, <2>5, <3>1, <3>2
  <2> HIDE DEF q, r
  <2>7. Parts'
    BY <2>2, <2>6, InvParts DEF Parts
  <2>8. TasksRight'
    BY <2>2, InvParts DEF TasksRight
  <2>9. QueueRight'
    BY <2>2, <2>3, <2>5, <2>6, InvParts, ObjectFacts DEF QueueRight, q
  <2>10. EngineRight'
    BY <2>2, InvParts DEF EngineRight
  <2>11. OwnEntries'
    BY <2>2, <2>6, InvParts DEF OwnEntries, SomeMissing
  <2>12. SameClasses
    BY <2>2 DEF SameClasses
  <2> QED BY <2>2, <2>7, <2>8, <2>9, <2>10, <2>11, <2>12 DEF Kept, AInv, LedgerStep
<1> QED BY <1>1, <1>2

LEMMA ListBucketsKeeps ==
  ASSUME AInv, ListBuckets PROVE Kept
<1>1. engine.pc = "list" /\ Unmoved /\ UNCHANGED progress
  BY DEF ListBuckets
<1>2. AppendOwn(Manifest, "manifest") \/ (Go("thrown") /\ UNCHANGED writer)
  BY DEF ListBuckets
<1> QED BY <1>1, <1>2, AppendOwnKeeps, ThrownKeeps, InvParts DEF Parts

LEMMA BeginBatchKeeps ==
  ASSUME AInv, BeginBatch PROVE Kept
<1>1. PICK g : tasks' = Entered([o \in Objects |->
                                  IF o \in Batch THEN [tasks[o] EXCEPT !.step = "waiting"]
                                                 ELSE tasks[o]], g)
  BY DEF BeginBatch
<1>2. /\ engine.pc = "scan" /\ Go("batch") /\ Emit(FALSE)
      /\ UNCHANGED <<writer, zip, signal>>
  BY DEF BeginBatch
<1>3. /\ engine' \in Engine /\ engine'.pc = "batch" /\ engine'.batch = engine.batch
      /\ engine'.failed = engine.failed
      /\ progress' \in [posting: BOOLEAN, broken: BOOLEAN]
  BY <1>2, EngineGoes, EmitTyped
<1> DEFINE asked == [o \in Objects |-> IF o \in Batch THEN [tasks[o] EXCEPT !.step = "waiting"]
                                                      ELSE tasks[o]]
<1>4. \A o \in Objects : \A s \in {"waiting", "start"} :
        LET t == [tasks[o] EXCEPT !.step = s]
        IN  t \in Task /\ t.step = s /\ t.class = tasks[o].class
  BY InvParts DEF Task, Step
<1>5. \A o \in Objects :
        /\ asked[o] \in Task /\ asked[o].class = tasks[o].class
        /\ o \in Batch => asked[o].step = "waiting"
        /\ o \notin Batch => asked[o].step = tasks[o].step
  BY <1>4, InvParts
<1>6. tasks' = Entered(asked, g)
  BY <1>1
<1> HIDE DEF asked
<1>7. \A o \in Objects : LET t == [asked[o] EXCEPT !.step = "start"]
                         IN  t \in Task /\ t.step = "start" /\ t.class = asked[o].class
  BY <1>5 DEF Task, Step
<1>8. \A o \in Objects :
        \/ tasks'[o] = asked[o]
        \/ asked[o].step = "waiting" /\ tasks'[o] = [asked[o] EXCEPT !.step = "start"]
  BY <1>6 DEF Entered
<1>9. tasks' = [o \in Objects |-> tasks'[o]]
  BY <1>6 DEF Entered
<1>10. tasks' \in [Objects -> Task]
  BY <1>5, <1>7, <1>8, <1>9
<1>11. \A o \in Objects : tasks[o].step \in {"listed", "done"}
  <2> SUFFICES ASSUME NEW o \in Objects PROVE tasks[o].step \in {"listed", "done"}
    OBVIOUS
  <2> QED BY <1>2, ActiveInBatch
<1>12. \A o \in Objects :
         /\ tasks'[o].class = tasks[o].class
         /\ o \in Batch => tasks'[o].step \in {"waiting", "start"}
         /\ o \notin Batch => tasks'[o].step = tasks[o].step
  BY <1>5, <1>7, <1>8, <1>11
<1>13. \A o \in Batch : tasks[o].step = "listed"
  BY <1>2, InvParts DEF EngineRight, Batch
<1>14. SameClasses
  BY <1>12 DEF SameClasses
<1>15. Parts'
  BY <1>2, <1>3, <1>10, InvParts DEF Parts
<1>16. TasksRight'
  BY <1>2, <1>11, <1>12, <1>13, InvParts DEF TasksRight, TaskRight
<1>17. QueueRight'
  BY <1>2, <1>3, <1>11, <1>12, InvParts DEF QueueRight
<1>18. EngineRight'
  <2>1. \A o \in Objects : /\ BatchOf[o] \in Nat /\ engine.batch \in Nat
                           /\ o \in Batch <=> BatchOf[o] = engine.batch
    BY ObjectFacts, InvParts DEF Batch, Engine
  <2> QED BY <1>2, <1>3, <1>11, <1>12, <1>13, <2>1, InvParts DEF EngineRight
<1>19. OwnEntries'
  BY <1>2, <1>3, <1>14, InvParts DEF OwnEntries, SomeMissing, SameClasses
<1> QED BY <1>2, <1>3, <1>14, <1>15, <1>16, <1>17, <1>18, <1>19 DEF Kept, AInv, LedgerStep

LEMMA EndBatchKeeps ==
  ASSUME AInv, EndBatch PROVE Kept
<1>1. /\ engine.pc = "batch" /\ ~engine.failed /\ BatchOver /\ Unmoved /\ UNCHANGED writer
      /\ IF progress.broken THEN Go("thrown") /\ UNCHANGED progress
         ELSE engine' = [engine EXCEPT !.pc = "scan", !.batch = @ + 1] /\ Emit(TRUE)
  BY DEF EndBatch
<1>2. CASE progress.broken
  BY <1>1, <1>2, ThrownKeeps, InvParts DEF Parts
<1>3. CASE ~progress.broken
  <2>1. engine.batch + 1 \in Nat /\ \A o \in Objects : BatchOf[o] \in Nat /\ engine.batch \in Nat
    BY InvParts, ObjectFacts DEF Engine
  <2>2. /\ engine' \in Engine /\ engine'.pc = "scan" /\ engine'.batch = engine.batch + 1
        /\ engine'.failed = engine.failed /\ UNCHANGED <<tasks, zip, signal, writer>>
    <3>1. engine' = [engine EXCEPT !.pc = "scan", !.batch = engine.batch + 1]
      BY <1>1, <1>3, InvParts DEF Engine
    <3> QED BY <1>1, <2>1, <3>1, InvParts DEF Engine, Unmoved
  <2>3. progress' \in [posting: BOOLEAN, broken: BOOLEAN]
    BY <1>1, <1>3, EmitTyped
  <2>4. Parts'
    BY <2>2, <2>3, InvParts DEF Parts
  <2>5. TasksRight' /\ SameClasses
    BY <2>2, InvParts DEF TasksRight, SameClasses
  <2>6. QueueRight'
    BY <1>1, <2>2, InvParts DEF QueueRight
  <2>7. EngineRight'
    <3>1. \A o \in Objects : BatchOf[o] = engine.batch => tasks[o].step = "done"
      BY <1>1 DEF BatchOver, Batch, Over
    <3>2. \A o \in Objects :
            /\ BatchOf[o] < engine.batch + 1 =>
                 BatchOf[o] < engine.batch \/ BatchOf[o] = engine.batch
            /\ BatchOf[o] >= engine.batch + 1 => BatchOf[o] > engine.batch
      BY <2>1
    <3>3. \A o \in Objects : /\ BatchOf[o] > engine.batch + 1 => BatchOf[o] >= engine.batch + 1
                             /\ BatchOf[o] = engine.batch + 1 => BatchOf[o] >= engine.batch + 1
      BY <2>1
    <3> QED BY <1>1, <2>2, <3>1, <3>2, <3>3, InvParts DEF EngineRight
  <2>8. OwnEntries'
    BY <1>1, <2>2, InvParts DEF OwnEntries
  <2> QED BY <1>1, <2>2, <2>4, <2>5, <2>6, <2>7, <2>8 DEF Kept, AInv, LedgerStep
<1> QED BY <1>2, <1>3

LEMMA ScanEndsKeeps ==
  ASSUME AInv, ScanEnds PROVE Kept
<1>1. /\ engine.pc = "scan" /\ Unmoved /\ UNCHANGED writer
      /\ \A o \in Objects : BatchOf[o] < engine.batch
      /\ IF progress.broken THEN Go("thrown") /\ UNCHANGED progress ELSE Go("flush") /\ Emit(TRUE)
  BY DEF ScanEnds
<1>2. CASE progress.broken
  BY <1>1, <1>2, ThrownKeeps, InvParts DEF Parts
<1>3. CASE ~progress.broken
  <2>1. /\ engine' \in Engine /\ engine'.pc = "flush" /\ engine'.batch = engine.batch
        /\ engine'.failed = engine.failed /\ UNCHANGED <<tasks, zip, signal, writer>>
        /\ progress' \in [posting: BOOLEAN, broken: BOOLEAN]
    BY <1>1, <1>3, EngineGoes, EmitTyped DEF Unmoved
  <2>2. Parts'
    BY <2>1, InvParts DEF Parts
  <2>3. TasksRight' /\ SameClasses
    BY <2>1, InvParts DEF TasksRight, SameClasses
  <2>4. QueueRight'
    BY <1>1, <2>1, InvParts DEF QueueRight
  <2>5. EngineRight'
    BY <1>1, <2>1, InvParts DEF EngineRight
  <2>6. OwnEntries'
    BY <1>1, <2>1, InvParts DEF OwnEntries
  <2> QED BY <1>1, <2>1, <2>2, <2>3, <2>4, <2>5, <2>6 DEF Kept, AInv, LedgerStep
<1> QED BY <1>2, <1>3

LEMMA FlushAndListKeeps ==
  ASSUME AInv, FlushAndList PROVE Kept
<1>1. /\ engine.pc = "flush" /\ Unmoved /\ UNCHANGED progress
      /\ IF progress.broken THEN Go("thrown") /\ UNCHANGED writer
         ELSE IF SomeMissing THEN AppendOwn(MissingList, "csv")
         ELSE Go("returned") /\ UNCHANGED writer
  BY DEF FlushAndList
<1>2. CASE progress.broken
  BY <1>1, <1>2, ThrownKeeps, InvParts DEF Parts
<1>3. CASE ~progress.broken /\ SomeMissing
  BY <1>1, <1>3, AppendOwnKeeps
<1>4. CASE ~progress.broken /\ ~SomeMissing
  <2>1. /\ engine' \in Engine /\ engine'.pc = "returned" /\ engine'.batch = engine.batch
        /\ engine'.failed = engine.failed /\ UNCHANGED <<tasks, zip, signal, writer, progress>>
    BY <1>1, <1>4, EngineGoes DEF Unmoved
  <2>2. Parts'
    BY <2>1, InvParts DEF Parts
  <2>3. TasksRight' /\ SameClasses
    BY <2>1, InvParts DEF TasksRight, SameClasses
  <2>4. QueueRight'
    BY <1>1, <2>1, InvParts DEF QueueRight
  <2>5. EngineRight'
    BY <1>1, <2>1, InvParts DEF EngineRight
  <2>6. OwnEntries'
    BY <1>1, <1>4, <2>1, InvParts DEF OwnEntries, SomeMissing
  <2>7. AllClassified
    BY <1>1, AllDone
  <2> QED BY <1>1, <2>1, <2>2, <2>3, <2>4, <2>5, <2>6, <2>7 DEF Kept, AInv, LedgerStep
<1> QED BY <1>2, <1>3, <1>4

\* Posts and the signal: the engine, the downloads and the archive are as they were.
LEMMA SignalKeeps ==
  ASSUME AInv, UNCHANGED <<engine, tasks, writer, zip>>, signal' \in BOOLEAN,
         progress' \in [posting: BOOLEAN, broken: BOOLEAN]
  PROVE  Kept
<1>1. UNCHANGED <<engine, tasks, writer, zip>>
  OBVIOUS
<1>3. Parts'
  BY <1>1, InvParts DEF Parts
<1>4. TasksRight' /\ SameClasses
  BY <1>1, InvParts DEF TasksRight, SameClasses
<1>5. QueueRight' /\ EngineRight'
  BY <1>1, InvParts DEF QueueRight, EngineRight
<1>6. OwnEntries'
  BY <1>1, InvParts DEF OwnEntries, SomeMissing
<1> QED BY <1>1, <1>3, <1>4, <1>5, <1>6 DEF Kept, AInv, LedgerStep

LEMMA PostsKeep ==
  ASSUME AInv, PostsSettle \/ PostFails \/ UNCHANGED vars PROVE Kept
<1>1. UNCHANGED <<engine, tasks, writer, zip, signal>>
  BY DEF PostsSettle, PostFails, vars
<1>2. progress \in [posting: BOOLEAN, broken: BOOLEAN] /\ signal \in BOOLEAN
  BY InvParts DEF Parts
<1>3. progress' \in [posting: BOOLEAN, broken: BOOLEAN]
  BY <1>2 DEF PostsSettle, PostFails, vars
<1> QED BY <1>1, <1>2, <1>3, SignalKeeps

-----------------------------------------------------------------------------
(***************************************************************************)
(* Induction over numbers, and folds from the left.                        *)
(***************************************************************************)

\* Induction over the numbers, for a set in place of a predicate.
LEMMA SetInduction ==
  ASSUME NEW T, 0 \in T, \A n \in Nat : n \in T => n + 1 \in T
  PROVE  \A n \in Nat : n \in T
<1> SUFFICES ASSUME NEW m \in Nat, m \notin T PROVE FALSE
  OBVIOUS
<1> DEFINE R == OpToRel(<, Nat)
           U == Nat \ T
<1>1. U \subseteq Nat /\ U # {}
  OBVIOUS
<1>2. IsWellFoundedOn(R, Nat)
  BY NatLessThanWellFounded
<1>3. \A x, y \in Nat : y < x => <<y, x>> \in R
  BY DEF OpToRel
<1> HIDE DEF R
<1>4. PICK x \in U : \A y \in U : ~(<<y, x>> \in R)
  <2> HIDE DEF U
  <2> QED BY <1>1, <1>2, WFMin
<1>5. \A y \in Nat : y < x => y \in T
  BY <1>3, <1>4
<1>6. x \in Nat /\ x # 0 /\ x \notin T
  BY <1>4
<1>7. x - 1 \in Nat /\ x - 1 < x /\ (x - 1) + 1 = x
  BY <1>6
<1>8. x - 1 \in T
  BY <1>5, <1>7
<1> QED BY <1>6, <1>7, <1>8

\* The greatest of some numbers up to n.
LEMMA MaxOfNumbers ==
  ASSUME NEW n \in Nat, NEW S \in SUBSET (1..n), S # {}
  PROVE  Max(S) \in S /\ \A i \in S : Max(S) >= i
<1> DEFINE T == {k \in Nat : \A Q \in SUBSET (1..k) : Q # {} => \E x \in Q : \A i \in Q : x >= i}
<1>1. 0 \in T
  <2>1. 1..0 = {}
    OBVIOUS
  <2> QED BY <2>1
<1>2. ASSUME NEW k \in Nat, k \in T PROVE k + 1 \in T
  <2> SUFFICES ASSUME NEW Q \in SUBSET (1..(k + 1)), Q # {} PROVE \E x \in Q : \A i \in Q : x >= i
    OBVIOUS
  <2>1. CASE k + 1 \in Q
    BY <2>1
  <2>2. CASE k + 1 \notin Q
    <3>1. Q \in SUBSET (1..k)
      BY <2>2
    <3> QED BY <1>2, <3>1
  <2> QED BY <2>1, <2>2
<1> HIDE DEF T
<1>3. n \in T
  BY <1>1, <1>2, SetInduction
<1>4. \E x \in S : \A i \in S : x >= i
  BY <1>3 DEF T
<1> QED BY <1>4 DEF Max

\* The first i numbers, as a fold takes them: the greatest first.
LEMMA FirstNumbers ==
  ASSUME NEW n \in Nat, NEW i \in 1..n
  PROVE  /\ 1..i \in SUBSET (1..n) /\ 1..i # {} /\ Max(1..i) = i
         /\ (1..i) \ {i} = 1..(i - 1) /\ 1..(i - 1) \in SUBSET (1..n)
<1>1. 1..i \in SUBSET (1..n) /\ 1..i # {} /\ i \in 1..i
  OBVIOUS
<1>2. Max(1..i) \in 1..i /\ Max(1..i) >= i
  BY <1>1, MaxOfNumbers
<1>3. Max(1..i) = i
  BY <1>2
<1>4. (1..i) \ {i} = 1..(i - 1) /\ 1..(i - 1) \in SUBSET (1..n)
  OBVIOUS
<1> QED BY <1>1, <1>3, <1>4


\* The value of a fold of F from the left, for every set of numbers up to n.
IsFold(f, base, F, n) ==
  \A s \in SUBSET (1..n) : f[s] = IF s = {} THEN base ELSE F[<<f[s \ {Max(s)}], Max(s)>>]

LEMMA FoldExists ==
  ASSUME NEW V, NEW base \in V, NEW n \in Nat, NEW F \in [V \X (1..n) -> V]
  PROVE  \E f \in [SUBSET (1..n) -> V] : IsFold(f, base, F, n)
<1> DEFINE Value(f, s) == IF s = {} THEN base ELSE F[<<f[s \ {Max(s)}], Max(s)>>]
           Folds(f, k) == \A s \in SUBSET (1..k) : f[s] = Value(f, s)
           Exists(k) == \E f \in [SUBSET (1..k) -> V] : Folds(f, k)
           T == {k \in Nat : k <= n => Exists(k)}
<1>1. 0 \in T
  <2>1. 1..0 = {}
    OBVIOUS
  <2>2. Folds([s \in SUBSET (1..0) |-> base], 0)
    BY <2>1
  <2>3. [s \in SUBSET (1..0) |-> base] \in [SUBSET (1..0) -> V]
    OBVIOUS
  <2> HIDE DEF Folds
  <2>4. Exists(0)
    BY <2>2, <2>3
  <2> HIDE DEF Exists
  <2> QED BY <2>4
<1>2. ASSUME NEW k \in Nat, k \in T PROVE k + 1 \in T
  <2>1. SUFFICES ASSUME k + 1 <= n PROVE Exists(k + 1)
    <3> HIDE DEF Exists
    <3> QED OBVIOUS
  <2>2. PICK f \in [SUBSET (1..k) -> V] : Folds(f, k)
    <3>1. k <= n
      BY <2>1
    <3>2. Exists(k)
      <4> HIDE DEF Exists
      <4> QED BY <1>2, <3>1
    <3> HIDE DEF Folds
    <3> QED BY <3>2
  <2> DEFINE e == [s \in SUBSET (1..(k + 1)) |->
                     IF k + 1 \in s THEN F[<<f[s \ {k + 1}], k + 1>>] ELSE f[s]]
  <2>3. ASSUME NEW s \in SUBSET (1..(k + 1)) PROVE e[s] \in V /\ e[s] = Value(e, s)
    <3>1. CASE k + 1 \in s
      <4>1. Max(s) = k + 1
        <5>1. k + 1 \in Nat /\ s # {}
          BY <3>1
        <5>2. Max(s) \in s /\ Max(s) >= k + 1
          BY <3>1, <5>1, MaxOfNumbers
        <5>3. Max(s) \in 1..(k + 1)
          BY <5>2
        <5> QED BY <5>2, <5>3
      <4>2. s \ {k + 1} \in SUBSET (1..k) /\ s \ {k + 1} \in SUBSET (1..(k + 1))
        OBVIOUS
      <4>3. e[s \ {k + 1}] = f[s \ {k + 1}] /\ f[s \ {k + 1}] \in V
        BY <4>2
      <4>4. e[s] = F[<<f[s \ {k + 1}], k + 1>>] /\ k + 1 \in 1..n
        BY <2>1, <3>1
      <4> QED BY <3>1, <4>1, <4>3, <4>4
    <3>2. CASE k + 1 \notin s
      <4>1. s \in SUBSET (1..k) /\ e[s] = f[s]
        BY <3>2
      <4>2. f[s] = Value(f, s)
        BY <2>2, <4>1
      <4>3. e[s \ {Max(s)}] = f[s \ {Max(s)}]
        BY <3>2
      <4> QED BY <4>1, <4>2, <4>3
    <3> QED BY <3>1, <3>2
  <2>4. e \in [SUBSET (1..(k + 1)) -> V]
    <3>1. e = [s \in SUBSET (1..(k + 1)) |-> e[s]]
      OBVIOUS
    <3> HIDE DEF e
    <3> QED BY <2>3, <3>1
  <2> HIDE DEF e
  <2>5. Folds(e, k + 1)
    BY <2>3
  <2> HIDE DEF Folds
  <2> QED BY <2>4, <2>5
<1>3. n \in T
  <2> HIDE DEF T
  <2> QED BY <1>1, <1>2, SetInduction
<1>4. Exists(n)
  <2> HIDE DEF Exists
  <2> QED BY <1>3
<1> QED BY <1>4 DEF IsFold

-----------------------------------------------------------------------------
(***************************************************************************)
(* The weights of several objects.                                         *)
(***************************************************************************)

LEMMA WeightType == \A o \in Objects : Weight(o) \in 1..MaxBytes /\ SizeOf[o] \in Nat
<1>1. \A o \in Objects : SizeOf[o] \in Nat
  BY ExportConstants DEF Objects
<1>2. MaxBytes \in Nat \ {0}
  BY ExportConstants
<1> QED BY <1>1, <1>2 DEF Weight

LEMMA ObjectNumbers ==
  /\ Len(BatchOf) \in Nat /\ Objects = 1..Len(BatchOf) /\ IsFiniteSet(Objects)
  /\ \A A \in SUBSET Objects : IsFiniteSet(A) /\ Cardinality(A) \in Nat
<1>1. Len(BatchOf) \in Nat /\ Objects = 1..Len(BatchOf)
  BY ExportConstants DEF Objects
<1>2. IsFiniteSet(Objects)
  BY <1>1, FS_Interval
<1> QED BY <1>1, <1>2, FS_Subset, FS_CardinalityType

\* A total adds up what the objects of a set weigh, whatever their order.
IsTotal(sum, w) ==
  /\ sum \in [SUBSET Objects -> Nat]
  /\ sum[{}] = 0
  /\ \A A \in SUBSET Objects : \A o \in A : sum[A] = w[o] + sum[A \ {o}]

LEMMA TotalExists ==
  ASSUME NEW w \in [Objects -> Nat]
  PROVE  \E sum : IsTotal(sum, w)
<1> DEFINE Total(f, k) ==
             /\ f \in [SUBSET (1..k) -> Nat]
             /\ f[{}] = 0
             /\ \A A \in SUBSET (1..k) : \A o \in A : f[A] = w[o] + f[A \ {o}]
           N == Len(BatchOf)
           T == {k \in Nat : k <= N => \E f : Total(f, k)}
<1>1. 0 \in T
  <2>1. 1..0 = {}
    OBVIOUS
  <2>2. Total([A \in SUBSET (1..0) |-> 0], 0)
    BY <2>1
  <2>3. \E f : Total(f, 0)
    BY <2>2
  <2> HIDE DEF Total
  <2> QED BY <2>3
<1>2. ASSUME NEW k \in Nat, k \in T PROVE k + 1 \in T
  <2>1. SUFFICES ASSUME k + 1 <= N PROVE \E f : Total(f, k + 1)
    <3> HIDE DEF Total
    <3> QED OBVIOUS
  <2>2. PICK f : Total(f, k)
    <3>1. k <= N
      BY <2>1, ObjectNumbers
    <3> HIDE DEF Total
    <3> QED BY <1>2, <3>1
  <2>3. w[k + 1] \in Nat /\ \A o \in 1..k : w[o] \in Nat
    BY <2>1, ObjectNumbers
  <2> DEFINE e == [A \in SUBSET (1..(k + 1)) |->
                     IF k + 1 \in A THEN w[k + 1] + f[A \ {k + 1}] ELSE f[A]]
  <2>4. e \in [SUBSET (1..(k + 1)) -> Nat]
    <3>1. \A A \in SUBSET (1..(k + 1)) : A \ {k + 1} \in SUBSET (1..k)
      OBVIOUS
    <3>2. \A A \in SUBSET (1..(k + 1)) : k + 1 \notin A => A \in SUBSET (1..k)
      OBVIOUS
    <3> QED BY <2>2, <2>3, <3>1, <3>2
  <2>5. e[{}] = 0
    BY <2>2
  <2>6. ASSUME NEW A \in SUBSET (1..(k + 1)), NEW o \in A PROVE e[A] = w[o] + e[A \ {o}]
    <3>1. A \ {o} \in SUBSET (1..(k + 1)) /\ A \ {k + 1} \in SUBSET (1..k)
      OBVIOUS
    <3>2. CASE k + 1 \notin A
      <4>1. A \in SUBSET (1..k) /\ k + 1 \notin A \ {o}
        BY <3>2
      <4>2. e[A] = f[A] /\ e[A \ {o}] = f[A \ {o}]
        BY <3>2, <3>1, <4>1
      <4> QED BY <2>2, <4>1, <4>2
    <3>3. CASE o = k + 1
      <4>1. e[A] = w[k + 1] + f[A \ {k + 1}]
        BY <3>3
      <4>2. e[A \ {o}] = f[A \ {k + 1}]
        BY <3>1, <3>3
      <4> QED BY <3>3, <4>1, <4>2
    <3>4. CASE k + 1 \in A /\ o # k + 1
      <4> DEFINE B == A \ {k + 1}
      <4>1. o \in B /\ o \in 1..k /\ (A \ {o}) \ {k + 1} = B \ {o} /\ B \ {o} \in SUBSET (1..k)
        BY <3>4
      <4>2. f[B] = w[o] + f[B \ {o}] /\ f[B \ {o}] \in Nat
        BY <2>2, <3>1, <4>1
      <4>3. e[A] = w[k + 1] + f[B]
        BY <3>4
      <4>4. k + 1 \in A \ {o}
        BY <3>4
      <4>5. e[A \ {o}] = w[k + 1] + f[B \ {o}]
        BY <3>1, <4>1, <4>4
      <4> HIDE DEF e, B
      <4> QED BY <2>3, <4>1, <4>2, <4>3, <4>5
    <3> QED BY <3>2, <3>3, <3>4
  <2> HIDE DEF e
  <2>7. Total(e, k + 1)
    BY <2>4, <2>5, <2>6
  <2> HIDE DEF Total
  <2> QED BY <2>7
<1>3. N \in T
  <2> HIDE DEF T
  <2> QED BY <1>1, <1>2, ObjectNumbers, SetInduction
<1>4. \E f : Total(f, N)
  <2>1. N <= N
    BY ObjectNumbers
  <2> HIDE DEF Total
  <2> QED BY <1>3, <2>1
<1> QED BY <1>4, ObjectNumbers DEF IsTotal

\* What the downloads of a set of objects reserve together.
Bytes == CHOOSE sum : IsTotal(sum, [o \in Objects |-> Weight(o)])

LEMMA BytesFacts ==
  /\ \A A \in SUBSET Objects : Bytes[A] \in Nat
  /\ Bytes[{}] = 0
  /\ \A A \in SUBSET Objects : \A o \in A : Bytes[A] = Weight(o) + Bytes[A \ {o}]
<1> DEFINE w == [o \in Objects |-> Weight(o)]
<1>1. w \in [Objects -> Nat]
  BY WeightType, ExportConstants
<1> HIDE DEF w
<1>2. \E sum : IsTotal(sum, w)
  BY <1>1, TotalExists
<1>3. IsTotal(Bytes, w)
  BY <1>2 DEF Bytes, w
<1> QED BY <1>3 DEF IsTotal, w

\* What the objects of a set hold together is no more than what they reserve, when
\* that is so for each of them.
LEMMA SizesWithinBytes ==
  ASSUME NEW A \in SUBSET Objects, \A o \in A : SizeOf[o] <= Weight(o)
  PROVE  LET size(o) == SizeOf[o]
         IN  MapThenSumSet(size, A) \in Nat /\ MapThenSumSet(size, A) <= Bytes[A]
<1> DEFINE size(o) == SizeOf[o]
           Value(f, s) == IF s = {} THEN 0
                          ELSE SizeOf[CHOOSE x \in s : TRUE] + f[s \ {CHOOSE x \in s : TRUE}]
           Sums(f) == f = [s \in SUBSET A |-> Value(f, s)]
           it == CHOOSE f : Sums(f)
<1>1. Sums(it)
  <2>1. SizeOf \in [Objects -> Nat]
    BY ExportConstants DEF Objects
  <2>2. PICK sum : IsTotal(sum, SizeOf)
    BY <2>1, TotalExists
  <2> DEFINE f == [s \in SUBSET A |-> sum[s]]
  <2>3. ASSUME NEW s \in SUBSET A PROVE f[s] = Value(f, s)
    <3>1. CASE s = {}
      BY <2>2, <3>1 DEF IsTotal
    <3>2. CASE s # {}
      <4> DEFINE x == CHOOSE x \in s : TRUE
      <4>1. x \in s
        BY <3>2
      <4> HIDE DEF x
      <4>2. sum[s] = SizeOf[x] + sum[s \ {x}]
        BY <2>2, <4>1 DEF IsTotal
      <4>3. s \ {x} \in SUBSET A
        OBVIOUS
      <4>4. f[s] = SizeOf[x] + f[s \ {x}]
        BY <4>2, <4>3
      <4> QED BY <3>2, <4>4 DEF x
    <3> QED BY <3>1, <3>2
  <2>4. f = [s \in SUBSET A |-> f[s]]
    OBVIOUS
  <2> HIDE DEF f
  <2>5. Sums(f)
    BY <2>3, <2>4
  <2>6. \E g : Sums(g)
    BY <2>5
  <2> HIDE DEF Sums
  <2> QED BY <2>6
<1>2. MapThenSumSet(size, A) = it[A]
  BY DEF MapThenSumSet, MapThenFoldSet
<1> HIDE DEF it
<1> DEFINE T == {k \in Nat : \A s \in SUBSET A : Cardinality(s) = k => it[s] \in Nat /\ it[s] <= Bytes[s]}
<1>3. 0 \in T
  <2>1. \A s \in SUBSET A : Cardinality(s) = 0 => s = {}
    BY ObjectNumbers, FS_EmptySet
  <2> QED BY <1>1, <2>1, BytesFacts
<1>4. ASSUME NEW k \in Nat, k \in T PROVE k + 1 \in T
  <2>1. SUFFICES ASSUME NEW s \in SUBSET A, Cardinality(s) = k + 1
                 PROVE  it[s] \in Nat /\ it[s] <= Bytes[s]
    OBVIOUS
  <2> DEFINE x == CHOOSE x \in s : TRUE
  <2>2. s # {}
    BY <2>1, FS_EmptySet
  <2>3. x \in s /\ x \in A /\ x \in Objects
    BY <2>2
  <2>4. it[s] = SizeOf[x] + it[s \ {x}]
    BY <1>1, <2>2
  <2> HIDE DEF x
  <2>5. Cardinality(s \ {x}) = k
    <3>1. IsFiniteSet(s)
      BY ObjectNumbers
    <3>2. Cardinality(s \ {x}) = Cardinality(s) - 1
      BY <2>3, <3>1, FS_RemoveElement
    <3> QED BY <2>1, <3>2
  <2>6. it[s \ {x}] \in Nat /\ it[s \ {x}] <= Bytes[s \ {x}]
    BY <1>4, <2>5
  <2>7. SizeOf[x] \in Nat /\ SizeOf[x] <= Weight(x) /\ Weight(x) \in Nat
    BY <2>3, WeightType, ExportConstants
  <2>8. Bytes[s] = Weight(x) + Bytes[s \ {x}] /\ Bytes[s \ {x}] \in Nat
    <3>1. s \in SUBSET Objects /\ s \ {x} \in SUBSET Objects
      OBVIOUS
    <3> QED BY <2>3, <3>1, BytesFacts
  <2> QED BY <2>4, <2>6, <2>7, <2>8
<1>5. Cardinality(A) \in T
  <2> HIDE DEF T
  <2> QED BY <1>3, <1>4, SetInduction, ObjectNumbers
<1> QED BY <1>2, <1>5

-----------------------------------------------------------------------------
(***************************************************************************)
(* The gate.                                                               *)
(***************************************************************************)

\* The gate counts the downloads inside and what they reserve, stays within its
\* bounds, and who is first in its queue, which holds nobody twice, does not fit.
GateHolds(g, inside) ==
  /\ g \in Gate
  /\ g.active = Cardinality(inside) /\ g.bytes = Bytes[inside]
  /\ g.active <= Concurrency
  /\ g.active <= 1 \/ g.bytes <= MaxBytes
  /\ \A i, j \in DOMAIN g.waiters : i # j => g.waiters[i] # g.waiters[j]
  /\ g.waiters # <<>> => ~CanAcquire(g, Head(g.waiters))

LEMMA QueueOfWaiters ==
  ASSUME NEW s \in Seq(Objects), NEW o \in Objects
  PROVE  /\ Append(s, o) \in Seq(Objects) /\ ToSet(Append(s, o)) = ToSet(s) \cup {o}
         /\ ToSet(s) \subseteq Objects
         /\ Head(Append(s, o)) = IF s = <<>> THEN o ELSE Head(s)
         /\ Append(s, o) # <<>>
         /\ o \notin ToSet(s) /\ (\A i, j \in DOMAIN s : i # j => s[i] # s[j]) =>
              \A i, j \in DOMAIN Append(s, o) : i # j => Append(s, o)[i] # Append(s, o)[j]
<1>1. s \in Seq(Entries) /\ o \in Entries
  <2>1. \A i \in 1..Len(s) : s[i] \in Entries
    BY DEF Entries
  <2> QED BY <2>1 DEF Entries
<1>2. ToSet(s) \subseteq Objects
  BY DEF ToSet
<1>3. Append(s, o) \in Seq(Objects) /\ Append(s, o) # <<>>
  <2>1. Append(s, o) \in Seq(Objects)
    OBVIOUS
  <2>2. Len(Append(s, o)) = Len(s) + 1 /\ Len(s) \in Nat
    OBVIOUS
  <2>3. Append(s, o) # <<>>
    BY <2>2
  <2> QED BY <2>1, <2>3
<1>4. Head(Append(s, o)) = IF s = <<>> THEN o ELSE Head(s)
  OBVIOUS
<1> QED BY <1>1, <1>2, <1>3, <1>4, SetOfQueue

LEMMA ReserveOrWaitType ==
  ASSUME NEW g \in Gate, NEW o \in Objects
  PROVE  Reserve(g, o) \in Gate /\ Wait(g, o) \in Gate
<1>1. g.active \in Nat /\ g.bytes \in Nat /\ g.waiters \in Seq(Objects) /\ Weight(o) \in Nat
  BY WeightType, ExportConstants DEF Gate
<1>2. /\ g.active + 1 \in Nat /\ g.bytes + Weight(o) \in Nat
      /\ Append(g.waiters, o) \in Seq(Objects)
  BY <1>1, QueueOfWaiters
<1>3. /\ Reserve(g, o) = [g EXCEPT !.active = g.active + 1, !.bytes = g.bytes + Weight(o)]
      /\ Wait(g, o) = [g EXCEPT !.waiters = Append(g.waiters, o)]
  BY DEF Reserve, Wait, Gate
<1> QED BY <1>2, <1>3 DEF Gate

\* Who comes to the gate enters if that fits, and waits if it does not or others wait.
Comes(g, o, next) ==
  \/ CanAcquire(g, o) /\ next = Reserve(g, o)
  \/ (g.waiters = <<>> => ~CanAcquire(g, o)) /\ next = Wait(g, o)

EnteredOrWaits(g, inside, o, next) ==
  \/ GateHolds(next, inside \cup {o}) /\ ToSet(next.waiters) = ToSet(g.waiters)
  \/ GateHolds(next, inside) /\ ToSet(next.waiters) = ToSet(g.waiters) \cup {o}

LEMMA ComesToGate ==
  ASSUME NEW g, NEW inside \in SUBSET Objects, GateHolds(g, inside),
         NEW o \in Objects, o \notin inside, o \notin ToSet(g.waiters),
         NEW next, Comes(g, o, next)
  PROVE  EnteredOrWaits(g, inside, o, next)
<1>1. /\ g \in Gate /\ g.active \in Nat /\ g.bytes \in Nat /\ g.waiters \in Seq(Objects)
      /\ \A p \in Objects : Weight(p) \in Nat
      /\ Concurrency \in Nat /\ MaxBytes \in Nat
  BY WeightType, ExportConstants DEF GateHolds, Gate
<1>2. g.waiters # <<>> => Head(g.waiters) \in Objects
  BY <1>1
<1>3. CASE CanAcquire(g, o) /\ next = Reserve(g, o)
  <2>1. /\ next \in Gate /\ next.active = g.active + 1 /\ next.bytes = g.bytes + Weight(o)
        /\ next.waiters = g.waiters
    <3>1. next = [g EXCEPT !.active = g.active + 1, !.bytes = g.bytes + Weight(o)]
      BY <1>1, <1>3 DEF Reserve, Gate
    <3>2. g.active + 1 \in Nat /\ g.bytes + Weight(o) \in Nat
      BY <1>1
    <3> QED BY <1>1, <3>1, <3>2 DEF Gate
  <2>2. next.active = Cardinality(inside \cup {o})
    BY <2>1, ObjectNumbers, FS_AddElement DEF GateHolds
  <2>3. next.bytes = Bytes[inside \cup {o}]
    <3>1. inside \cup {o} \in SUBSET Objects /\ (inside \cup {o}) \ {o} = inside
      OBVIOUS
    <3>2. Bytes[inside \cup {o}] = Weight(o) + Bytes[inside]
      <4>1. o \in inside \cup {o}
        OBVIOUS
      <4> QED BY <3>1, <4>1, BytesFacts
    <3>3. g.bytes = Bytes[inside]
      BY DEF GateHolds
    <3> QED BY <1>1, <2>1, <3>2, <3>3
  <2>4. next.active <= Concurrency /\ (next.active <= 1 \/ next.bytes <= MaxBytes)
    BY <1>1, <1>3, <2>1 DEF CanAcquire
  <2>5. next.waiters # <<>> => ~CanAcquire(next, Head(next.waiters))
    BY <1>1, <1>2, <2>1 DEF CanAcquire, GateHolds
  <2> QED BY <2>1, <2>2, <2>3, <2>4, <2>5 DEF GateHolds, EnteredOrWaits
<1>4. CASE (g.waiters = <<>> => ~CanAcquire(g, o)) /\ next = Wait(g, o)
  <2>1. /\ next.active = g.active /\ next.bytes = g.bytes
        /\ next.waiters = Append(g.waiters, o)
    BY <1>1, <1>4 DEF Wait, Gate
  <2>2. next \in Gate
    BY <1>1, <1>4, QueueOfWaiters DEF Wait, Gate
  <2>3. ~CanAcquire(next, Head(next.waiters))
    <3>1. Head(next.waiters) = IF g.waiters = <<>> THEN o ELSE Head(g.waiters)
      BY <1>1, <2>1, QueueOfWaiters
    <3>2. ~CanAcquire(g, Head(next.waiters))
      BY <1>4, <3>1 DEF GateHolds
    <3> QED BY <2>1, <3>2 DEF CanAcquire
  <2>4. \A i, j \in DOMAIN next.waiters : i # j => next.waiters[i] # next.waiters[j]
    <3>1. \A i, j \in DOMAIN g.waiters : i # j => g.waiters[i] # g.waiters[j]
      BY DEF GateHolds
    <3> DEFINE t == Append(g.waiters, o)
    <3>2. \A i, j \in DOMAIN t : i # j => t[i] # t[j]
      BY <1>1, <3>1, QueueOfWaiters
    <3>3. next.waiters = t
      BY <2>1
    <3> HIDE DEF t
    <3> QED BY <3>2, <3>3
  <2>5. ToSet(next.waiters) = ToSet(g.waiters) \cup {o}
    BY <1>1, <2>1, QueueOfWaiters
  <2> QED BY <2>1, <2>2, <2>3, <2>4, <2>5 DEF GateHolds, EnteredOrWaits
<1> QED BY <1>3, <1>4 DEF Comes

\* What Drain folds.
Enter(g, o) == IF g.waiters = <<>> /\ CanAcquire(g, o) THEN Reserve(g, o) ELSE Wait(g, o)

\* Who waits comes to the emptied queue again, one after the other.
LEMMA DrainSteps ==
  ASSUME NEW g \in Gate, NEW n \in Nat, n = Len(g.waiters)
  PROVE  \E h : /\ h[0] = [g EXCEPT !.waiters = <<>>] /\ h[n] = Drain(g)
                /\ \A i \in 1..n : h[i] = Enter(h[i - 1], g.waiters[i])
<1> DEFINE base == [g EXCEPT !.waiters = <<>>]
           F == [p \in Gate \X (1..n) |-> Enter(p[1], g.waiters[p[2]])]
           Value(f, s) == IF s = {} THEN base ELSE Enter(f[s \ {Max(s)}], g.waiters[Max(s)])
           Folds(f) == f = [s \in SUBSET (1..n) |-> Value(f, s)]
           it == CHOOSE f : Folds(f)
<1>1. DOMAIN g.waiters = 1..n /\ \A i \in 1..n : g.waiters[i] \in Objects
  BY DEF Gate
<1>2. base \in Gate
  <2>1. <<>> \in Seq(Objects)
    OBVIOUS
  <2> QED BY <2>1 DEF Gate
<1>3. F \in [Gate \X (1..n) -> Gate]
  BY <1>1, ReserveOrWaitType DEF Enter
<1> HIDE DEF base
<1>4. \E f : Folds(f)
  <2> HIDE DEF F
  <2>1. PICK f \in [SUBSET (1..n) -> Gate] : IsFold(f, base, F, n)
    BY <1>2, <1>3, FoldExists
  <2>2. ASSUME NEW s \in SUBSET (1..n) PROVE f[s] = Value(f, s)
    <3>1. s # {} => Max(s) \in 1..n /\ f[s \ {Max(s)}] \in Gate
      BY MaxOfNumbers
    <3> QED BY <2>1, <3>1 DEF IsFold, F
  <2>3. f = [s \in SUBSET (1..n) |-> f[s]]
    OBVIOUS
  <2>4. Folds(f)
    BY <2>2, <2>3
  <2> HIDE DEF Folds
  <2> QED BY <2>4
<1>5. Folds(it)
  <2> HIDE DEF Folds
  <2> QED BY <1>4
<1>6. Drain(g) = it[1..n]
  BY <1>1 DEF Drain, FoldLeft, MapThenFoldSet, Enter, base
<1> HIDE DEF it
<1> DEFINE h == [i \in 0..n |-> it[1..i]]
<1>7. h[0] = base /\ h[n] = Drain(g)
  <2>1. 1..0 = {} /\ it[{}] = base
    BY <1>5
  <2> QED BY <1>6, <2>1
<1>8. ASSUME NEW i \in 1..n PROVE h[i] = Enter(h[i - 1], g.waiters[i])
  <2>1. h[i] = it[1..i] /\ h[i - 1] = it[1..(i - 1)]
    OBVIOUS
  <2>2. it[1..i] = Enter(it[(1..i) \ {Max(1..i)}], g.waiters[Max(1..i)])
    BY <1>5, FirstNumbers
  <2> QED BY <2>1, <2>2, FirstNumbers
<1> HIDE DEF h
<1> QED BY <1>7, <1>8 DEF base

\* The objects of a batch come to the gate, one after the other.
LEMMA AcquireSteps ==
  ASSUME NEW g \in Gate, NEW B, NEW n \in Nat, n = Len(BatchOf)
  PROVE  \E h : /\ h[0] = g /\ h[n] = AcquireAll(g, B)
                /\ \A i \in 1..n : h[i] = IF i \in B THEN Acquire(h[i - 1], i) ELSE h[i - 1]
<1> DEFINE seq == [i \in DOMAIN BatchOf |-> i]
           Asked(e, i) == IF i \in B THEN Acquire(e, i) ELSE e
           F == [p \in Gate \X (1..n) |-> Asked(p[1], p[2])]
           Value(f, s) == IF s = {} THEN g ELSE Asked(f[s \ {Max(s)}], seq[Max(s)])
           Folds(f) == f = [s \in SUBSET (1..n) |-> Value(f, s)]
           it == CHOOSE f : Folds(f)
<1>1. DOMAIN BatchOf = 1..n /\ DOMAIN seq = 1..n /\ Objects = 1..n
  BY ObjectNumbers, ExportConstants DEF Objects
<1>2. F \in [Gate \X (1..n) -> Gate]
  BY <1>1, ReserveOrWaitType DEF Acquire
<1>3. \E f : Folds(f)
  <2> HIDE DEF F
  <2>1. PICK f \in [SUBSET (1..n) -> Gate] : IsFold(f, g, F, n)
    BY <1>2, FoldExists
  <2>2. ASSUME NEW s \in SUBSET (1..n) PROVE f[s] = Value(f, s)
    <3>1. s # {} => Max(s) \in 1..n /\ f[s \ {Max(s)}] \in Gate
      BY MaxOfNumbers
    <3> QED BY <1>1, <2>1, <3>1 DEF IsFold, F
  <2>3. f = [s \in SUBSET (1..n) |-> f[s]]
    OBVIOUS
  <2>4. Folds(f)
    BY <2>2, <2>3
  <2> HIDE DEF Folds
  <2> QED BY <2>4
<1>4. Folds(it)
  <2> HIDE DEF Folds
  <2> QED BY <1>3
<1>5. AcquireAll(g, B) = it[1..n]
  BY <1>1 DEF AcquireAll, FoldLeftDomain, FoldLeft, MapThenFoldSet
<1> HIDE DEF it
<1> DEFINE h == [i \in 0..n |-> it[1..i]]
<1>6. h[0] = g /\ h[n] = AcquireAll(g, B)
  <2>1. 1..0 = {} /\ it[{}] = g
    BY <1>4
  <2> QED BY <1>5, <2>1
<1>7. ASSUME NEW i \in 1..n PROVE h[i] = Asked(h[i - 1], i)
  <2>1. h[i] = it[1..i] /\ h[i - 1] = it[1..(i - 1)]
    OBVIOUS
  <2>2. it[1..i] = Asked(it[(1..i) \ {Max(1..i)}], seq[Max(1..i)])
    BY <1>4, FirstNumbers
  <2> QED BY <1>1, <2>1, <2>2, FirstNumbers
<1> HIDE DEF h
<1> QED BY <1>6, <1>7

\* Letting the waiters in keeps the gate right: who does not wait any more is inside.
LEMMA DrainHolds ==
  ASSUME NEW g \in Gate, NEW inside \in SUBSET Objects,
         GateHolds([g EXCEPT !.waiters = <<>>], inside),
         ToSet(g.waiters) \cap inside = {},
         \A i, j \in DOMAIN g.waiters : i # j => g.waiters[i] # g.waiters[j]
  PROVE  /\ ToSet(Drain(g).waiters) \subseteq ToSet(g.waiters)
         /\ GateHolds(Drain(g), inside \cup (ToSet(g.waiters) \ ToSet(Drain(g).waiters)))
<1> DEFINE n == Len(g.waiters)
           Came(i) == {g.waiters[j] : j \in 1..i}
<1>1. /\ n \in Nat /\ DOMAIN g.waiters = 1..n /\ \A i \in 1..n : g.waiters[i] \in Objects
      /\ ToSet(g.waiters) = Came(n)
  BY DEF Gate, ToSet
<1>2. PICK h : /\ h[0] = [g EXCEPT !.waiters = <<>>] /\ h[n] = Drain(g)
               /\ \A i \in 1..n : h[i] = Enter(h[i - 1], g.waiters[i])
  <2> HIDE DEF n
  <2> QED BY <1>1, DrainSteps DEF n
<1> HIDE DEF n
<1> DEFINE Right(i) == /\ ToSet(h[i].waiters) \subseteq Came(i)
                       /\ GateHolds(h[i], inside \cup (Came(i) \ ToSet(h[i].waiters)))
           T == {i \in Nat : i <= n => Right(i)}
<1>3. 0 \in T
  <2>1. Came(0) = {}
    OBVIOUS
  <2>2. h[0].waiters = <<>>
    BY <1>2 DEF Gate
  <2>3. ToSet(h[0].waiters) = {}
    BY <2>2 DEF ToSet
  <2>4. inside \cup (Came(0) \ ToSet(h[0].waiters)) = inside
    BY <2>1
  <2>5. Right(0)
    BY <1>2, <2>3, <2>4
  <2> HIDE DEF Right
  <2> QED BY <2>5
<1>4. ASSUME NEW k \in Nat, k \in T PROVE k + 1 \in T
  <2> SUFFICES ASSUME k + 1 <= n PROVE Right(k + 1)
    <3> HIDE DEF Right
    <3> QED OBVIOUS
  <2> DEFINE o == g.waiters[k + 1]
             in == inside \cup (Came(k) \ ToSet(h[k].waiters))
  <2>1. Right(k)
    <3>1. k <= n
      BY <1>1
    <3> HIDE DEF Right
    <3> QED BY <1>4, <3>1
  <2>2. k + 1 \in 1..n /\ o \in Objects /\ o \in ToSet(g.waiters)
    <3>1. k + 1 \in 1..n
      BY <1>1
    <3> QED BY <1>1, <3>1 DEF ToSet
  <2>3. Came(k + 1) = Came(k) \cup {o}
    <3>1. 1..(k + 1) = 1..k \cup {k + 1}
      OBVIOUS
    <3> QED BY <3>1
  <2>4. o \notin Came(k) /\ Came(k) \subseteq Objects
    <3>1. \A j \in 1..k : j \in 1..n /\ j # k + 1
      BY <1>1
    <3> QED BY <1>1, <2>2, <3>1
  <2>5. o \notin in /\ o \notin ToSet(h[k].waiters) /\ in \in SUBSET Objects
    BY <2>1, <2>2, <2>4
  <2>6. h[k + 1] = Enter(h[k], o)
    <3>1. (k + 1) - 1 = k
      OBVIOUS
    <3> QED BY <1>2, <2>2, <3>1
  <2> HIDE DEF o
  <2>7. Comes(h[k], o, h[k + 1])
    BY <2>6 DEF Enter, Comes
  <2>8. GateHolds(h[k], in)
    BY <2>1
  <2> HIDE DEF in
  <2>9. EnteredOrWaits(h[k], in, o, h[k + 1])
    BY <2>2, <2>5, <2>7, <2>8, ComesToGate
  <2>10. \/ /\ ToSet(h[k + 1].waiters) = ToSet(h[k].waiters)
            /\ in \cup {o} = inside \cup (Came(k + 1) \ ToSet(h[k + 1].waiters))
            /\ GateHolds(h[k + 1], in \cup {o})
         \/ /\ ToSet(h[k + 1].waiters) = ToSet(h[k].waiters) \cup {o}
            /\ in = inside \cup (Came(k + 1) \ ToSet(h[k + 1].waiters))
            /\ GateHolds(h[k + 1], in)
    <3> HIDE DEF Came
    <3> QED BY <2>3, <2>4, <2>5, <2>9 DEF in, EnteredOrWaits
  <2> QED BY <2>1, <2>3, <2>10
<1>5. n \in T
  <2> HIDE DEF T
  <2> QED BY <1>1, <1>3, <1>4, SetInduction
<1>6. Right(n)
  <2>1. n <= n
    BY <1>1
  <2> HIDE DEF Right
  <2> QED BY <1>5, <2>1
<1> QED BY <1>1, <1>2, <1>6

\* So does a batch that comes to the gate.
LEMMA AcquireAllHolds ==
  ASSUME NEW g, NEW inside \in SUBSET Objects, GateHolds(g, inside),
         NEW B \in SUBSET Objects, B \cap inside = {}, B \cap ToSet(g.waiters) = {}
  PROVE  LET all == AcquireAll(g, B)
         IN  /\ ToSet(g.waiters) \subseteq ToSet(all.waiters)
             /\ ToSet(all.waiters) \subseteq ToSet(g.waiters) \cup B
             /\ GateHolds(all, inside \cup (B \ ToSet(all.waiters)))
<1> DEFINE n == Len(BatchOf)
           Came(i) == B \cap (1..i)
<1>1. /\ n \in Nat /\ Objects = 1..n /\ B = Came(n)
      /\ g \in Gate
  BY ObjectNumbers DEF GateHolds
<1>2. PICK h : /\ h[0] = g /\ h[n] = AcquireAll(g, B)
               /\ \A i \in 1..n : h[i] = IF i \in B THEN Acquire(h[i - 1], i) ELSE h[i - 1]
  <2> HIDE DEF n
  <2> QED BY <1>1, AcquireSteps DEF n
<1> HIDE DEF n
<1> DEFINE Right(i) == /\ ToSet(g.waiters) \subseteq ToSet(h[i].waiters)
                       /\ ToSet(h[i].waiters) \subseteq ToSet(g.waiters) \cup Came(i)
                       /\ GateHolds(h[i], inside \cup (Came(i) \ ToSet(h[i].waiters)))
           T == {i \in Nat : i <= n => Right(i)}
<1>3. 0 \in T
  <2>1. Came(0) = {}
    OBVIOUS
  <2>2. inside \cup (Came(0) \ ToSet(h[0].waiters)) = inside
    BY <2>1
  <2>3. Right(0)
    BY <1>2, <2>2
  <2> HIDE DEF Right
  <2> QED BY <2>3
<1>4. ASSUME NEW k \in Nat, k \in T PROVE k + 1 \in T
  <2> SUFFICES ASSUME k + 1 <= n PROVE Right(k + 1)
    <3> HIDE DEF Right
    <3> QED OBVIOUS
  <2> DEFINE in == inside \cup (Came(k) \ ToSet(h[k].waiters))
  <2>1. Right(k)
    <3>1. k <= n
      BY <1>1
    <3> HIDE DEF Right
    <3> QED BY <1>4, <3>1
  <2>2. k + 1 \in 1..n /\ k + 1 \in Objects /\ (k + 1) - 1 = k
    BY <1>1
  <2>3. h[k + 1] = IF k + 1 \in B THEN Acquire(h[k], k + 1) ELSE h[k]
    BY <1>2, <2>2
  <2>4. Came(k + 1) = IF k + 1 \in B THEN Came(k) \cup {k + 1} ELSE Came(k)
    <3>1. 1..(k + 1) = 1..k \cup {k + 1}
      OBVIOUS
    <3> QED BY <3>1
  <2>5. k + 1 \notin Came(k) /\ Came(k) \subseteq B
    OBVIOUS
  <2> HIDE DEF Came
  <2>6. CASE k + 1 \notin B
    BY <2>1, <2>3, <2>4, <2>6
  <2>7. CASE k + 1 \in B
    <3>1. k + 1 \notin in /\ k + 1 \notin ToSet(h[k].waiters) /\ in \in SUBSET Objects
      BY <2>1, <2>5, <2>7
    <3>2. Comes(h[k], k + 1, h[k + 1])
      BY <2>3, <2>7 DEF Acquire, Comes
    <3>3. GateHolds(h[k], in)
      BY <2>1
    <3> HIDE DEF in
    <3>4. EnteredOrWaits(h[k], in, k + 1, h[k + 1])
      BY <2>2, <3>1, <3>2, <3>3, ComesToGate
    <3>5. \/ /\ ToSet(h[k + 1].waiters) = ToSet(h[k].waiters)
             /\ in \cup {k + 1} = inside \cup (Came(k + 1) \ ToSet(h[k + 1].waiters))
             /\ GateHolds(h[k + 1], in \cup {k + 1})
          \/ /\ ToSet(h[k + 1].waiters) = ToSet(h[k].waiters) \cup {k + 1}
             /\ in = inside \cup (Came(k + 1) \ ToSet(h[k + 1].waiters))
             /\ GateHolds(h[k + 1], in)
      BY <2>4, <2>5, <2>7, <3>1, <3>4 DEF in, EnteredOrWaits
    <3> QED BY <2>1, <2>4, <2>7, <3>5
  <2> QED BY <2>6, <2>7
<1>5. n \in T
  <2> HIDE DEF T
  <2> QED BY <1>1, <1>3, <1>4, SetInduction
<1>6. Right(n)
  <2>1. n <= n
    BY <1>1
  <2> HIDE DEF Right
  <2> QED BY <1>5, <2>1
<1> QED BY <1>1, <1>2, <1>6

-----------------------------------------------------------------------------
(***************************************************************************)
(* The steps of the engine, as the gate sees them.                         *)
(***************************************************************************)

Waiting == {o \in Objects : tasks[o].step = "waiting"}

\* The gate agrees with the downloads.
GateRight == GateHolds(gate, InFlight) /\ ToSet(gate.waiters) = Waiting

\* Nobody enters, leaves or waits.
LEMMA StayKeepsGate ==
  ASSUME GateRight, UNCHANGED gate,
         \A p \in Objects : /\ tasks'[p].step \in Inside <=> tasks[p].step \in Inside
                            /\ tasks'[p].step = "waiting" <=> tasks[p].step = "waiting"
  PROVE  GateRight'
<1>1. InFlight' = InFlight /\ Waiting' = Waiting
  BY DEF InFlight, Waiting
<1> QED BY <1>1 DEF GateRight

\* Who comes in when the gate has changed to g.
LEMMA EnteredSets ==
  ASSUME NEW after \in [Objects -> Task], NEW g, ToSet(g.waiters) \subseteq Objects,
         \A p \in ToSet(g.waiters) : after[p].step = "waiting",
         tasks' = Entered(after, g)
  PROVE  LET waits == {p \in Objects : after[p].step = "waiting"}
         IN  /\ Waiting' = ToSet(g.waiters)
             /\ InFlight' = {p \in Objects : after[p].step \in Inside}
                            \cup (waits \ ToSet(g.waiters))
<1>1. \A p \in Objects :
        tasks'[p] = IF after[p].step = "waiting" /\ p \notin ToSet(g.waiters)
                    THEN [after[p] EXCEPT !.step = "start"] ELSE after[p]
  BY DEF Entered
<1>2. \A p \in Objects : [after[p] EXCEPT !.step = "start"].step = "start"
  BY DEF Task
<1>3. \A p \in Objects :
        tasks'[p].step = IF after[p].step = "waiting" /\ p \notin ToSet(g.waiters)
                         THEN "start" ELSE after[p].step
  BY <1>1, <1>2
<1>4. Waiting' = ToSet(g.waiters)
  BY <1>3 DEF Waiting
<1>5. InFlight' = {p \in Objects : after[p].step \in Inside}
                  \cup ({p \in Objects : after[p].step = "waiting"} \ ToSet(g.waiters))
  BY <1>3 DEF InFlight, Inside
<1> QED BY <1>4, <1>5

\* A download leaves, and the gate lets in who fits.
LEMMA LeaveKeepsGate ==
  ASSUME AInv, GateRight, NEW o \in InFlight, NEW class \in Class \cup {"pending"},
         Leave(o, class)
  PROVE  GateRight'
<1> DEFINE freed == [gate EXCEPT !.active = @ - 1, !.bytes = @ - Weight(o)]
           left == Drain(freed)
           inside == InFlight \ {o}
           d == [step |-> "done", attempt |-> 1, class |-> class]
           after == [tasks EXCEPT ![o] = d]
<1>1. o \in Objects /\ InFlight \subseteq Objects /\ InFlight \cap Waiting = {}
  BY DEF InFlight, Waiting, Inside
<1>2. gate' = left /\ tasks' = Entered(after, left)
  BY DEF Leave, Release
<1>3. /\ gate \in Gate /\ gate.active \in Nat /\ gate.bytes \in Nat
      /\ gate.waiters \in Seq(Objects)
      /\ Concurrency \in Nat /\ MaxBytes \in Nat
  BY ExportConstants DEF GateRight, GateHolds, Gate
<1>4. /\ gate.active - 1 = Cardinality(inside) /\ Cardinality(inside) \in Nat
      /\ inside \in SUBSET Objects
  <2>1. IsFiniteSet(InFlight) /\ inside \in SUBSET Objects
    BY <1>1, ObjectNumbers
  <2>2. Cardinality(inside) = Cardinality(InFlight) - 1
    BY <2>1, FS_RemoveElement
  <2> QED BY <2>1, <2>2, ObjectNumbers DEF GateRight, GateHolds
<1>5. gate.bytes - Weight(o) = Bytes[inside] /\ Bytes[inside] \in Nat /\ Weight(o) \in Nat
  <2>1. Bytes[InFlight] = Weight(o) + Bytes[inside] /\ Bytes[inside] \in Nat
    BY <1>1, <1>4, BytesFacts
  <2>2. Weight(o) \in Nat /\ gate.bytes = Bytes[InFlight]
    BY <1>1, <1>3, WeightType DEF GateRight, GateHolds
  <2> QED BY <2>1, <2>2
<1>6. /\ freed \in Gate /\ freed.active = gate.active - 1 /\ freed.bytes = gate.bytes - Weight(o)
      /\ freed.waiters = gate.waiters
  <2>1. freed = [gate EXCEPT !.active = gate.active - 1, !.bytes = gate.bytes - Weight(o)]
    BY <1>3 DEF Gate
  <2> HIDE DEF freed, inside
  <2>2. gate.active - 1 \in Nat /\ gate.bytes - Weight(o) \in Nat
    BY <1>4, <1>5
  <2> QED BY <1>3, <2>1, <2>2 DEF Gate
<1> HIDE DEF freed, inside
<1>7. GateHolds([freed EXCEPT !.waiters = <<>>], inside)
  <2> DEFINE e == [freed EXCEPT !.waiters = <<>>]
  <2>1. <<>> \in Seq(Objects)
    OBVIOUS
  <2>2. e \in Gate /\ e.active = freed.active /\ e.bytes = freed.bytes /\ e.waiters = <<>>
    BY <1>6, <2>1 DEF Gate
  <2> HIDE DEF e
  <2>3. e.active = Cardinality(inside) /\ e.bytes = Bytes[inside]
    BY <1>4, <1>5, <1>6, <2>2
  <2>4. e.active <= Concurrency /\ (e.active <= 1 \/ e.bytes <= MaxBytes)
    BY <1>3, <1>5, <1>6, <2>2 DEF GateRight, GateHolds
  <2>5. GateHolds(e, inside)
    BY <2>2, <2>3, <2>4 DEF GateHolds
  <2> QED BY <2>5 DEF e
<1>8. ToSet(freed.waiters) = Waiting /\ Waiting \cap inside = {} /\ Waiting \subseteq Objects
  BY <1>1, <1>6 DEF GateRight, Waiting, inside
<1>9. \A i, j \in DOMAIN freed.waiters : i # j => freed.waiters[i] # freed.waiters[j]
  BY <1>6 DEF GateRight, GateHolds
<1>10. /\ ToSet(left.waiters) \subseteq Waiting
       /\ GateHolds(left, inside \cup (Waiting \ ToSet(left.waiters)))
  BY <1>4, <1>6, <1>7, <1>8, <1>9, DrainHolds
<1> HIDE DEF left
<1>11. after \in [Objects -> Task] /\ after[o] = d /\ d.step = "done"
       /\ \A p \in Objects : p # o => after[p] = tasks[p]
  <2>1. d \in Task
    BY ExportConstants DEF Task, Step
  <2> QED BY <1>1, <2>1, InvParts
<1> HIDE DEF d, after
<1>12. /\ {p \in Objects : after[p].step = "waiting"} = Waiting
       /\ {p \in Objects : after[p].step \in Inside} = inside
  BY <1>1, <1>11 DEF Waiting, InFlight, inside, Inside
<1>13. \A p \in ToSet(left.waiters) : after[p].step = "waiting"
  BY <1>10, <1>12
<1>14. /\ Waiting' = ToSet(left.waiters)
       /\ InFlight' = inside \cup (Waiting \ ToSet(left.waiters))
  <2>1. ToSet(left.waiters) \subseteq Objects
    BY <1>8, <1>10
  <2> QED BY <1>2, <1>11, <1>12, <1>13, <2>1, EnteredSets
<1> QED BY <1>2, <1>10, <1>14 DEF GateRight

\* A batch comes to the gate.
LEMMA BeginBatchKeepsGate ==
  ASSUME AInv, GateRight, BeginBatch
  PROVE  GateRight'
<1> DEFINE all == AcquireAll(gate, Batch)
           asked == [o \in Objects |-> IF o \in Batch THEN [tasks[o] EXCEPT !.step = "waiting"]
                                                      ELSE tasks[o]]
<1>1. engine.pc = "scan" /\ gate' = all /\ tasks' = Entered(asked, all)
  BY DEF BeginBatch
<1>2. \A o \in Objects : LET t == [tasks[o] EXCEPT !.step = "waiting"]
                         IN  t \in Task /\ t.step = "waiting"
  BY InvParts DEF Task, Step
<1>3. /\ asked \in [Objects -> Task]
      /\ \A o \in Objects : asked[o].step = IF o \in Batch THEN "waiting" ELSE tasks[o].step
  BY <1>2, InvParts
<1> HIDE DEF asked
<1>4. \A o \in Batch : o \in Objects /\ tasks[o].step = "listed"
  BY <1>1, InvParts DEF EngineRight, Batch
<1>5. /\ Batch \in SUBSET Objects /\ Batch \cap InFlight = {} /\ InFlight \in SUBSET Objects
      /\ ToSet(gate.waiters) = Waiting /\ Batch \cap Waiting = {} /\ GateHolds(gate, InFlight)
      /\ Waiting \subseteq Objects
  BY <1>4 DEF GateRight, InFlight, Waiting, Inside
<1>6. /\ Waiting \subseteq ToSet(all.waiters) /\ ToSet(all.waiters) \subseteq Waiting \cup Batch
      /\ GateHolds(all, InFlight \cup (Batch \ ToSet(all.waiters)))
  BY <1>5, AcquireAllHolds
<1> HIDE DEF all
<1>7. /\ {p \in Objects : asked[p].step = "waiting"} = Waiting \cup Batch
      /\ {p \in Objects : asked[p].step \in Inside} = InFlight
  BY <1>3, <1>4 DEF Waiting, InFlight, Inside
<1>8. \A p \in ToSet(all.waiters) : asked[p].step = "waiting"
  BY <1>6, <1>7
<1>9. /\ Waiting' = ToSet(all.waiters)
      /\ InFlight' = InFlight \cup ((Waiting \cup Batch) \ ToSet(all.waiters))
  <2>1. ToSet(all.waiters) \subseteq Objects
    BY <1>5, <1>6
  <2> QED BY <1>1, <1>3, <1>7, <1>8, <2>1, EnteredSets
<1>10. (Waiting \cup Batch) \ ToSet(all.waiters) = Batch \ ToSet(all.waiters)
  BY <1>6
<1> QED BY <1>1, <1>6, <1>9, <1>10 DEF GateRight

\* A step of a download keeps it inside, or it leaves.
LEMMA StaysOrLeaves ==
  ASSUME AInv, NEW o \in Objects, Downloads(o)
  PROVE  /\ o \in InFlight
         /\ \/ \E class \in Class \cup {"pending"} : Leave(o, class)
            \/ /\ UNCHANGED gate
               /\ \E t \in Task : t.step \in Inside /\ tasks' = [tasks EXCEPT ![o] = t]
<1> DEFINE Leaves == \E class \in Class \cup {"pending"} : Leave(o, class)
           Stays == /\ UNCHANGED gate
                    /\ \E t \in Task : t.step \in Inside /\ tasks' = [tasks EXCEPT ![o] = t]
<1>1. tasks[o] \in Task /\ tasks \in [Objects -> Task]
  BY InvParts
<1>2. \A class \in Class : Ends(o, class) => Leaves
  BY DEF Ends
<1>3. Throws(o) => Leaves
  BY DEF Throws
<1> HIDE DEF Leaves
<1>4. ASSUME NEW step \in Inside, Advance(o, step), Unchanged PROVE Stays
  <2> DEFINE t == [tasks[o] EXCEPT !.step = step]
  <2>1. t \in Task /\ t.step = step
    BY <1>1 DEF Task, Step, Inside
  <2>2. tasks' = [tasks EXCEPT ![o] = t]
    BY <1>1, <1>4 DEF Advance
  <2> HIDE DEF t
  <2> QED BY <1>4, <2>1, <2>2 DEF Unchanged
<1>5. ASSUME Again(o) PROVE Stays \/ Leaves
  <2>1. CASE tasks[o].attempt < MaxAttempts
    <3> DEFINE t == [tasks[o] EXCEPT !.step = "start", !.attempt = @ + 1]
    <3>1. tasks[o].attempt + 1 \in 1..MaxAttempts
      BY <1>1, <2>1, ExportConstants DEF Task
    <3>2. t \in Task /\ t.step = "start"
      BY <1>1, <3>1 DEF Task, Step
    <3>3. tasks' = [tasks EXCEPT ![o] = t] /\ UNCHANGED gate
      BY <1>1, <1>5, <2>1 DEF Again, Unchanged
    <3> HIDE DEF t
    <3> QED BY <3>2, <3>3 DEF Inside
  <2>2. CASE ~(tasks[o].attempt < MaxAttempts)
    BY <1>2, <1>5, <2>2 DEF Again, Class
  <2> QED BY <2>1, <2>2
<1>6. AppendOrThrow(o) => Stays \/ Leaves
  BY <1>3, <1>4 DEF AppendOrThrow, Inside
<1> HIDE DEF Stays
<1>7. Stays \/ Leaves
  <2>1. "get" \in Inside /\ "spool" \in Inside /\ "copied" \in Class /\ "missing" \in Class
    BY DEF Inside, Class
  <2> QED BY <1>2, <1>3, <1>4, <1>5, <1>6, <2>1
          DEF Downloads, StartAttempt, FindsAborted, GetFails, GetRefused, GetStream, GetBuffer,
              SpoolFails, SpoolSucceeds, CountWritten, ThrowRejected
<1>8. o \in InFlight
  BY DEF InFlight, Inside, At, Downloads, StartAttempt, FindsAborted, GetFails, GetRefused,
         GetStream, GetBuffer, SpoolFails, SpoolSucceeds, CountWritten, ThrowRejected
<1> QED BY <1>7, <1>8 DEF Stays, Leaves

LEMMA WriterKeepsGate ==
  ASSUME AInv, GateRight, WriterSteps
  PROVE  GateRight'
<1>1. CASE Break /\ UNCHANGED gate
  <2>1. tasks' = [o \in Objects |-> IF o \in ToSet(writer.pending)
                                    THEN [tasks[o] EXCEPT !.step = "rejected"] ELSE tasks[o]]
    BY <1>1 DEF Break, RejectPending
  <2>2. \A o \in Objects : [tasks[o] EXCEPT !.step = "rejected"].step = "rejected"
    BY InvParts DEF Task
  <2>3. \A o \in Objects : o \in ToSet(writer.pending) => tasks[o].step = "append"
    BY TaskFacts
  <2> QED BY <1>1, <2>1, <2>2, <2>3, StayKeepsGate DEF Inside
<1>2. CASE EntryWritten
  <2> DEFINE e == Head(writer.pending)
  <2>1. CASE e \in Objects
    <3>1. tasks' = [tasks EXCEPT ![e].step = "written"] /\ UNCHANGED gate
      BY <1>2, <2>1 DEF EntryWritten
    <3>2. e \in ToSet(writer.pending)
      BY <1>2, InvParts, SetOfTail DEF EntryWritten, QueueRight
    <3>3. tasks[e].step = "append"
      BY <2>1, <3>2, TaskFacts
    <3> HIDE DEF e
    <3>4. /\ tasks'[e].step = "written"
          /\ \A p \in Objects : p # e => tasks'[p] = tasks[p]
      BY <2>1, <3>1, InvParts DEF Task
    <3>5. \A p \in Objects : /\ tasks'[p].step \in Inside <=> tasks[p].step \in Inside
                             /\ tasks'[p].step = "waiting" <=> tasks[p].step = "waiting"
      BY <3>3, <3>4 DEF Inside
    <3> QED BY <3>1, <3>5, StayKeepsGate
  <2>2. CASE e \notin Objects
    <3>1. UNCHANGED <<tasks, gate>>
      BY <1>2, <2>2 DEF EntryWritten
    <3> QED BY <3>1, StayKeepsGate
  <2> QED BY <2>1, <2>2
<1>3. CASE UNCHANGED <<tasks, gate>>
  BY <1>3, StayKeepsGate
<1> QED BY <1>1, <1>2, <1>3 DEF WriterSteps, WriterFails, Abort

LEMMA NextKeepsGate ==
  AInv /\ GateRight /\ [Next]_vars => GateRight'
<1> SUFFICES ASSUME AInv, GateRight, [Next]_vars PROVE GateRight'
  OBVIOUS
<1>1. CASE UNCHANGED <<gate, tasks>>
  BY <1>1, StayKeepsGate
<1>2. CASE EngineSteps
  BY <1>1, <1>2, BeginBatchKeepsGate
     DEF EngineSteps, ListBuckets, ScanFails, EndBatch, BatchFails, ScanEnds, FlushAndList, Unmoved
<1>3. CASE WriterSteps
  BY <1>3, WriterKeepsGate
<1>4. CASE Finalize \/ PostsSettle \/ PostFails \/ UNCHANGED vars
  BY <1>1, <1>4 DEF Finalize, PostsSettle, PostFails, vars
<1>5. ASSUME NEW o \in Objects, Downloads(o) PROVE GateRight'
  <2>1. CASE \E class \in Class \cup {"pending"} : Leave(o, class)
    BY <1>5, <2>1, StaysOrLeaves, LeaveKeepsGate
  <2>2. ASSUME UNCHANGED gate,
               NEW t \in Task, t.step \in Inside, tasks' = [tasks EXCEPT ![o] = t]
        PROVE  GateRight'
    <3>1. tasks[o].step \in Inside
      BY <1>5, StaysOrLeaves DEF InFlight
    <3>2. tasks'[o] = t /\ \A p \in Objects : p # o => tasks'[p] = tasks[p]
      BY <2>2, InvParts
    <3> QED BY <2>2, <3>1, <3>2, StayKeepsGate DEF Inside
  <2> QED BY <1>5, <2>1, <2>2, StaysOrLeaves
<1> QED BY <1>2, <1>3, <1>4, <1>5 DEF Next

LEMMA InitGate == Init => GateRight
<1> SUFFICES ASSUME Init PROVE GateRight
  OBVIOUS
<1>1. InFlight = {} /\ Waiting = {}
  BY DEF Init, InFlight, Waiting, Inside
<1>2. /\ gate.active = 0 /\ gate.bytes = 0 /\ gate.waiters = <<>> /\ gate \in Gate
      /\ ToSet(gate.waiters) = {}
  BY DEF Init, Gate, ToSet
<1>3. Cardinality({}) = 0 /\ Bytes[{}] = 0 /\ Concurrency \in Nat
  BY FS_EmptySet, BytesFacts, ExportConstants
<1>4. GateHolds(gate, {})
  BY <1>2, <1>3 DEF GateHolds
<1> QED BY <1>1, <1>2, <1>4 DEF GateRight

\* Who is first in the queue does not fit, so somebody is inside who will let it in.
LEMMA WaitersAreLetIn ==
  ASSUME GateRight
  PROVE  gate.waiters # <<>> => gate.active > 0
<1>1. /\ gate.active \in Nat /\ gate.bytes \in Nat /\ gate.waiters \in Seq(Objects)
      /\ Concurrency \in Nat \ {0}
      /\ gate.waiters # <<>> => ~CanAcquire(gate, Head(gate.waiters))
  BY ExportConstants DEF GateRight, GateHolds, Gate
<1> QED BY <1>1 DEF CanAcquire

\* Two downloads reserve more than one of them, by one byte at least.
LEMMA BytesOfTwo ==
  ASSUME NEW A \in SUBSET Objects, NEW o \in A, NEW p \in A, o # p
  PROVE  Bytes[A] >= Weight(o) + 1
<1>1. A \ {o} \in SUBSET Objects /\ p \in A \ {o} /\ (A \ {o}) \ {p} \in SUBSET Objects
  OBVIOUS
<1>2. Bytes[A] = Weight(o) + Bytes[A \ {o}]
  BY BytesFacts
<1>3. Bytes[A \ {o}] = Weight(p) + Bytes[(A \ {o}) \ {p}] /\ Bytes[(A \ {o}) \ {p}] \in Nat
  BY <1>1, BytesFacts
<1>4. Weight(o) \in Nat /\ Weight(p) \in Nat /\ Weight(p) >= 1
  BY WeightType, ExportConstants
<1> HIDE <1>1
<1> QED BY <1>2, <1>3, <1>4

\* Of two downloads or more each reserves its size, and all together stay within the
\* bound.
LEMMA GateBoundsBytes ==
  ASSUME GateRight
  PROVE  BytesAreBounded
<1>1. /\ InFlight \in SUBSET Objects /\ IsFiniteSet(InFlight) /\ Cardinality(InFlight) \in Nat
      /\ gate.active = Cardinality(InFlight) /\ gate.bytes = Bytes[InFlight]
      /\ gate.active <= 1 \/ gate.bytes <= MaxBytes
      /\ Bytes[InFlight] \in Nat /\ MaxBytes \in Nat \ {0}
  BY ObjectNumbers, BytesFacts, ExportConstants DEF GateRight, GateHolds, InFlight
<1> SUFFICES ASSUME Cardinality(InFlight) # 1
             PROVE  LET size(o) == SizeOf[o] IN MapThenSumSet(size, InFlight) <= MaxBytes
  BY DEF BytesAreBounded
<1>2. Bytes[InFlight] <= MaxBytes
  <2>1. CASE Cardinality(InFlight) = 0
    <3>1. InFlight = {}
      BY <1>1, <2>1, FS_EmptySet
    <3> QED BY <1>1, <3>1, BytesFacts
  <2> QED BY <1>1, <2>1
<1>3. ASSUME NEW o \in InFlight PROVE SizeOf[o] <= Weight(o)
  <2>1. PICK p \in InFlight : p # o
    <3>1. InFlight # {o}
      BY <1>1, FS_Singleton
    <3> QED BY <3>1
  <2>2. Bytes[InFlight] >= Weight(o) + 1
    BY <1>1, <2>1, BytesOfTwo
  <2>3. Weight(o) \in Nat /\ SizeOf[o] \in Nat
    BY <1>1, WeightType, ExportConstants
  <2>4. Weight(o) < MaxBytes
    BY <1>1, <1>2, <2>2, <2>3
  <2> QED BY <1>1, <2>3, <2>4 DEF Weight
<1> DEFINE size(o) == SizeOf[o]
           sum == MapThenSumSet(size, InFlight)
<1>4. sum \in Nat /\ sum <= Bytes[InFlight]
  BY <1>1, <1>3, SizesWithinBytes
<1>5. sum <= MaxBytes
  <2> HIDE DEF sum
  <2> QED BY <1>1, <1>2, <1>4
<1> QED BY <1>5

-----------------------------------------------------------------------------
(***************************************************************************)
(* The theorems.                                                           *)
(***************************************************************************)

LEMMA InitAInv == Init => AInv
<1> SUFFICES ASSUME Init PROVE AInv
  OBVIOUS
<1>1. /\ \A o \in Objects : tasks[o].step = "listed" /\ tasks[o].class = "pending"
      /\ \A e \in Entries : zip[e] = 0
      /\ engine.pc = "list" /\ engine.batch = 1 /\ engine.failed = FALSE
      /\ writer.state = "open" /\ writer.pending = <<>>
  BY DEF Init
<1>2. Parts
  <2>1. [step |-> "listed", attempt |-> 1, class |-> "pending"] \in Task
    BY ExportConstants DEF Task, Step
  <2>2. tasks \in [Objects -> Task]
    BY <2>1 DEF Init
  <2>3. zip \in [Entries -> Nat] /\ writer.pending \in Seq(Entries)
    BY DEF Init
  <2>4. engine \in Engine /\ progress \in [posting: BOOLEAN, broken: BOOLEAN] /\ signal \in BOOLEAN
    BY DEF Init, Engine
  <2>5. writer \in [state: {"open", "broken", "complete"}, pending: Seq(Entries)]
    BY DEF Init
  <2> QED BY <2>2, <2>3, <2>4, <2>5 DEF Parts
<1>3. TasksRight
  BY <1>1, ObjectFacts DEF TasksRight, TaskRight
<1>4. QueueRight
  <2>1. ToSet(writer.pending) = {}
    BY <1>1 DEF ToSet
  <2> QED BY <1>1, <2>1 DEF QueueRight
<1>5. EngineRight
  BY <1>1, ObjectFacts DEF EngineRight
<1>6. OwnEntries
  BY <1>1, ObjectFacts DEF OwnEntries
<1> QED BY <1>2, <1>3, <1>4, <1>5, <1>6 DEF AInv

LEMMA NextKeeps == AInv /\ [Next]_vars => Kept
<1> SUFFICES ASSUME AInv, [Next]_vars PROVE Kept
  OBVIOUS
<1>1. CASE EngineSteps
  <2>1. CASE ScanFails \/ BatchFails
    BY <2>1, ThrownKeeps, InvParts DEF ScanFails, BatchFails, Parts
  <2> QED BY <1>1, <2>1, ListBucketsKeeps, BeginBatchKeeps, EndBatchKeeps, ScanEndsKeeps,
             FlushAndListKeeps DEF EngineSteps
<1>2. CASE WriterSteps
  <2>1. CASE WriterFails
    BY <2>1, BreakKeeps, InvParts DEF WriterFails, Parts
  <2>2. CASE Abort
    <3>1. CASE Break
      <4>1. signal' \in BOOLEAN /\ UNCHANGED <<progress, zip>>
        BY <2>2, InvParts DEF Abort, Parts
      <4> QED BY <3>1, <4>1, BreakKeeps
    <3>2. CASE ~Break
      <4>1. signal' = TRUE /\ UNCHANGED <<engine, tasks, progress, writer, zip>>
        BY <2>2, <3>2 DEF Abort
      <4>2. progress' \in [posting: BOOLEAN, broken: BOOLEAN]
        BY <4>1, InvParts DEF Parts
      <4> QED BY <4>1, <4>2, SignalKeeps
    <3> QED BY <3>1, <3>2
  <2> QED BY <1>2, <2>1, <2>2, EntryWrittenKeeps DEF WriterSteps
<1>3. CASE PostsSettle \/ PostFails \/ UNCHANGED vars
  BY <1>3, PostsKeep
<1>4. CASE Finalize
  BY <1>4, FinalizeKeeps
<1>5. ASSUME NEW o \in Objects, Downloads(o) PROVE Kept
  BY <1>5, DownloadsKeep
<1> QED BY <1>1, <1>2, <1>3, <1>4, <1>5 DEF Next

\* Downloads, batches, the writer's queue and the archive agree in every reachable
\* state (runStorageExportEngine, storage-export.ts:520-749; archive-writer.ts:104-178).
THEOREM ExportInvariant == Spec => []AInv
<1>1. AInv /\ [Next]_vars => AInv'
  BY NextKeeps DEF Kept
<1> QED BY <1>1, InitAInv, PTL DEF Spec

\* Whatever was retried, aborted or broken on the way, the archive agrees with the
\* report, and a complete one holds everything that is not listed as missing
\* (storage-export.ts:489-531, 727-748).
THEOREM ArchivesAreHonest == Spec => []ArchiveIsHonest
<1>1. AInv => ArchiveIsHonest
  <2> SUFFICES ASSUME AInv PROVE ArchiveIsHonest
    OBVIOUS
  <2>1. ArchiveMatchesReport
    BY TaskFacts DEF ArchiveMatchesReport, TaskRight
  <2>2. ASSUME writer.state = "complete"
        PROVE  /\ zip[Manifest] = 1
               /\ zip[MissingList] = IF SomeMissing THEN 1 ELSE 0
               /\ \A o \in Objects : zip[o] = 1 \/ tasks[o].class = "missing"
               /\ writer.pending = <<>>
    <3>1. engine.pc = "returned"
      BY <2>2, InvParts DEF OwnEntries
    <3>2. \A o \in Objects : tasks[o].class \in Class
      BY <3>1, AllDone, InvParts DEF AllClassified, Task
    <3>3. \A o \in Objects : zip[o] = 1 \/ tasks[o].class = "missing"
      BY <3>2, TaskFacts DEF TaskRight, Class
    <3>4. writer.pending = <<>>
      BY <2>2, InvParts DEF QueueRight
    <3> QED BY <3>1, <3>3, <3>4, InvParts DEF OwnEntries
  <2> QED BY <2>1, <2>2 DEF ArchiveIsHonest, CompleteArchiveIsWhole
<1> QED BY <1>1, ExportInvariant, PTL

\* The engine implements the safety part of the ledger: an object is counted once, and
\* the engine returns only when all are counted.
THEOREM ExportImplementsLedger == Spec => Ledger!Spec
<1> DEFINE seen == [o \in Objects |-> tasks[o].class]
           said == CASE engine.pc = "returned" -> "complete"
                     [] engine.pc = "thrown" -> "error"
                     [] OTHER -> "open"
<1>1. Init => Ledger!Init
  BY DEF Init, Ledger!Init
<1>2. AInv /\ [Next]_vars => [Ledger!Next]_(Ledger!ledger)
  <2> SUFFICES ASSUME AInv, [Next]_vars PROVE [Ledger!Next]_(Ledger!ledger)
    OBVIOUS
  <2>1. LedgerStep
    BY NextKeeps DEF Kept
  <2>2. SameClasses => seen' = seen
    BY DEF SameClasses
  <2>3. engine'.pc = engine.pc => said' = said
    OBVIOUS
  <2>4. ASSUME NEW o \in Objects, Classified(o), engine'.pc = engine.pc
        PROVE  Ledger!Classify(o)
    <3>1. seen[o] = "pending" /\ tasks'[o].class \in Class
      BY <2>4 DEF Classified
    <3>2. seen' = [seen EXCEPT ![o] = tasks'[o].class]
      BY <2>4 DEF Classified
    <3> QED BY <2>3, <2>4, <3>1, <3>2 DEF Ledger!Classify
  <2>5. ASSUME SameClasses, engine'.pc = engine.pc
        PROVE  UNCHANGED Ledger!ledger
    BY <2>2, <2>3, <2>5 DEF Ledger!ledger
  <2>6. ASSUME SameClasses, engine.pc \notin {"returned", "thrown"}, engine'.pc # "returned"
        PROVE  Ledger!Conclude \/ UNCHANGED Ledger!ledger
    <3>1. said = "open" /\ said' \in {"open", "error"}
      BY <2>6
    <3> QED BY <2>2, <2>6, <3>1 DEF Ledger!Conclude, Ledger!ledger
  <2>7. ASSUME SameClasses, engine.pc \in {"flush", "csv"}, engine'.pc = "returned", AllClassified
        PROVE  Ledger!Conclude
    <3>1. said = "open" /\ said' = "complete"
      BY <2>7
    <3>2. \A o \in Objects : seen[o] # "pending"
      BY <2>7 DEF AllClassified
    <3> QED BY <2>2, <2>7, <3>1, <3>2 DEF Ledger!Conclude
  <2> QED BY <2>1, <2>4, <2>5, <2>6, <2>7 DEF LedgerStep, Ledger!Next
<1> QED BY <1>1, <1>2, ExportInvariant, PTL DEF Spec, Ledger!Spec

\* The gate agrees with the downloads in every reachable state: it counts who is
\* inside and what they reserve, and who waits is in its queue
\* (createWeightedConcurrencyGate, storage-export.ts:314-372).
THEOREM GateInvariant == Spec => [](AInv /\ GateRight)
<1>1. AInv /\ GateRight /\ [Next]_vars => AInv' /\ GateRight'
  BY NextKeeps, NextKeepsGate DEF Kept
<1>2. Init => AInv /\ GateRight
  BY InitAInv, InitGate
<1> QED BY <1>1, <1>2, PTL DEF Spec

\* Every variable keeps its type, the gate counts as many downloads as there are inside
\* it, and nobody waits at an empty one (storage-export.ts:314-372, 520-749).
THEOREM ExportTypes == Spec => []ExportTypeOK
<1>1. AInv /\ GateRight => ExportTypeOK
  <2> SUFFICES ASSUME AInv, GateRight PROVE ExportTypeOK
    OBVIOUS
  <2>1. gate \in Gate /\ gate.active = Cardinality(InFlight)
    BY DEF GateRight, GateHolds
  <2> QED BY <2>1, InvParts, WaitersAreLetIn DEF ExportTypeOK, Parts, InFlight
<1> QED BY <1>1, GateInvariant, PTL

\* However downloads of all sizes come and go, what they are expected to hold stays
\* within the bound unless one of them runs alone, and no wake-up is lost: who is first
\* in the queue does not fit (acquire, release and drain, storage-export.ts:314-372).
THEOREM GatesAreSound == Spec => []GateIsSound
<1>1. GateRight => GateIsSound
  BY GateBoundsBytes DEF GateIsSound, FirstWaiterDoesNotFit, GateRight, GateHolds
<1> QED BY <1>1, GateInvariant, PTL

-----------------------------------------------------------------------------
(***************************************************************************)
(* Bounded effort: downloads, batches and the archive come to an end,      *)
(* whatever fails and whenever the archive is given up.                    *)
(***************************************************************************)

\* How many steps a download has left at most: in its attempt, and altogether.
StepEffort(step) ==
  CASE step = "start" -> 5
    [] step = "get" -> 4
    [] step = "spool" -> 3
    [] step = "append" -> 2
    [] step \in {"rejected", "written"} -> 1

FullEffort == 5 * MaxAttempts + 2

Effort(t) ==
  CASE t.step = "listed" -> FullEffort
    [] t.step = "waiting" -> FullEffort - 1
    [] t.step = "done" -> 0
    [] OTHER -> 5 * (MaxAttempts - t.attempt) + StepEffort(t.step)

\* The batches come to an end: the engine is at one of them or just behind the last.
LastBatch == IF BatchOf = <<>> THEN 0 ELSE BatchOf[Len(BatchOf)]

BatchInBounds ==
  /\ engine.batch \in 1..(LastBatch + 1)
  /\ engine.pc = "batch" => engine.batch <= LastBatch

\* The steps the engine has left in a batch, or after the last one.
PhaseEffort(pc) ==
  CASE pc = "list" -> 6
    [] pc = "manifest" -> 5
    [] pc = "scan" -> 4
    [] pc = "batch" -> 3
    [] pc = "flush" -> 2
    [] pc = "csv" -> 1
    [] pc \in {"returned", "thrown"} -> 0

\* The steps the engine has left at most, whatever its downloads do.
EngineEffort == 2 * (LastBatch + 1 - engine.batch) + PhaseEffort(engine.pc)

\* An archive breaks or is completed once.
WriterEffort == IF writer.state = "open" THEN 1 ELSE 0

\* The signal is given once.
SignalEffort == IF signal THEN 0 ELSE 1

PostEffort == (IF progress.posting THEN 1 ELSE 0) + (IF progress.broken THEN 0 ELSE 1)

\* One step: the engine, a download or the archive has less to do, or, these being as they
\* were, the chain of posts has or the signal is given; and of the three nothing ever has more to do.
EffortsShrink ==
  /\ EngineEffort' <= EngineEffort /\ WriterEffort' <= WriterEffort
  /\ \A o \in Objects : Effort(tasks'[o]) <= Effort(tasks[o])
  /\ \/ EngineEffort' < EngineEffort \/ WriterEffort' < WriterEffort
     \/ \E o \in Objects : Effort(tasks'[o]) < Effort(tasks[o])
     \/ PostEffort' < PostEffort \/ SignalEffort' < SignalEffort
  /\ EngineSteps => EngineEffort' < EngineEffort
  /\ \A o \in Objects : Downloads(o) => Effort(tasks'[o]) < Effort(tasks[o])

EffortsTyped ==
  /\ {EngineEffort, WriterEffort, PostEffort, SignalEffort} \subseteq Nat
  /\ \A o \in Objects : Effort(tasks[o]) \in 0..FullEffort

-----------------------------------------------------------------------------
LEMMA EffortOf ==
  ASSUME NEW t \in Task
  PROVE  /\ t.step = "listed" => Effort(t) = 5 * MaxAttempts + 2
         /\ t.step = "waiting" => Effort(t) = 5 * MaxAttempts + 1
         /\ t.step = "start" => Effort(t) = 5 * (MaxAttempts - t.attempt) + 5
         /\ t.step = "get" => Effort(t) = 5 * (MaxAttempts - t.attempt) + 4
         /\ t.step = "spool" => Effort(t) = 5 * (MaxAttempts - t.attempt) + 3
         /\ t.step = "append" => Effort(t) = 5 * (MaxAttempts - t.attempt) + 2
         /\ t.step \in {"rejected", "written"} => Effort(t) = 5 * (MaxAttempts - t.attempt) + 1
         /\ t.step = "done" => Effort(t) = 0
         /\ t.attempt \in 1..MaxAttempts /\ MaxAttempts \in Nat
         /\ Effort(t) \in 0..FullEffort
         /\ t.step # "done" => Effort(t) > 0
<1>1. t.step \in Step /\ t.attempt \in 1..MaxAttempts /\ MaxAttempts \in Nat
  BY ExportConstants DEF Task
<1>2. /\ t.step = "listed" => Effort(t) = 5 * MaxAttempts + 2
      /\ t.step = "waiting" => Effort(t) = 5 * MaxAttempts + 1
      /\ t.step = "done" => Effort(t) = 0
  BY <1>1 DEF Effort, FullEffort
<1>3. t.step \notin {"listed", "waiting", "done"} =>
        Effort(t) = 5 * (MaxAttempts - t.attempt) + StepEffort(t.step)
  BY DEF Effort
<1>4. /\ StepEffort("start") = 5 /\ StepEffort("get") = 4 /\ StepEffort("spool") = 3
      /\ StepEffort("append") = 2 /\ StepEffort("rejected") = 1 /\ StepEffort("written") = 1
  BY DEF StepEffort
<1>5. /\ t.step = "start" => Effort(t) = 5 * (MaxAttempts - t.attempt) + 5
      /\ t.step = "get" => Effort(t) = 5 * (MaxAttempts - t.attempt) + 4
      /\ t.step = "spool" => Effort(t) = 5 * (MaxAttempts - t.attempt) + 3
      /\ t.step = "append" => Effort(t) = 5 * (MaxAttempts - t.attempt) + 2
      /\ t.step \in {"rejected", "written"} => Effort(t) = 5 * (MaxAttempts - t.attempt) + 1
  BY <1>3, <1>4
<1> QED BY <1>1, <1>2, <1>5 DEF Step, FullEffort

\* No download has more to do than it had.
NoneHasMore == \A p \in Objects : Effort(tasks'[p]) <= Effort(tasks[p])

\* What a step does to a download: nothing, or it has less to do.
LEMMA LessOrSame ==
  ASSUME AInv,
         \A p \in Objects : tasks'[p] = tasks[p] \/ Effort(tasks'[p]) < Effort(tasks[p]),
         \A p \in Objects : tasks'[p] \in Task
  PROVE  NoneHasMore
<1> SUFFICES ASSUME NEW p \in Objects PROVE Effort(tasks'[p]) <= Effort(tasks[p])
  BY DEF NoneHasMore
<1>1. Effort(tasks[p]) \in Nat /\ Effort(tasks'[p]) \in Nat
  BY TaskFacts, EffortOf
<1>2. CASE tasks'[p] = tasks[p]
  BY <1>1, <1>2
<1>3. CASE Effort(tasks'[p]) < Effort(tasks[p])
  BY <1>1, <1>3
<1> QED BY <1>2, <1>3

\* The download of o has less to do and no other has more; nor have engine and archive.
Works(o) ==
  /\ Effort(tasks'[o]) < Effort(tasks[o]) /\ NoneHasMore
  /\ EngineEffort' = EngineEffort /\ WriterEffort' = WriterEffort

LEMMA GoesOn ==
  ASSUME AInv, NEW o \in Objects, NEW t \in Task, tasks' = [tasks EXCEPT ![o] = t],
         Effort(t) < Effort(tasks[o]), engine' = engine, writer'.state = writer.state
  PROVE  Works(o)
<1>1. tasks'[o] = t /\ \A p \in Objects : p # o => tasks'[p] = tasks[p]
  BY InvParts DEF Parts
<1>2. \A p \in Objects : tasks[p] \in Task
  BY TaskFacts
<1>3. NoneHasMore
  <2>1. \A p \in Objects : tasks'[p] = tasks[p] \/ Effort(tasks'[p]) < Effort(tasks[p])
    BY <1>1
  <2>2. \A p \in Objects : tasks'[p] \in Task
    BY <1>1, <1>2
  <2> QED BY <2>1, <2>2, LessOrSame
<1>4. EngineEffort' = EngineEffort /\ WriterEffort' = WriterEffort
  BY DEF EngineEffort, WriterEffort
<1> QED BY <1>1, <1>3, <1>4 DEF Works

\* A download that leaves the gate is over, and those it lets in are a step further.
LEMMA LeaveWorks ==
  ASSUME AInv, NEW o \in Objects, tasks[o].step \in Inside,
         NEW class \in Class \cup {"pending"}, Leave(o, class),
         engine'.pc = engine.pc, engine'.batch = engine.batch, writer' = writer
  PROVE  Works(o)
<1> DEFINE d == [step |-> "done", attempt |-> 1, class |-> class]
           after == [tasks EXCEPT ![o] = d]
<1>1. tasks' = Entered(after, Release(gate, o))
  BY DEF Leave
<1>2. d \in Task /\ d.step = "done"
  BY ExportConstants DEF Task, Step
<1>3. after[o] = d /\ \A p \in Objects : p # o => after[p] = tasks[p]
  BY InvParts DEF Parts
<1> HIDE DEF d, after
<1>4. \A p \in Objects :
        \/ tasks'[p] = after[p]
        \/ after[p].step = "waiting" /\ tasks'[p] = [after[p] EXCEPT !.step = "start"]
  BY <1>1 DEF Entered
<1>5. tasks'[o] = d /\ Effort(d) < Effort(tasks[o])
  <2>1. Effort(d) = 0 /\ Effort(tasks[o]) \in Nat /\ Effort(tasks[o]) > 0
    BY <1>2, EffortOf, TaskFacts DEF Inside
  <2> QED BY <1>2, <1>3, <1>4, <2>1
<1>6. ASSUME NEW p \in Objects, p # o
      PROVE  /\ tasks'[p] \in Task
             /\ tasks'[p] = tasks[p] \/ Effort(tasks'[p]) < Effort(tasks[p])
  <2>1. CASE tasks'[p] = tasks[p]
    BY <2>1, TaskFacts
  <2>2. CASE tasks[p].step = "waiting" /\ tasks'[p] = [tasks[p] EXCEPT !.step = "start"]
    <3>1. tasks'[p] \in Task /\ tasks'[p].step = "start"
      BY <2>2, TaskFacts DEF Task, Step
    <3>2. /\ Effort(tasks[p]) = 5 * MaxAttempts + 1 /\ MaxAttempts \in Nat
          /\ Effort(tasks'[p]) = 5 * (MaxAttempts - tasks'[p].attempt) + 5
          /\ tasks'[p].attempt \in 1..MaxAttempts
      BY <2>2, <3>1, EffortOf, TaskFacts
    <3> QED BY <3>1, <3>2
  <2> QED BY <1>3, <1>4, <1>6, <2>1, <2>2
<1>7. NoneHasMore
  BY <1>2, <1>5, <1>6, LessOrSame
<1>8. EngineEffort' = EngineEffort /\ WriterEffort' = WriterEffort
  BY DEF EngineEffort, WriterEffort
<1> QED BY <1>5, <1>7, <1>8 DEF Works

LEMMA ThrowsWorks ==
  ASSUME AInv, NEW o \in Objects, tasks[o].step \in Inside, Throws(o) PROVE Works(o)
<1>1. /\ Leave(o, "pending") /\ engine' = [engine EXCEPT !.failed = TRUE] /\ writer' = writer
  BY DEF Throws
<1>2. engine'.pc = engine.pc /\ engine'.batch = engine.batch
  BY <1>1, InvParts DEF Parts, Engine
<1> QED BY <1>1, <1>2, LeaveWorks

LEMMA EndsWorks ==
  ASSUME AInv, NEW o \in Objects, tasks[o].step \in Inside, NEW class \in Class, Ends(o, class)
  PROVE  Works(o)
<1>1. /\ Leave(o, class) /\ writer' = writer
      /\ engine' = [engine EXCEPT !.failed = TRUE] \/ engine' = engine
  BY DEF Ends
<1>2. engine'.pc = engine.pc /\ engine'.batch = engine.batch
  BY <1>1, InvParts DEF Parts, Engine
<1> QED BY <1>1, <1>2, LeaveWorks

LEMMA AgainWorks ==
  ASSUME AInv, NEW o \in Objects, tasks[o].step \in {"get", "spool"}, Again(o)
  PROVE  Works(o)
<1>1. CASE tasks[o].attempt < MaxAttempts
  <2> DEFINE t == [tasks[o] EXCEPT !.step = "start", !.attempt = @ + 1]
  <2>1. /\ tasks' = [tasks EXCEPT ![o].step = "start", ![o].attempt = @ + 1]
        /\ engine' = engine /\ writer' = writer
    BY <1>1 DEF Again, Unchanged
  <2>2. tasks' = [tasks EXCEPT ![o] = t]
    BY <2>1, InvParts DEF Parts
  <2>3. tasks[o].attempt + 1 \in 1..MaxAttempts /\ tasks[o] \in Task
    BY <1>1, TaskFacts, EffortOf
  <2>4. t \in Task /\ t.step = "start" /\ t.attempt = tasks[o].attempt + 1
    BY <2>3 DEF Task, Step
  <2> HIDE DEF t
  <2>5. /\ Effort(t) = 5 * (MaxAttempts - (tasks[o].attempt + 1)) + 5
        /\ \/ Effort(tasks[o]) = 5 * (MaxAttempts - tasks[o].attempt) + 4
           \/ Effort(tasks[o]) = 5 * (MaxAttempts - tasks[o].attempt) + 3
        /\ MaxAttempts \in Nat /\ tasks[o].attempt \in 1..MaxAttempts
    BY <2>3, <2>4, EffortOf
  <2>6. Effort(t) < Effort(tasks[o])
    BY <2>5
  <2> QED BY <2>1, <2>2, <2>4, <2>6, GoesOn
<1>2. CASE ~(tasks[o].attempt < MaxAttempts)
  <2>1. Ends(o, "missing")
    BY <1>2 DEF Again
  <2> QED BY <2>1, EndsWorks DEF Inside, Class
<1> QED BY <1>1, <1>2

\* The next step of the same attempt.
LEMMA AdvanceWorks ==
  ASSUME AInv, NEW o \in Objects, NEW step, Advance(o, step), engine' = engine,
         writer'.state = writer.state,
         \/ tasks[o].step = "start" /\ step = "get"
         \/ tasks[o].step = "get" /\ step = "spool"
         \/ tasks[o].step \in {"get", "spool"} /\ step = "append"
  PROVE  Works(o)
<1> DEFINE t == [tasks[o] EXCEPT !.step = step]
<1>1. tasks' = [tasks EXCEPT ![o] = t]
  BY InvParts DEF Advance, Parts
<1>2. t \in Task /\ t.step = step /\ t.attempt = tasks[o].attempt /\ tasks[o] \in Task
  BY TaskFacts DEF Task, Step
<1> HIDE DEF t
<1>3. MaxAttempts \in Nat /\ tasks[o].attempt \in 1..MaxAttempts
  BY <1>2, EffortOf
<1>4. Effort(t) < Effort(tasks[o])
  BY <1>2, <1>3, EffortOf
<1> QED BY <1>1, <1>2, <1>4, GoesOn

LEMMA AppendOrThrowWorks ==
  ASSUME AInv, NEW o \in Objects, tasks[o].step \in {"get", "spool"}, AppendOrThrow(o)
  PROVE  Works(o)
<1>1. CASE writer.state = "open"
  <2>1. Advance(o, "append") /\ AppendEntry(o) /\ engine' = engine
    BY <1>1 DEF AppendOrThrow, Unchanged
  <2>2. writer'.state = writer.state
    BY <2>1, InvParts DEF AppendEntry, Parts
  <2> QED BY <2>1, <2>2, AdvanceWorks
<1>2. CASE writer.state # "open"
  BY <1>2, ThrowsWorks DEF AppendOrThrow, Inside
<1> QED BY <1>1, <1>2

LEMMA DownloadsWork ==
  ASSUME AInv, NEW o \in Objects, Downloads(o) PROVE Works(o)
<1>1. CASE StartAttempt(o)
  BY <1>1, AdvanceWorks DEF StartAttempt, At, Unchanged
<1>2. CASE FindsAborted(o)
  BY <1>2, ThrowsWorks DEF FindsAborted, At, Inside
<1>3. CASE GetFails(o)
  BY <1>3, AgainWorks DEF GetFails, At
<1>4. CASE GetRefused(o)
  BY <1>4, EndsWorks DEF GetRefused, At, Inside, Class
<1>5. CASE GetStream(o)
  BY <1>5, AdvanceWorks DEF GetStream, At, Unchanged
<1>6. CASE GetBuffer(o)
  BY <1>6, AppendOrThrowWorks DEF GetBuffer, At
<1>7. CASE SpoolFails(o)
  BY <1>7, AgainWorks, EndsWorks, ThrowsWorks DEF SpoolFails, At, Inside, Class
<1>8. CASE SpoolSucceeds(o)
  BY <1>8, AppendOrThrowWorks DEF SpoolSucceeds, At
<1>9. CASE CountWritten(o)
  BY <1>9, EndsWorks DEF CountWritten, At, Inside, Class
<1>10. CASE ThrowRejected(o)
  BY <1>10, ThrowsWorks DEF ThrowRejected, At, Inside
<1> QED BY <1>1, <1>2, <1>3, <1>4, <1>5, <1>6, <1>7, <1>8, <1>9, <1>10 DEF Downloads

-----------------------------------------------------------------------------
LEMMA LastBatchFacts ==
  LastBatch \in Nat /\ \A o \in Objects : BatchOf[o] <= LastBatch
<1>1. /\ Len(BatchOf) \in Nat /\ Objects = 1..Len(BatchOf)
      /\ \A o \in Objects : BatchOf[o] \in Nat
  BY ExportConstants DEF Objects
<1>2. CASE BatchOf = <<>>
  BY <1>1, <1>2 DEF LastBatch
<1>3. CASE BatchOf # <<>>
  <2>1. Len(BatchOf) \in Objects
    BY <1>1, <1>3, ExportConstants
  <2>2. \A o \in Objects : o <= Len(BatchOf)
    BY <1>1
  <2>3. \A o \in Objects : BatchOf[o] <= BatchOf[Len(BatchOf)]
    BY <2>1, <2>2, ExportConstants
  <2> QED BY <1>1, <1>3, <2>1, <2>3 DEF LastBatch
<1> QED BY <1>2, <1>3

LEMMA Phases ==
  /\ PhaseEffort("list") = 6 /\ PhaseEffort("manifest") = 5 /\ PhaseEffort("scan") = 4
  /\ PhaseEffort("batch") = 3 /\ PhaseEffort("flush") = 2 /\ PhaseEffort("csv") = 1
  /\ PhaseEffort("returned") = 0 /\ PhaseEffort("thrown") = 0
BY DEF PhaseEffort

LEMMA EngineEffortIs ==
  ASSUME AInv, BatchInBounds
  PROVE  /\ LastBatch + 1 - engine.batch \in Nat /\ PhaseEffort(engine.pc) \in Nat
         /\ EngineEffort \in Nat
<1>1. LastBatch + 1 - engine.batch \in Nat
  BY LastBatchFacts DEF BatchInBounds
<1>2. PhaseEffort(engine.pc) \in Nat
  BY InvParts, Phases DEF Parts, Engine
<1> QED BY <1>1, <1>2 DEF EngineEffort

\* The engine goes on: to a later phase, which is a batch only if that has objects, or
\* to the next batch.
Onward ==
  \/ /\ engine'.batch = engine.batch /\ PhaseEffort(engine'.pc) < PhaseEffort(engine.pc)
     /\ engine'.pc = "batch" => Batch # {}
  \/ engine'.batch = engine.batch + 1 /\ engine.pc = "batch" /\ engine'.pc = "scan"

LEMMA EngineStepsGoOn ==
  ASSUME AInv, EngineSteps PROVE Onward
<1>1. CASE ListBuckets
  <2>1. engine.pc = "list" /\ (Go("manifest") \/ Go("thrown"))
    BY <1>1 DEF ListBuckets, AppendOwn
  <2> QED BY <2>1, EngineGoes, Phases DEF Onward
<1>2. CASE BeginBatch
  <2>1. engine.pc = "scan" /\ Batch # {} /\ Go("batch")
    BY <1>2 DEF BeginBatch
  <2> QED BY <2>1, EngineGoes, Phases DEF Onward
<1>3. CASE ScanFails \/ BatchFails
  <2>1. engine.pc \in {"scan", "batch"} /\ Go("thrown")
    BY <1>3 DEF ScanFails, BatchFails
  <2> QED BY <2>1, EngineGoes, Phases DEF Onward
<1>4. CASE EndBatch
  <2>1. /\ engine.pc = "batch"
        /\ Go("thrown") \/ engine' = [engine EXCEPT !.pc = "scan", !.batch = @ + 1]
    BY <1>4 DEF EndBatch
  <2>2. CASE Go("thrown")
    BY <2>1, <2>2, EngineGoes, Phases DEF Onward
  <2>3. CASE engine' = [engine EXCEPT !.pc = "scan", !.batch = @ + 1]
    BY <2>1, <2>3, InvParts DEF Parts, Engine, Onward
  <2> QED BY <2>1, <2>2, <2>3
<1>5. CASE ScanEnds
  <2>1. engine.pc = "scan" /\ (Go("thrown") \/ Go("flush"))
    BY <1>5 DEF ScanEnds
  <2> QED BY <2>1, EngineGoes, Phases DEF Onward
<1>6. CASE FlushAndList
  <2>1. engine.pc = "flush" /\ (Go("thrown") \/ Go("csv") \/ Go("returned"))
    BY <1>6 DEF FlushAndList, AppendOwn
  <2> QED BY <2>1, EngineGoes, Phases DEF Onward
<1> QED BY <1>1, <1>2, <1>3, <1>4, <1>5, <1>6 DEF EngineSteps

LEMMA OnwardBounds ==
  ASSUME AInv, BatchInBounds, Onward PROVE BatchInBounds'
<1>1. engine.batch \in Nat /\ LastBatch \in Nat /\ engine.batch \in 1..(LastBatch + 1)
  BY LastBatchFacts DEF BatchInBounds
<1>2. UNCHANGED LastBatch
  BY DEF LastBatch
<1>3. CASE engine'.batch = engine.batch /\ (engine'.pc = "batch" => Batch # {})
  <2>1. ASSUME Batch # {} PROVE engine.batch <= LastBatch
    <3>1. PICK o \in Objects : BatchOf[o] = engine.batch
      BY <2>1 DEF Batch
    <3> QED BY <3>1, LastBatchFacts
  <2> QED BY <1>1, <1>2, <1>3, <2>1 DEF BatchInBounds
<1>4. CASE engine'.batch = engine.batch + 1 /\ engine.pc = "batch" /\ engine'.pc = "scan"
  <2>1. engine.batch <= LastBatch
    BY <1>4 DEF BatchInBounds
  <2> QED BY <1>1, <1>2, <1>4, <2>1 DEF BatchInBounds
<1> QED BY <1>3, <1>4 DEF Onward

LEMMA OnwardShrinks ==
  ASSUME AInv, AInv', BatchInBounds, Onward
  PROVE  EngineEffort' < EngineEffort /\ EngineEffort' <= EngineEffort
<1> DEFINE x == LastBatch + 1 - engine.batch
           y == PhaseEffort(engine.pc)
           x1 == LastBatch + 1 - engine'.batch
           y1 == PhaseEffort(engine'.pc)
<1>1. x \in Nat /\ y \in Nat /\ EngineEffort = 2 * x + y
  BY EngineEffortIs DEF EngineEffort
<1>2. EngineEffort' = 2 * x1 + y1
  BY DEF EngineEffort, LastBatch
<1>3. engine' \in Engine
  BY DEF AInv, Parts
<1>4. x1 \in Int /\ y1 \in Nat
  BY <1>3, LastBatchFacts, Phases DEF Engine
<1>5. \/ x1 = x /\ y1 < y
      \/ x1 = x - 1 /\ y = 3 /\ y1 = 4
  <2>1. engine.batch \in Int /\ LastBatch \in Int
    BY LastBatchFacts DEF BatchInBounds
  <2>2. CASE engine'.batch = engine.batch /\ y1 < y
    <3>1. x1 = x
      BY <2>2, Zenon
    <3> QED BY <2>2, <3>1
  <2>3. CASE engine'.batch = engine.batch + 1 /\ engine.pc = "batch" /\ engine'.pc = "scan"
    <3>1. y = 3 /\ y1 = 4
      BY <2>3, Phases
    <3>2. x1 = x - 1
      BY <2>1, <2>3
    <3> QED BY <3>1, <3>2
  <2> QED BY <2>2, <2>3 DEF Onward
<1> HIDE DEF x, y, x1, y1
<1> QED BY <1>1, <1>2, <1>4, <1>5

\* A step of the engine gives no download more to do; a batch takes its objects to the gate.
LEMMA EngineLeavesDownloads ==
  ASSUME AInv, AInv', EngineSteps
  PROVE  NoneHasMore /\ WriterEffort' = WriterEffort
<1>1. CASE BeginBatch
  <2> DEFINE after == [o \in Objects |-> IF o \in Batch THEN [tasks[o] EXCEPT !.step = "waiting"]
                                                        ELSE tasks[o]]
  <2>1. /\ tasks' = Entered(after, gate') /\ writer' = writer /\ engine.pc = "scan"
    BY <1>1 DEF BeginBatch
  <2>2. \A p \in Objects : tasks'[p] \in Task
    BY DEF AInv, Parts
  <2>3. ASSUME NEW p \in Objects
        PROVE  tasks'[p] = tasks[p] \/ Effort(tasks'[p]) < Effort(tasks[p])
    <3>1. tasks'[p] = after[p] \/ tasks'[p] = [after[p] EXCEPT !.step = "start"]
      BY <2>1 DEF Entered
    <3>2. CASE p \in Batch
      <4>1. after[p] = [tasks[p] EXCEPT !.step = "waiting"] /\ tasks[p] \in Task
        BY <3>2, TaskFacts
      <4>2. tasks'[p].step \in {"waiting", "start"}
        BY <3>1, <4>1 DEF Task
      <4>3. tasks[p].step = "listed"
        BY <2>1, <3>2, InvParts DEF EngineRight, Batch
      <4>4. /\ Effort(tasks[p]) = 5 * MaxAttempts + 2 /\ MaxAttempts \in Nat
            /\ tasks'[p].attempt \in 1..MaxAttempts
            /\ \/ Effort(tasks'[p]) = 5 * MaxAttempts + 1
               \/ Effort(tasks'[p]) = 5 * (MaxAttempts - tasks'[p].attempt) + 5
        BY <2>2, <4>1, <4>2, <4>3, EffortOf
      <4> QED BY <4>4
    <3>3. CASE p \notin Batch
      <4>1. after[p] = tasks[p]
        BY <3>3
      <4>2. tasks[p].step # "waiting"
        BY <2>1, TaskFacts, ActiveInBatch
      <4>3. tasks'[p] = after[p]
        BY <2>1, <4>1, <4>2 DEF Entered
      <4> QED BY <4>1, <4>3
    <3> QED BY <3>2, <3>3
  <2>4. WriterEffort' = WriterEffort
    BY <2>1 DEF WriterEffort
  <2> QED BY <2>2, <2>3, <2>4, LessOrSame
<1>2. CASE ~BeginBatch
  <2>1. UNCHANGED tasks /\ writer'.state = writer.state
    BY <1>2, InvParts
    DEF EngineSteps, ListBuckets, ScanFails, EndBatch, BatchFails, ScanEnds, FlushAndList,
        Unmoved, AppendOwn, AppendEntry, Parts
  <2>2. NoneHasMore
    BY <2>1, TaskFacts, LessOrSame
  <2> QED BY <2>1, <2>2 DEF WriterEffort
<1> QED BY <1>1, <1>2

-----------------------------------------------------------------------------
\* The archive breaks: who waits for an entry is rejected, the engine too if it does.
LEMMA BreakShrinks ==
  ASSUME AInv, AInv', BatchInBounds, Break
  PROVE  /\ NoneHasMore /\ EngineEffort' <= EngineEffort /\ WriterEffort' < WriterEffort
         /\ BatchInBounds'
<1> DEFINE pending == ToSet(writer.pending)
<1>1. /\ writer.state = "open" /\ writer' = [state |-> "broken", pending |-> <<>>]
      /\ tasks' = [o \in Objects |-> IF o \in pending THEN [tasks[o] EXCEPT !.step = "rejected"]
                                                      ELSE tasks[o]]
      /\ engine' = IF pending \cap {Manifest, MissingList} = {} THEN engine
                   ELSE [engine EXCEPT !.pc = "thrown"]
  BY DEF Break, RejectPending
<1> HIDE DEF pending
<1>2. WriterEffort' < WriterEffort
  BY <1>1 DEF WriterEffort
<1>3. ASSUME NEW p \in Objects
      PROVE  tasks'[p] = tasks[p] \/ Effort(tasks'[p]) < Effort(tasks[p])
  <2>1. CASE p \in pending
    <3>1. tasks[p].step = "append" /\ tasks[p] \in Task
      BY <2>1, TaskFacts DEF pending
    <3>2. tasks'[p] = [tasks[p] EXCEPT !.step = "rejected"]
      BY <1>1, <2>1
    <3>3. tasks'[p] \in Task /\ tasks'[p].step = "rejected" /\ tasks'[p].attempt = tasks[p].attempt
      BY <3>1, <3>2 DEF Task, Step
    <3>4. /\ Effort(tasks[p]) = 5 * (MaxAttempts - tasks[p].attempt) + 2
          /\ Effort(tasks'[p]) = 5 * (MaxAttempts - tasks[p].attempt) + 1
          /\ MaxAttempts \in Nat /\ tasks[p].attempt \in 1..MaxAttempts
      BY <3>1, <3>3, EffortOf
    <3> QED BY <3>4
  <2>2. CASE p \notin pending
    BY <1>1, <2>2
  <2> QED BY <2>1, <2>2
<1>4. NoneHasMore
  <2>1. \A p \in Objects : tasks'[p] \in Task
    BY DEF AInv, Parts
  <2> QED BY <1>3, <2>1, LessOrSame
<1>5. engine' = engine \/ Go("thrown")
  BY <1>1 DEF Go
<1>6. CASE engine' = engine
  <2>1. EngineEffort' = EngineEffort /\ EngineEffort \in Nat
    BY <1>6, EngineEffortIs DEF EngineEffort
  <2>2. BatchInBounds'
    BY <1>6 DEF BatchInBounds, LastBatch
  <2> QED BY <1>2, <1>4, <2>1, <2>2
<1>7. CASE engine' # engine
  <2>1. engine'.pc = "thrown" /\ engine'.batch = engine.batch
    BY <1>5, <1>7, EngineGoes
  <2>2. engine.pc \in {"manifest", "csv"}
    <3>1. pending \cap {Manifest, MissingList} # {}
      BY <1>1, <1>7
    <3> QED BY <3>1, InvParts DEF QueueRight, pending
  <2>3. Onward
    BY <2>1, <2>2, Phases DEF Onward
  <2> QED BY <1>2, <1>4, <2>3, OnwardBounds, OnwardShrinks
<1> QED BY <1>6, <1>7

\* An entry is written, and the download or the engine that waits for it goes on.
LEMMA EntryWrittenShrinks ==
  ASSUME AInv, AInv', BatchInBounds, EntryWritten
  PROVE  /\ NoneHasMore /\ EngineEffort' <= EngineEffort /\ WriterEffort' = WriterEffort
         /\ \/ EngineEffort' < EngineEffort
            \/ \E o \in Objects : Effort(tasks'[o]) < Effort(tasks[o])
         /\ BatchInBounds'
<1> DEFINE e == Head(writer.pending)
<1>1. /\ writer.pending # <<>> /\ writer' = [writer EXCEPT !.pending = Tail(@)]
      /\ IF e \in Objects
         THEN tasks' = [tasks EXCEPT ![e].step = "written"] /\ UNCHANGED <<engine, progress>>
         ELSE IF e = Manifest
         THEN engine' = [engine EXCEPT !.pc = "scan"] /\ UNCHANGED tasks
         ELSE engine' = [engine EXCEPT !.pc = "returned"] /\ UNCHANGED <<tasks, progress>>
  BY DEF EntryWritten
<1>2. e \in Entries /\ e \in ToSet(writer.pending)
  <2>1. writer.pending \in Seq(Entries)
    BY InvParts DEF Parts
  <2>2. \A i, j \in DOMAIN writer.pending : i # j => writer.pending[i] # writer.pending[j]
    BY InvParts DEF QueueRight
  <2> QED BY <1>1, <2>1, <2>2, SetOfTail
<1> HIDE DEF e
<1>3. writer'.state = writer.state
  BY <1>1, InvParts DEF Parts
<1>4. CASE e \in Objects
  <2> DEFINE t == [tasks[e] EXCEPT !.step = "written"]
  <2>1. tasks[e].step = "append" /\ tasks[e] \in Task
    BY <1>2, <1>4, TaskFacts
  <2>2. t \in Task /\ t.step = "written" /\ t.attempt = tasks[e].attempt
    BY <2>1 DEF Task, Step
  <2>3. tasks' = [tasks EXCEPT ![e] = t] /\ engine' = engine
    BY <1>1, <1>4, InvParts DEF Parts
  <2> HIDE DEF t
  <2>4. /\ Effort(tasks[e]) = 5 * (MaxAttempts - tasks[e].attempt) + 2
        /\ Effort(t) = 5 * (MaxAttempts - tasks[e].attempt) + 1
        /\ MaxAttempts \in Nat /\ tasks[e].attempt \in 1..MaxAttempts
    BY <2>1, <2>2, EffortOf
  <2>5. Effort(t) < Effort(tasks[e])
    BY <2>4
  <2>6. Works(e)
    BY <1>3, <1>4, <2>2, <2>3, <2>5, GoesOn
  <2>7. EngineEffort' <= EngineEffort
    BY <2>6, EngineEffortIs DEF Works
  <2>8. BatchInBounds'
    BY <2>3 DEF BatchInBounds, LastBatch
  <2> QED BY <1>4, <2>6, <2>7, <2>8 DEF Works
<1>5. CASE e \notin Objects
  <2>1. UNCHANGED tasks /\ WriterEffort' = WriterEffort
    BY <1>1, <1>3, <1>5 DEF WriterEffort
  <2>2. NoneHasMore
    BY <2>1, TaskFacts, LessOrSame
  <2>3. Onward
    <3>1. CASE e = Manifest
      <4>1. engine.pc = "manifest" /\ Go("scan")
        BY <1>1, <1>2, <1>5, <3>1, InvParts DEF QueueRight, Go
      <4> QED BY <4>1, EngineGoes, Phases DEF Onward
    <3>2. CASE e # Manifest
      <4>1. e = MissingList
        BY <1>2, <1>5, <3>2 DEF Entries
      <4>2. engine.pc = "csv" /\ Go("returned")
        BY <1>1, <1>2, <1>5, <3>2, <4>1, InvParts DEF QueueRight, Go
      <4> QED BY <4>2, EngineGoes, Phases DEF Onward
    <3> QED BY <3>1, <3>2
  <2> QED BY <2>1, <2>2, <2>3, OnwardBounds, OnwardShrinks
<1> QED BY <1>4, <1>5

-----------------------------------------------------------------------------
\* Every step leaves less to do.
LEMMA NextShrinks ==
  ASSUME AInv, AInv', BatchInBounds, Next
  PROVE  EffortsShrink /\ BatchInBounds'
<1>1. /\ EngineEffort \in Nat /\ WriterEffort \in Nat
      /\ \A p \in Objects : Effort(tasks[p]) \in Nat
  BY EngineEffortIs, TaskFacts, EffortOf DEF WriterEffort
<1>2. EngineSteps => EngineEffort' < EngineEffort /\ EngineEffort' <= EngineEffort
  BY EngineStepsGoOn, OnwardShrinks
<1>3. \A o \in Objects : Downloads(o) => Effort(tasks'[o]) < Effort(tasks[o])
  BY DownloadsWork DEF Works
<1>4. CASE EngineSteps
  <2>1. NoneHasMore /\ WriterEffort' <= WriterEffort
    BY <1>1, <1>4, EngineLeavesDownloads
  <2>2. BatchInBounds'
    BY <1>4, EngineStepsGoOn, OnwardBounds
  <2> QED BY <1>2, <1>3, <1>4, <2>1, <2>2 DEF EffortsShrink, NoneHasMore
<1>5. CASE EntryWritten
  <2>1. WriterEffort' <= WriterEffort
    BY <1>1, <1>5, EntryWrittenShrinks
  <2> QED BY <1>2, <1>3, <1>5, <2>1, EntryWrittenShrinks DEF EffortsShrink, NoneHasMore
<1>6. CASE Break
  <2>2. /\ NoneHasMore /\ EngineEffort' <= EngineEffort /\ WriterEffort' < WriterEffort
        /\ BatchInBounds'
    BY <1>6, BreakShrinks
  <2>3. WriterEffort' <= WriterEffort
    BY <1>1, <2>2 DEF WriterEffort
  <2> QED BY <1>2, <1>3, <2>2, <2>3 DEF EffortsShrink, NoneHasMore
<1>7. CASE Finalize \/ PostsSettle \/ PostFails
  <2>1. UNCHANGED <<engine, tasks>>
    BY <1>7 DEF Finalize, PostsSettle, PostFails
  <2>2. EngineEffort' <= EngineEffort /\ BatchInBounds'
    BY <1>1, <2>1 DEF EngineEffort, BatchInBounds, LastBatch
  <2>3. NoneHasMore
    BY <2>1, TaskFacts, LessOrSame
  <2>4. CASE Finalize
    <3>1. writer.state = "open" /\ writer'.state = "complete"
      BY <2>4, InvParts DEF Finalize, Parts
    <3>2. WriterEffort' < WriterEffort /\ WriterEffort' <= WriterEffort
      BY <3>1 DEF WriterEffort
    <3> QED BY <1>2, <1>3, <2>2, <2>3, <3>2 DEF EffortsShrink, NoneHasMore
  <2>5. CASE PostsSettle \/ PostFails
    <3>1. /\ progress \in [posting: BOOLEAN, broken: BOOLEAN] /\ writer' = writer
          /\ \/ progress.posting /\ progress' = [progress EXCEPT !.posting = FALSE]
             \/ ~progress.broken /\ progress' = [progress EXCEPT !.broken = TRUE]
      BY <2>5, InvParts DEF PostsSettle, PostFails, Parts
    <3>2. PostEffort' < PostEffort
      BY <3>1 DEF PostEffort
    <3>3. WriterEffort' <= WriterEffort
      BY <1>1, <3>1 DEF WriterEffort
    <3> QED BY <1>2, <1>3, <2>2, <2>3, <3>2, <3>3 DEF EffortsShrink, NoneHasMore
  <2> QED BY <1>7, <2>4, <2>5
<1>8. CASE \E o \in Objects : Downloads(o)
  <2>1. PICK o \in Objects : Works(o)
    BY <1>8, DownloadsWork
  <2>2. WriterEffort' <= WriterEffort /\ EngineEffort' <= EngineEffort
    BY <1>1, <2>1 DEF Works
  <2>3. BatchInBounds'
    <3>1. PICK q \in Objects : Downloads(q)
      BY <1>8
    <3>2. engine'.pc = engine.pc /\ engine'.batch = engine.batch
      <4>1. engine' = engine \/ engine' = [engine EXCEPT !.failed = TRUE]
        BY <3>1 DEF Downloads, StartAttempt, FindsAborted, GetFails, GetRefused, GetStream,
                    GetBuffer, SpoolFails, SpoolSucceeds, CountWritten, ThrowRejected,
                    Throws, Ends, Again, AppendOrThrow, Unchanged
      <4> QED BY <4>1, InvParts DEF Parts, Engine
    <3> QED BY <3>2 DEF BatchInBounds, LastBatch
  <2> QED BY <1>2, <1>3, <2>1, <2>2, <2>3 DEF EffortsShrink, Works, NoneHasMore
<1>9. CASE Abort /\ ~Break
  <2>1. ~signal /\ signal' /\ UNCHANGED <<engine, tasks, writer>>
    BY <1>9 DEF Abort
  <2>2. EngineEffort' <= EngineEffort /\ BatchInBounds'
    BY <1>1, <2>1 DEF EngineEffort, BatchInBounds, LastBatch
  <2>3. NoneHasMore
    BY <2>1, TaskFacts, LessOrSame
  <2>4. WriterEffort' <= WriterEffort /\ SignalEffort' < SignalEffort
    BY <1>1, <2>1 DEF WriterEffort, SignalEffort
  <2> QED BY <1>2, <1>3, <2>2, <2>3, <2>4 DEF EffortsShrink, NoneHasMore
<1> QED BY <1>4, <1>5, <1>6, <1>7, <1>8, <1>9 DEF Next, WriterSteps, WriterFails

\* Nothing of an export is repeated without bound (storage-export.ts:520-749): an object
\* takes at most 5 * MaxAttempts + 2 steps, attempts that fail, an archive that breaks and
\* the abort signal included; the engine goes through the batches once; the
\* archive breaks or is completed once, and the signal is given once.  Every step uses up some of that and none gives
\* any back, so an export that does not end is one that takes no more steps.
THEOREM ExportSpendsItsEffort == Spec => []EffortsTyped /\ [][EffortsShrink]_vars
<1>1. Init => BatchInBounds
  BY LastBatchFacts DEF Init, BatchInBounds
<1>2. AInv /\ AInv' /\ BatchInBounds /\ [Next]_vars => BatchInBounds' /\ [EffortsShrink]_vars
  <2>1. ASSUME BatchInBounds, UNCHANGED vars PROVE BatchInBounds'
    BY <2>1 DEF BatchInBounds, LastBatch, vars
  <2> QED BY <2>1, NextShrinks
<1>3. AInv /\ BatchInBounds => EffortsTyped
  <2> SUFFICES ASSUME AInv, BatchInBounds PROVE EffortsTyped
    OBVIOUS
  <2>1. PostEffort \in Nat /\ WriterEffort \in Nat /\ SignalEffort \in Nat
    BY DEF PostEffort, WriterEffort, SignalEffort
  <2>2. \A o \in Objects : Effort(tasks[o]) \in 0..FullEffort
    BY TaskFacts, EffortOf
  <2> QED BY <2>1, <2>2, EngineEffortIs DEF EffortsTyped
<1> QED BY <1>1, <1>2, <1>3, ExportInvariant, PTL DEF Spec
===============================================================================
