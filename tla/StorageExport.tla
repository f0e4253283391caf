----------------------------- MODULE StorageExport -----------------------------
(***************************************************************************)
(* The storage export engine (runStorageExportEngine) and the ZIP archive  *)
(* it writes to (ZipArtifactWriter).  The engine lists the source buckets, *)
(* and downloads the objects of every batch, all at once, behind a gate    *)
(* that bounds how many run and how many bytes they are expected to hold.  *)
(* An object is spooled to a temporary file and then appended to the       *)
(* archive, which is written one entry after the other to an output that   *)
(* may break or be aborted at any moment.                                  *)
(***************************************************************************)
EXTENDS Naturals, Sequences, FiniteSets, SequencesExt, FiniteSetsExt

CONSTANTS
  BatchOf,      \* the batch of every object, objects numbered in listing order
  SizeOf,       \* the estimated size of every object
  Concurrency,  \* boundedConcurrency
  MaxBytes,     \* maxInflightBytes
  MaxAttempts,  \* MAX_STORAGE_REQUEST_ATTEMPTS
  Manifest,     \* the entry storage/buckets.json
  MissingList   \* the entry storage/missing-objects.csv

Objects == DOMAIN BatchOf
Batches == {BatchOf[o] : o \in Objects}
Entries == Objects \cup {Manifest, MissingList}

ASSUME ExportConstants ==
  /\ BatchOf \in Seq(Nat \ {0}) /\ SizeOf \in Seq(Nat)
  /\ Len(SizeOf) = Len(BatchOf)
  /\ \A o, p \in Objects : o <= p => BatchOf[o] <= BatchOf[p]
  /\ {Concurrency, MaxBytes, MaxAttempts} \subseteq Nat \ {0}
  /\ Manifest \notin Objects /\ MissingList \notin Objects /\ Manifest # MissingList

VARIABLES
  engine,    \* where the engine is
  gate,      \* the weighted gate
  tasks,     \* the download of every object
  progress,  \* the chain of progress posts
  writer,    \* the archive writer
  zip,       \* how often every entry was written to the archive
  signal     \* whether the abort signal was given

vars == <<engine, gate, tasks, progress, writer, zip, signal>>

Engine == [pc: {"list", "manifest", "scan", "batch", "flush", "csv", "returned", "thrown"},
           batch: Nat, failed: BOOLEAN]

Gate == [active: Nat, bytes: Nat, waiters: Seq(Objects)]

\* Where a download is: waiting at the gate, about to make an attempt, in the
\* GET, being spooled, in the archive's queue, rejected or written there.
Step == {"listed", "waiting", "start", "get", "spool", "append", "rejected", "written", "done"}
Inside == {"start", "get", "spool", "append", "rejected", "written"}

Class == {"copied", "missing"}

Task == [step: Step, attempt: 1..MaxAttempts, class: Class \cup {"pending"}]

ExportTypeOK ==
  /\ engine \in Engine
  /\ gate \in Gate
  /\ tasks \in [Objects -> Task]
  /\ progress \in [posting: BOOLEAN, broken: BOOLEAN]
  /\ writer \in [state: {"open", "broken", "complete"}, pending: Seq(Entries)]
  /\ zip \in [Entries -> Nat]
  /\ signal \in BOOLEAN
  /\ gate.active = Cardinality({o \in Objects : tasks[o].step \in Inside})
  /\ gate.waiters # <<>> => gate.active > 0

Init ==
  /\ engine = [pc |-> "list", batch |-> 1, failed |-> FALSE]
  /\ gate = [active |-> 0, bytes |-> 0, waiters |-> <<>>]
  /\ tasks = [o \in Objects |-> [step |-> "listed", attempt |-> 1, class |-> "pending"]]
  /\ progress = [posting |-> FALSE, broken |-> FALSE]
  /\ writer = [state |-> "open", pending |-> <<>>]
  /\ zip = [e \in Entries |-> 0]
  /\ signal = FALSE

-----------------------------------------------------------------------------
(* The weighted gate *)

\* accountedWeight: an object larger than all that is allowed counts as just that.
Weight(o) ==
  LET atLeastOne == IF SizeOf[o] = 0 THEN 1 ELSE SizeOf[o]
  IN  IF atLeastOne > MaxBytes THEN MaxBytes ELSE atLeastOne

\* Slip: what the object itself will hold is not counted.
CanAcquire_BeforeAdding(g, o) ==
  /\ g.active < Concurrency
  /\ g.active = 0 \/ g.bytes <= MaxBytes

CanAcquire(g, o) ==
  /\ g.active < Concurrency
  /\ g.active = 0 \/ g.bytes + Weight(o) <= MaxBytes

Reserve(g, o) == [g EXCEPT !.active = @ + 1, !.bytes = @ + Weight(o)]

Wait(g, o) == [g EXCEPT !.waiters = Append(@, o)]

\* acquire does not look whether others wait already.
Acquire(g, o) == IF CanAcquire(g, o) THEN Reserve(g, o) ELSE Wait(g, o)

\* All of a batch come to the gate, in their order.
AcquireAll(g, batch) ==
  LET acquire(h, o) == IF o \in batch THEN Acquire(h, o) ELSE h
  IN  FoldLeftDomain(acquire, g, BatchOf)

\* Slip: a release lets one waiter in at most.
Drain_One(g) ==
  IF g.waiters # <<>> /\ CanAcquire(g, Head(g.waiters))
  THEN Reserve([g EXCEPT !.waiters = Tail(@)], Head(g.waiters))
  ELSE g

\* drain: the waiters enter in their order until the first that does not fit.
Drain(g) ==
  LET enter(h, o) == IF h.waiters = <<>> /\ CanAcquire(h, o) THEN Reserve(h, o) ELSE Wait(h, o)
  IN  FoldLeft(enter, [g EXCEPT !.waiters = <<>>], g.waiters)

Release(g, o) == Drain([g EXCEPT !.active = @ - 1, !.bytes = @ - Weight(o)])

\* The tasks after the gate has changed to g: who no longer waits has entered.
Entered(after, g) ==
  [o \in Objects |->
     IF after[o].step = "waiting" /\ o \notin ToSet(g.waiters)
     THEN [after[o] EXCEPT !.step = "start"] ELSE after[o]]

-----------------------------------------------------------------------------
(* Progress posts: throttled by time; after one has failed, every call throws. *)

Emit(forced) ==
  \/ progress' = [progress EXCEPT !.posting = TRUE]
  \/ ~forced /\ UNCHANGED progress

PostsSettle ==
  /\ progress.posting
  /\ progress' = [progress EXCEPT !.posting = FALSE]
  /\ UNCHANGED <<engine, gate, tasks, writer, zip, signal>>

PostFails ==
  /\ progress.posting /\ ~progress.broken
  /\ progress' = [progress EXCEPT !.broken = TRUE]
  /\ UNCHANGED <<engine, gate, tasks, writer, zip, signal>>

-----------------------------------------------------------------------------
(* The archive writer *)

\* appendEntry, of a healthy writer.
AppendEntry(e) == writer' = [writer EXCEPT !.pending = Append(@, e)]

\* Slip: what waits for its entry is not told that there will be none.
RejectPending_Forgotten == UNCHANGED <<tasks, engine>>

\* rejectPendingEntries: all who wait for their entry fail; the engine itself
\* waits for the two entries of its own.
RejectPending ==
  LET pending == ToSet(writer.pending)
  IN  /\ tasks' = [o \in Objects |->
                     IF o \in pending THEN [tasks[o] EXCEPT !.step = "rejected"] ELSE tasks[o]]
      /\ engine' = IF pending \cap {Manifest, MissingList} = {} THEN engine
                   ELSE [engine EXCEPT !.pc = "thrown"]

Break ==
  /\ writer.state = "open"
  /\ writer' = [state |-> "broken", pending |-> <<>>]
  /\ RejectPending

\* The output or the stream of an entry breaks (fail).
WriterFails ==
  /\ Break
  /\ UNCHANGED <<gate, progress, zip, signal>>

\* The flow gives the archive up (abort): a live stream whenever its client is
\* gone or stalls, with the signal; a file once the engine has thrown, without.
\* Of an archive that broke before, or is complete, the signal only is new.
Abort ==
  /\ \/ Break /\ signal' \in {TRUE} \cup (IF engine.pc = "thrown" THEN {signal} ELSE {})
     \/ /\ writer.state # "open" /\ ~signal /\ signal' = TRUE
        /\ UNCHANGED <<writer, tasks, engine>>
  /\ UNCHANGED <<gate, progress, zip>>

\* The archive has written an entry, and who waits for it goes on.
EntryWritten ==
  /\ writer.pending # <<>>
  /\ LET e == Head(writer.pending)
     IN  /\ writer' = [writer EXCEPT !.pending = Tail(@)]
         /\ zip' = [zip EXCEPT ![e] = @ + 1]
         /\ IF e \in Objects
            THEN tasks' = [tasks EXCEPT ![e].step = "written"] /\ UNCHANGED <<engine, progress>>
            ELSE IF e = Manifest
            THEN engine' = [engine EXCEPT !.pc = "scan"] /\ Emit(Objects # {}) /\ UNCHANGED tasks
            ELSE engine' = [engine EXCEPT !.pc = "returned"] /\ UNCHANGED <<tasks, progress>>
  /\ UNCHANGED <<gate, signal>>

\* finalize: the archive is complete, unless it broke on the way.
Finalize ==
  /\ engine.pc = "returned" /\ writer.state = "open"
  /\ writer' = [writer EXCEPT !.state = "complete"]
  /\ UNCHANGED <<engine, gate, tasks, progress, zip, signal>>

-----------------------------------------------------------------------------
(* One download *)

Advance(o, step) == tasks' = [tasks EXCEPT ![o].step = step]

At(o, step) == tasks[o].step = step

\* The task is over and leaves the gate.
Leave(o, class) ==
  LET freed == Release(gate, o)
      after == [tasks EXCEPT ![o] = [step |-> "done", attempt |-> 1, class |-> class]]
  IN  gate' = freed /\ tasks' = Entered(after, freed)

\* The task throws, which rejects its batch.
Throws(o) ==
  /\ Leave(o, "pending")
  /\ engine' = [engine EXCEPT !.failed = TRUE]
  /\ UNCHANGED <<progress, writer, zip, signal>>

\* The object is counted, which a progress post that failed does not undo.
Ends(o, class) ==
  /\ Leave(o, class)
  /\ IF progress.broken THEN engine' = [engine EXCEPT !.failed = TRUE] /\ UNCHANGED progress
                        ELSE UNCHANGED engine /\ Emit(FALSE)
  /\ UNCHANGED <<writer, zip, signal>>

Unchanged == UNCHANGED <<engine, gate, progress, zip, signal>>

\* Slip: an attempt after the last one.
Again_OneMore(o) ==
  IF tasks[o].attempt <= MaxAttempts
  THEN /\ tasks' = [tasks EXCEPT ![o].step = "start", ![o].attempt = @ + 1]
       /\ Unchanged /\ UNCHANGED writer
  ELSE Ends(o, "missing")

\* An attempt failed in a way that may pass: the next one, or the end.
Again(o) ==
  IF tasks[o].attempt < MaxAttempts
  THEN /\ tasks' = [tasks EXCEPT ![o].step = "start", ![o].attempt = @ + 1]
       /\ Unchanged /\ UNCHANGED writer
  ELSE Ends(o, "missing")

StartAttempt(o) ==
  /\ At(o, "start") /\ ~signal
  /\ Advance(o, "get")
  /\ Unchanged /\ UNCHANGED writer

\* An aborted fetch throws, and so does the start of an attempt or of writeFile.
FindsAborted(o) ==
  /\ At(o, "start") \/ At(o, "get")
  /\ signal
  /\ Throws(o)

GetFails(o) ==
  /\ At(o, "get") /\ ~signal
  /\ Again(o)

\* The object is not found, or is refused for good, and is listed as missing.
GetRefused(o) ==
  /\ At(o, "get")
  /\ Ends(o, "missing")

\* The object joins the queue of the archive, unless the archive is broken;
\* no retry follows such an error.
AppendOrThrow(o) ==
  IF writer.state = "open"
  THEN Advance(o, "append") /\ AppendEntry(o) /\ Unchanged
  ELSE Throws(o)

\* A body that is a stream is spooled first.
GetStream(o) ==
  /\ At(o, "get") /\ ~signal
  /\ Advance(o, "spool")
  /\ Unchanged /\ UNCHANGED writer

GetBuffer(o) ==
  /\ At(o, "get") /\ ~signal
  /\ AppendOrThrow(o)

\* The stream breaks, which may pass, or the disk is full, which will not; an
\* abort counts as the former.  Without a directory to spool into, it throws.
SpoolFails(o) ==
  /\ At(o, "spool")
  /\ Again(o) \/ Ends(o, "missing") \/ Throws(o)

SpoolSucceeds(o) ==
  /\ At(o, "spool")
  /\ AppendOrThrow(o)

\* Slip: a temporary file that cannot be removed fails the attempt.
CountWritten_CleanupFails(o) ==
  /\ At(o, "written")
  /\ Ends(o, "copied") \/ Again(o)

\* The temporary file is gone, or left behind, and the task ends as its entry did.
CountWritten(o) ==
  /\ At(o, "written")
  /\ Ends(o, "copied")

ThrowRejected(o) ==
  /\ At(o, "rejected")
  /\ Throws(o)

-----------------------------------------------------------------------------
(* The engine *)

Go(pc) == engine' = [engine EXCEPT !.pc = pc]

Unmoved == UNCHANGED <<gate, tasks, zip, signal>>

\* The engine appends an entry of its own and waits for it, or throws.
AppendOwn(e, pc) ==
  IF signal \/ writer.state # "open"
  THEN Go("thrown") /\ UNCHANGED writer
  ELSE Go(pc) /\ AppendEntry(e)

\* The buckets are listed and written to the archive; a stage post, the
\* listing or the entry may fail.
ListBuckets ==
  /\ engine.pc = "list"
  /\ \/ AppendOwn(Manifest, "manifest")
     \/ Go("thrown") /\ UNCHANGED writer
  /\ Unmoved /\ UNCHANGED progress

Batch == {o \in Objects : BatchOf[o] = engine.batch}

\* A batch begins: all its objects come to the gate, in their order.
BeginBatch ==
  /\ engine.pc = "scan" /\ Batch # {} /\ ~progress.broken
  /\ Go("batch")
  /\ Emit(FALSE)
  /\ LET g == AcquireAll(gate, Batch)
     IN  /\ gate' = g
         /\ tasks' = Entered([o \in Objects |->
                                IF o \in Batch THEN [tasks[o] EXCEPT !.step = "waiting"]
                                               ELSE tasks[o]], g)
  /\ UNCHANGED <<writer, zip, signal>>

\* A page cannot be read, a stage or progress post failed, or the signal is
\* found at the beginning of a bucket.
ScanFails ==
  /\ engine.pc = "scan"
  /\ Go("thrown")
  /\ Unmoved /\ UNCHANGED <<progress, writer>>

Over(o) == tasks[o].step = "done"

BatchOver == \A o \in Batch : Over(o)

EndBatch ==
  /\ engine.pc = "batch" /\ ~engine.failed /\ BatchOver
  /\ IF progress.broken
     THEN Go("thrown") /\ UNCHANGED progress
     ELSE engine' = [engine EXCEPT !.pc = "scan", !.batch = @ + 1] /\ Emit(TRUE)
  /\ Unmoved /\ UNCHANGED writer

\* The first download to throw ends the batch; the others go on by themselves.
BatchFails ==
  /\ engine.pc = "batch" /\ engine.failed
  /\ Go("thrown")
  /\ Unmoved /\ UNCHANGED <<progress, writer>>

ScanEnds ==
  /\ engine.pc = "scan" /\ \A o \in Objects : BatchOf[o] < engine.batch
  /\ IF progress.broken THEN Go("thrown") /\ UNCHANGED progress ELSE Go("flush") /\ Emit(TRUE)
  /\ Unmoved /\ UNCHANGED writer

SomeMissing == \E o \in Objects : tasks[o].class = "missing"

\* Slip: the list is not written.
FlushAndList_NoList ==
  /\ engine.pc = "flush" /\ ~progress.posting
  /\ IF progress.broken THEN Go("thrown") ELSE Go("returned")
  /\ Unmoved /\ UNCHANGED <<progress, writer>>

\* flushProgress, and the list of what is missing.
FlushAndList ==
  /\ engine.pc = "flush" /\ ~progress.posting
  /\ IF progress.broken THEN Go("thrown") /\ UNCHANGED writer
     ELSE IF SomeMissing THEN AppendOwn(MissingList, "csv")
     ELSE Go("returned") /\ UNCHANGED writer
  /\ Unmoved /\ UNCHANGED progress

Downloads(o) ==
  \/ StartAttempt(o) \/ FindsAborted(o)
  \/ GetFails(o) \/ GetRefused(o) \/ GetStream(o) \/ GetBuffer(o)
  \/ SpoolFails(o) \/ SpoolSucceeds(o)
  \/ CountWritten(o) \/ ThrowRejected(o)

EngineSteps ==
  \/ ListBuckets \/ BeginBatch \/ ScanFails \/ EndBatch \/ BatchFails
  \/ ScanEnds \/ FlushAndList

WriterSteps == EntryWritten \/ WriterFails \/ Abort

Next ==
  \/ EngineSteps \/ WriterSteps \/ Finalize
  \/ PostsSettle \/ PostFails
  \/ \E o \in Objects : Downloads(o)

Spec == Init /\ [][Next]_vars

\* Requests and posts end.  The archive is written or given up: a live stream
\* whose client stops reading is aborted as stalled.
Fairness ==
  /\ \A o \in Objects : WF_vars(Downloads(o))
  /\ WF_vars(PostsSettle)
  /\ WF_vars(EngineSteps)
  /\ WF_vars(writer.pending # <<>> /\ WriterSteps)

FairSpec == Spec /\ Fairness

-----------------------------------------------------------------------------
(* Properties *)

InFlight == {o \in Objects : tasks[o].step \in Inside}

\* What the running downloads are expected to hold stays within the bound; an
\* object beyond the bound runs alone.
BytesAreBounded ==
  LET size(o) == SizeOf[o]
  IN  MapThenSumSet(size, InFlight) <= MaxBytes \/ Cardinality(InFlight) = 1

FirstWaiterDoesNotFit == gate.waiters # <<>> => ~CanAcquire(gate, Head(gate.waiters))

\* However downloads of all sizes come and go, the gate bounds their bytes and
\* loses no wake-up: who is first in its queue does not fit
\* (storage-export.ts:314-372).
GateIsSound == BytesAreBounded /\ FirstWaiterDoesNotFit

\* An object counted as copied has one entry, and one listed as missing has none.
ArchiveMatchesReport ==
  \A o \in Objects :
    /\ zip[o] <= 1
    /\ tasks[o].class = "copied" => zip[o] = 1
    /\ tasks[o].class = "missing" => zip[o] = 0

\* A complete archive holds the buckets, every object that the list of missing
\* ones does not, and that list exactly when it is needed.
CompleteArchiveIsWhole ==
  writer.state = "complete" =>
    /\ zip[Manifest] = 1
    /\ zip[MissingList] = IF SomeMissing THEN 1 ELSE 0
    /\ \A o \in Objects : zip[o] = 1 \/ tasks[o].class = "missing"
    /\ writer.pending = <<>>

\* Whatever was retried, aborted or broken on the way, the archive agrees with
\* the report, and a complete one is whole: nobody waits for an entry that will
\* not come (storage-export.ts:489-531, 727-748; archive-writer.ts:104-178).
ArchiveIsHonest == ArchiveMatchesReport /\ CompleteArchiveIsWhole

Ledger ==
  INSTANCE TransferLedger WITH
    Items <- Objects, Classes <- Class, Pending <- "pending",
    class <- [o \in Objects |-> tasks[o].class],
    verdict <- CASE engine.pc = "returned" -> "complete"
                 [] engine.pc = "thrown" -> "error"
                 [] OTHER -> "open"

\* The engine implements the ledger: an object is counted once, the engine
\* returns only when all are counted, and it returns or throws.
ImplementsLedger == Ledger!FairSpec
===============================================================================
