------------------------------ MODULE StorageCopy ------------------------------
(***************************************************************************)
(* The storage copy engine (runStorageCopyEngine): it lists the objects of *)
(* one source bucket after the other, queues a transfer for each behind a  *)
(* concurrency gate, and settles the queue at the end of every bucket.     *)
(* Every transfer downloads its object and uploads it to the target, with  *)
(* retries of both requests; an answer of the target may be lost.          *)
(*                                                                         *)
(* An action is what runs between two awaits.  A slot freed at the gate is *)
(* taken by the transfer it wakes one microtask later, so the woken ones   *)
(* are kept apart from those that hold a slot.                             *)
(***************************************************************************)
EXTENDS Naturals, Sequences, FiniteSets

CONSTANTS
  NumBuckets,      \* source buckets
  BucketOf,        \* the bucket of every object, objects numbered in listing order
  Concurrency,     \* slots of the gate
  BacklogPerSlot,  \* TRANSFER_BACKLOG_PER_SLOT
  MaxAttempts,     \* MAX_STORAGE_REQUEST_ATTEMPTS
  MaxSystemic      \* MAX_SYSTEMIC_OBJECT_FAILURES

Objects == DOMAIN BucketOf
Buckets == 1..NumBuckets

ASSUME CopyConstants ==
  /\ NumBuckets \in Nat
  /\ BucketOf \in Seq(Buckets)
  /\ \A o, p \in Objects : o <= p => BucketOf[o] <= BucketOf[p]
  /\ {Concurrency, BacklogPerSlot, MaxAttempts, MaxSystemic} \subseteq Nat \ {0}

VARIABLES
  engine,    \* where the engine is, and what it is about to throw
  gate,      \* the concurrency gate
  tasks,     \* the transfer of every object
  window,    \* the window of systemic failures
  progress,  \* the chain of progress posts
  gone,      \* the objects found deleted at the source
  target,    \* the target project's storage: what it had before, what the copy stored
  skip       \* skipExistingTargetObjects

vars == <<engine, gate, tasks, window, progress, gone, target, skip>>

\* Errors: of a listing or stage, of a progress post, or too many systemic failures.
Error == {"none", "listing", "progress", "systemic"}

Engine == [pc: {"list", "bucket", "scan", "settle", "flush", "returned", "thrown"},
           bucket: 1..(NumBuckets + 1), next: Nat, raised: Error, transferError: Error]

Gate == [active: Nat, waiters: Seq(Objects), woken: SUBSET Objects]

\* Where a transfer is: not queued yet, waiting at the gate, woken there, or in
\* copyOneObject: resolving the download, in a GET, reading its body, uploading.
Step == {"listed", "waiting", "woken", "resolve", "get", "read", "send", "done"}
Running == {"resolve", "get", "read", "send"}

\* Why the object is downloaded: at first, because reading the body failed, or
\* because a stream has to be sent again.
Reason == {"first", "reread", "rebuild"}

Class == {"copied", "missing", "existing", "oversized", "failed"}

\* What repeated permission failures are recognised by.
Signature == {"get", "send"}
NoSignature == "none"

\* gets counts the failed tries of the GET under way, tries those to read the
\* body or, after that, to upload it.
Transfer ==
  [step: Step, reason: Reason, gets: Nat, tries: Nat, streamed: BOOLEAN,
   body: {"none", "buffer", "stream", "spent"}, class: Class \cup {"pending"},
   signature: Signature \cup {NoSignature}]

Window == [open: BOOLEAN, signature: Signature \cup {NoSignature}, count: Nat]

CopyTypeOK ==
  /\ engine \in Engine
  /\ gate \in Gate
  /\ tasks \in [Objects -> Transfer]
  /\ \A o \in Objects : {tasks[o].gets, tasks[o].tries} \subseteq 0..(MaxAttempts - 1)
  /\ window \in Window
  /\ progress \in [posting: BOOLEAN, broken: BOOLEAN]
  /\ gone \subseteq Objects
  /\ target \in [Objects -> {"absent", "theirs", "ours", "overwritten"}]
  /\ skip \in BOOLEAN

NewTransfer ==
  [step |-> "listed", reason |-> "first", gets |-> 0, tries |-> 0, streamed |-> FALSE,
   body |-> "none", class |-> "pending", signature |-> NoSignature]

\* What the target had before matters only if it is to be skipped.
Init ==
  /\ engine = [pc |-> "list", bucket |-> 1, next |-> 1, raised |-> "none",
               transferError |-> "none"]
  /\ gate = [active |-> 0, waiters |-> <<>>, woken |-> {}]
  /\ tasks = [o \in Objects |-> NewTransfer]
  /\ window = [open |-> TRUE, signature |-> NoSignature, count |-> 0]
  /\ progress = [posting |-> FALSE, broken |-> FALSE]
  /\ gone = {}
  /\ skip \in BOOLEAN
  /\ target \in [Objects -> IF skip THEN {"absent", "theirs"} ELSE {"absent"}]

-----------------------------------------------------------------------------
(* The concurrency gate *)

\* acquire, up to the promise of a waiter.
Acquire(o) ==
  IF gate.active >= Concurrency
  THEN /\ gate' = [gate EXCEPT !.waiters = Append(@, o)]
       /\ tasks' = [tasks EXCEPT ![o].step = "waiting"]
  ELSE /\ gate' = [gate EXCEPT !.active = @ + 1]
       /\ tasks' = [tasks EXCEPT ![o].step = "resolve"]

\* Slip: a freed slot wakes nobody.
Release_WakesNobody(after) ==
  /\ gate' = [gate EXCEPT !.active = @ - 1]
  /\ tasks' = after

\* release, at the end of a task that leaves the transfers as "after".
Release(after) ==
  IF gate.waiters = <<>>
  THEN /\ gate' = [gate EXCEPT !.active = @ - 1]
       /\ tasks' = after
  ELSE LET o == Head(gate.waiters)
       IN  /\ gate' = [active |-> gate.active - 1, waiters |-> Tail(gate.waiters),
                       woken |-> gate.woken \cup {o}]
           /\ tasks' = [after EXCEPT ![o].step = "woken"]

\* A woken transfer takes a slot without looking whether there still is one.
WokenEnters(o) ==
  /\ o \in gate.woken
  /\ gate' = [gate EXCEPT !.active = @ + 1, !.woken = @ \ {o}]
  /\ tasks' = [tasks EXCEPT ![o].step = "resolve"]
  /\ UNCHANGED <<engine, window, progress, gone, target, skip>>

-----------------------------------------------------------------------------
(* Progress posts.  emitProgress is throttled by time, so a post may or may *)
(* not be made; once one has failed, every call throws.                     *)

Emit(forced) ==
  \/ progress' = [progress EXCEPT !.posting = TRUE]
  \/ ~forced /\ UNCHANGED progress

\* All posts of the chain are over, or one of them fails.
PostsSettle ==
  /\ progress.posting
  /\ progress' = [progress EXCEPT !.posting = FALSE]
  /\ UNCHANGED <<engine, gate, tasks, window, gone, target, skip>>

PostFails ==
  /\ progress.posting /\ ~progress.broken
  /\ progress' = [progress EXCEPT !.broken = TRUE]
  /\ UNCHANGED <<engine, gate, tasks, window, gone, target, skip>>

-----------------------------------------------------------------------------
(* The end of a task *)

\* Slip: a skipped object leaves the window open.
Narrow_OnlyCopies(class, signature) ==
  IF class = "copied" \/ (class = "failed" /\ signature = NoSignature)
  THEN [window EXCEPT !.open = FALSE]
  ELSE IF class = "failed" THEN [window EXCEPT !.signature = signature, !.count = @ + 1] ELSE window

\* The window stays open as long as all that has happened is the same
\* permission failure again and again.
Narrow(class, signature) ==
  IF ~window.open THEN window
  ELSE IF class = "failed" /\ signature # NoSignature /\ window.signature \in {NoSignature, signature}
  THEN [window EXCEPT !.signature = signature, !.count = @ + 1]
  ELSE [window EXCEPT !.open = FALSE]

\* The first error of a transfer is kept.
Raise(error) ==
  engine' = [engine EXCEPT !.transferError = IF @ = "none" THEN error ELSE @]

\* Of a task that is over only its result remains.
Done(class, signature) ==
  [NewTransfer EXCEPT !.step = "done", !.class = class, !.signature = signature]

\* The object gets its class; too many systemic failures, or a progress post
\* that failed, are thrown to the engine.
TaskEnds(o, class, signature) ==
  LET narrowed == Narrow(class, signature)
  IN  /\ window' = narrowed
      /\ Release([tasks EXCEPT ![o] = Done(class, signature)])
      /\ IF class = "failed" /\ narrowed.open /\ narrowed.count >= MaxSystemic
         THEN Raise("systemic") /\ UNCHANGED progress
         ELSE IF progress.broken
         THEN Raise("progress") /\ UNCHANGED progress
         ELSE Emit(FALSE) /\ UNCHANGED engine

-----------------------------------------------------------------------------
(* One object: copyOneObject *)

Advance(o, now) == tasks' = [tasks EXCEPT ![o] = now]

InCopy(o, step) == tasks[o].step = step

Unchanged == UNCHANGED <<engine, gate, window, progress>>

\* Slip: a retry sends the stream of the attempt before.
UploadAgain_SameBody(t) == [t EXCEPT !.tries = @ + 1]

\* The next attempt of an upload: a stream can only be sent once, and is
\* downloaded afresh for every retry, with all tries of a GET before it.
UploadAgain(t) ==
  IF t.streamed
  THEN [t EXCEPT !.tries = @ + 1, !.gets = 0, !.step = "resolve", !.reason = "rebuild",
                 !.body = "none"]
  ELSE [t EXCEPT !.tries = @ + 1]

\* Slip: one try too many.
TriesLeft_OneMore(failed) == failed < MaxAttempts

TriesLeft(failed) == failed < MaxAttempts - 1

\* A stream that was sent, in whole or in part, is of no more use.
Spent(t) == IF t.body = "stream" THEN [t EXCEPT !.body = "spent"] ELSE t

\* An attempt of the upload went wrong: the next one, or the end.
UploadFails(o, signature) ==
  IF TriesLeft(tasks[o].tries)
  THEN Advance(o, UploadAgain(Spent(tasks[o]))) /\ Unchanged
  ELSE TaskEnds(o, "failed", signature)

\* The download of the object cannot be had.  While a body is being rebuilt
\* that only costs an attempt of the upload.
DownloadFails(o, signature) ==
  IF tasks[o].reason = "rebuild"
  THEN UploadFails(o, NoSignature)
  ELSE TaskEnds(o, "failed", signature)

\* resolveDownload of the source: a request, or the news that the object is
\* missing, which after the first download is a failure.
ResolvesRequest(o) ==
  /\ InCopy(o, "resolve") /\ o \notin gone
  /\ Advance(o, [tasks[o] EXCEPT !.step = "get"])
  /\ Unchanged /\ UNCHANGED <<gone, target, skip>>

ResolvesMissing(o) ==
  /\ InCopy(o, "resolve")
  /\ gone' = gone \cup {o}
  /\ IF tasks[o].reason = "first" THEN TaskEnds(o, "missing", NoSignature)
                                  ELSE DownloadFails(o, NoSignature)
  /\ UNCHANGED <<target, skip>>

ResolveThrows(o) ==
  /\ InCopy(o, "resolve")
  /\ DownloadFails(o, NoSignature)
  /\ UNCHANGED <<gone, target, skip>>

\* A GET is answered with a retryable status, breaks or stalls, and is repeated.
GetAgain(o) ==
  /\ InCopy(o, "get")
  /\ TriesLeft(tasks[o].gets)
  /\ Advance(o, [tasks[o] EXCEPT !.gets = @ + 1])
  /\ Unchanged /\ UNCHANGED <<gone, target, skip>>

\* The first answer decides whether the body is buffered or streamed: objects
\* that are large or of unknown size are streamed.
Downloaded(t, streamed) ==
  CASE t.reason = "first" /\ streamed ->
         [t EXCEPT !.gets = 0, !.streamed = TRUE, !.body = "stream", !.step = "send"]
    [] t.reason = "rebuild" -> [t EXCEPT !.gets = 0, !.body = "stream", !.step = "send"]
    [] OTHER -> [t EXCEPT !.gets = 0, !.step = "read"]

GetSucceeds(o) ==
  /\ InCopy(o, "get") /\ o \notin gone
  /\ \E streamed \in BOOLEAN : Advance(o, Downloaded(tasks[o], streamed))
  /\ Unchanged /\ UNCHANGED <<gone, target, skip>>

GetFinds404(o) ==
  /\ InCopy(o, "get")
  /\ gone' = gone \cup {o}
  /\ IF tasks[o].reason = "first" THEN TaskEnds(o, "missing", NoSignature)
                                  ELSE DownloadFails(o, NoSignature)
  /\ UNCHANGED <<target, skip>>

\* The GET is refused for good: no permission, another status, or the last attempt.
GetRefused(o) ==
  /\ InCopy(o, "get")
  /\ \E signature \in {NoSignature, "get"} : DownloadFails(o, signature)
  /\ UNCHANGED <<gone, target, skip>>

\* readBufferedSourceBody
ReadSucceeds(o) ==
  /\ InCopy(o, "read")
  /\ Advance(o, [tasks[o] EXCEPT !.step = "send", !.body = "buffer", !.tries = 0])
  /\ Unchanged /\ UNCHANGED <<gone, target, skip>>

ReadFails(o) ==
  /\ InCopy(o, "read")
  /\ IF TriesLeft(tasks[o].tries)
     THEN Advance(o, [tasks[o] EXCEPT !.tries = @ + 1, !.step = "resolve", !.reason = "reread"])
          /\ Unchanged
     ELSE TaskEnds(o, "failed", NoSignature)
  /\ UNCHANGED <<gone, target, skip>>

\* The upload does not arrive, or is answered with a retryable status.
UploadLost(o) ==
  /\ InCopy(o, "send")
  /\ UploadFails(o, NoSignature)
  /\ UNCHANGED <<gone, target, skip>>

\* Slip: x-upsert is always true.
Accepts_Upserts(o) == TRUE

\* x-upsert is false when existing objects are to be skipped.
Accepts(o) == ~skip \/ target[o] = "absent"

\* What is there once the copy has stored an object; one of the target's own is lost.
Stored(held) == IF held \in {"theirs", "overwritten"} THEN "overwritten" ELSE "ours"

\* The target stores the object, and its answer arrives or is lost.
UploadApplied(o) ==
  /\ InCopy(o, "send") /\ Accepts(o)
  /\ target' = [target EXCEPT ![o] = Stored(@)]
  /\ TaskEnds(o, "copied", NoSignature) \/ UploadFails(o, NoSignature)
  /\ UNCHANGED <<gone, skip>>

\* The target has the object already, possibly from an attempt before.
UploadFindsExisting(o) ==
  /\ InCopy(o, "send") /\ ~Accepts(o)
  /\ TaskEnds(o, "existing", NoSignature)
  /\ UNCHANGED <<gone, target, skip>>

\* The object is too large for the target, so no attempt before was stored.
UploadOversized(o) ==
  /\ InCopy(o, "send") /\ target[o] # "ours"
  /\ TaskEnds(o, "oversized", NoSignature)
  /\ UNCHANGED <<gone, target, skip>>

\* The upload is refused for good: no permission, or another status.
UploadRefused(o) ==
  /\ InCopy(o, "send")
  /\ \E signature \in {NoSignature, "send"} : TaskEnds(o, "failed", signature)
  /\ UNCHANGED <<gone, target, skip>>

-----------------------------------------------------------------------------
(* The engine *)

Queued == {o \in Objects : tasks[o].step \notin {"listed", "done"}}

EngineOnly == UNCHANGED <<gate, tasks, window, gone, target, skip>>

Go(pc) == engine' = [engine EXCEPT !.pc = pc]
Throw(error) == engine' = [engine EXCEPT !.pc = "thrown", !.raised = error]

\* The listing is over, with an error to throw once the queue has settled.
StopListing(error) == engine' = [engine EXCEPT !.pc = "settle", !.raised = error]

\* The buckets of both projects are listed; this or a stage post may fail.
ListBuckets ==
  /\ engine.pc = "list"
  /\ \/ Go("bucket") /\ Emit(Objects # {})
     \/ Throw("listing") /\ UNCHANGED progress
  /\ EngineOnly

\* The next bucket is created on the target if it is missing there; this or a
\* stage post may fail.  With no transfer queued, nothing has to settle first.
PrepareBucket ==
  /\ engine.pc = "bucket" /\ engine.bucket <= NumBuckets
  /\ Go("scan") \/ Throw("listing")
  /\ UNCHANGED progress /\ EngineOnly

HasRoom == Cardinality(Queued) < Concurrency * BacklogPerSlot

InBucket(o) == o \in Objects /\ BucketOf[o] = engine.bucket

\* waitForQueueRoom and queueTransfer: the next object of the bucket is queued
\* when there is room, unless a transfer failed.  A batch of the listing, one
\* for every folder, may end before it, with a progress post.
QueueTransfer ==
  /\ engine.pc = "scan" /\ InBucket(engine.next)
  /\ HasRoom /\ engine.transferError = "none"
  /\ engine' = [engine EXCEPT !.next = @ + 1]
  /\ Acquire(engine.next)
  /\ IF progress.broken THEN UNCHANGED progress ELSE Emit(FALSE)
  /\ UNCHANGED <<window, gone, target, skip>>

StopQueuing ==
  /\ engine.pc = "scan" /\ InBucket(engine.next)
  /\ \/ engine.transferError # "none" /\ StopListing(engine.transferError)
     \/ progress.broken /\ StopListing("progress")
  /\ UNCHANGED progress /\ EngineOnly

\* A page cannot be read, or a stage post fails.
ListingFails ==
  /\ engine.pc = "scan"
  /\ StopListing("listing")
  /\ UNCHANGED progress /\ EngineOnly

ListingEnds ==
  /\ engine.pc = "scan" /\ ~InBucket(engine.next)
  /\ IF progress.broken
     THEN StopListing("progress") /\ UNCHANGED progress
     ELSE StopListing("none") /\ Emit(FALSE)
  /\ EngineOnly

\* Slip: the next bucket does not wait for the queue.
Settled_NotAwaited == TRUE

\* Slip: an error of the listing is thrown at once.
Settled_UnlessRaised == Queued = {} \/ engine.raised # "none"

Settled == Queued = {}

\* settleQueuedTransfers, and what is thrown after it.
SettleBucket ==
  /\ engine.pc = "settle" /\ Settled
  /\ LET error == IF engine.raised # "none" THEN engine.raised
                  ELSE IF engine.transferError # "none" THEN engine.transferError
                  ELSE IF progress.broken THEN "progress" ELSE "none"
     IN  IF error # "none"
         THEN Throw(error) /\ UNCHANGED progress
         ELSE /\ engine' = [engine EXCEPT !.pc = "bucket", !.bucket = @ + 1]
              /\ Emit(TRUE)
  /\ EngineOnly

LastBucketDone ==
  /\ engine.pc = "bucket" /\ engine.bucket > NumBuckets
  /\ IF progress.broken THEN Throw("progress") /\ UNCHANGED progress
                        ELSE Go("flush") /\ Emit(TRUE)
  /\ EngineOnly

\* flushProgress
Return ==
  /\ engine.pc = "flush" /\ ~progress.posting
  /\ IF progress.broken THEN Throw("progress") ELSE Go("returned")
  /\ UNCHANGED progress /\ EngineOnly

Over == engine.pc \in {"returned", "thrown"}

Transfers(o) ==
  \/ WokenEnters(o)
  \/ ResolvesRequest(o) \/ ResolvesMissing(o) \/ ResolveThrows(o)
  \/ GetAgain(o) \/ GetSucceeds(o) \/ GetFinds404(o) \/ GetRefused(o)
  \/ ReadSucceeds(o) \/ ReadFails(o)
  \/ UploadLost(o) \/ UploadApplied(o) \/ UploadFindsExisting(o)
  \/ UploadOversized(o) \/ UploadRefused(o)

EngineSteps ==
  \/ ListBuckets \/ PrepareBucket \/ QueueTransfer \/ StopQueuing
  \/ ListingFails \/ ListingEnds \/ SettleBucket \/ LastBucketDone \/ Return

Next ==
  \/ EngineSteps
  \/ PostsSettle \/ PostFails
  \/ \E o \in Objects : Transfers(o)

Spec == Init /\ [][Next]_vars

\* Requests end, because fetch is aborted when nothing moves, and callbacks are
\* tried a bounded number of times; the engine goes on when it can.
Fairness ==
  /\ \A o \in Objects : WF_vars(Transfers(o))
  /\ WF_vars(PostsSettle)
  /\ WF_vars(EngineSteps)

FairSpec == Spec /\ Fairness

-----------------------------------------------------------------------------
(* Properties *)

\* No wake-up is lost: while transfers wait at the gate, all its slots are
\* taken or have been handed to a transfer that is about to enter.
NoIdleSlot ==
  gate.waiters # <<>> => gate.active + Cardinality(gate.woken) >= Concurrency

\* What is reported of an object is so at the target and the source, whichever
\* answers were lost on the way; objects to be skipped are not overwritten; and
\* a stream is uploaded once, so that a retry brings a body of its own.
OutcomesAreHonest ==
  \A o \in Objects :
    /\ tasks[o].class = "copied" => target[o] = "ours"
    /\ tasks[o].class = "existing" => target[o] # "absent"
    /\ tasks[o].class \in {"missing", "oversized"} => target[o] # "ours"
    /\ skip => target[o] # "overwritten"
    /\ InCopy(o, "send") => tasks[o].body \in {"buffer", "stream"}

\* "So nothing keeps writing after the run returns": when the engine has
\* returned or thrown, no transfer is under way or will start.
NothingRunsAfterReturn == Over => Queued = {}

\* The copy is given up as systemic only if no object fared any better: all
\* that have a class failed with the same lack of permission.
AbortMeansNothingWorked ==
  [][engine'.transferError = "systemic" /\ engine.transferError = "none" =>
       \A o, p \in Objects :
         tasks'[o].class # "pending" /\ tasks'[p].class # "pending" =>
           /\ tasks'[o].class = "failed"
           /\ tasks'[o].signature = tasks'[p].signature]_vars

\* The abstract ledger, seen through the classes of the transfers.
Ledger ==
  INSTANCE TransferLedger WITH
    Items <- Objects, Classes <- Class, Pending <- "pending",
    class <- [o \in Objects |-> tasks[o].class],
    verdict <- CASE engine.pc = "returned" -> "complete"
                 [] engine.pc = "thrown" -> "error"
                 [] OTHER -> "open"

\* The engine implements the ledger: every object gets one class, for good, and
\* the engine returns only when all have theirs; and it returns or throws.
ImplementsLedger == Ledger!FairSpec
===============================================================================
