------------------------------- MODULE LocalJobs -------------------------------
(***************************************************************************)
(* One job of the CLI's local API server: its record in a file, the queue  *)
(* of writes that protects the file, the flows that run a container or the *)
(* storage copy engine for the job, the callbacks of the container, and    *)
(* the handler of a flow that throws.                                      *)
(*                                                                         *)
(* An action is what runs between two awaits.  writeFile truncates the     *)
(* file before it fills it, so a reader outside the queue of writes may    *)
(* meet an empty file, which readJob takes for an idle job.                *)
(***************************************************************************)
EXTENDS Naturals, Sequences

CONSTANTS
  Runs,         \* start requests, and the runs they become
  NoRun,        \* run_id null
  KindsOf,      \* the kinds of flow each may ask for
  NumPosts,     \* callbacks the containers send, all runs together
  MaxProgress,  \* progress reports of a storage copy
  MaxFailures   \* writes, builds and directories that fail

Posts == 1..NumPosts

\* A flow that runs a container and ends by reading the record again (export,
\* download, source inspection, database test), or one that keeps the record in
\* memory and writes it as it goes (storage copy; database clone reports nothing).
Kinds == {"container", "memory"}

ASSUME LocalConstants ==
  /\ NoRun \notin Runs
  /\ KindsOf \in [Runs -> SUBSET Kinds]
  /\ {NumPosts, MaxProgress, MaxFailures} \subseteq Nat

VARIABLES
  file,      \* the record last written in full
  torn,      \* the file is truncated: readers get the default record
  lock,      \* the queue of writes of the job, the one under way first
  thrown,    \* the writers whose write failed and who have not noticed yet
  running,   \* runningJobs: the run that holds the job
  session,   \* callbackSessions: the run whose callbacks are let in
  flow,      \* the flow of every run
  post,      \* the callbacks
  handler,   \* persistUnhandledJobFailure, for every run
  failures   \* failures injected so far

vars == <<file, torn, lock, thrown, running, session, flow, post, handler, failures>>

Status == {"idle", "running", "succeeded", "failed"}
Done == {"succeeded", "failed"}

Record == [run: Runs \cup {NoRun}, status: Status, events: SUBSET Posts]
NoRecord == [run |-> NoRun, status |-> "idle", events |-> {}]

Writers == ({"flow", "progress", "handler"} \X Runs) \cup ({"post"} \X Posts)

\* updateJob reads, then writes; writeJob only writes.
Task == [by: Writers, op: {"read", "put", "filling"}, rec: Record]

\* Between its start and its end, a flow writes its first record, prepares (build,
\* network, or resolving the source), works, and closes the record; "saving" is
\* the closing write of a flow that still catches its failure.
Live == {"starting", "preparing", "working", "exited", "saving", "closing"}

\* launched says that its container or engine was started, mem is the status in
\* memory, due the progress reports the engine has chained, posted the status in the
\* report being written, and quiet says that nothing was under way when its work
\* ended and that no callback was let in since.
Flow == [pc: {"idle", "over"} \cup Live, kind: Kinds, launched: BOOLEAN, mem: Status,
         verdict: {"none", "succeeded", "failed", "missing"},
         due: 0..MaxProgress, posted: {"none"} \cup Status, quiet: BOOLEAN]

Post == [pc: {"unsent", "reading", "queued", "acked", "lost"},
         run: Runs \cup {NoRun}, says: {"running"} \cup Done]

InFlight == {"reading", "queued"}

Init ==
  /\ file = NoRecord
  /\ torn = FALSE
  /\ lock = <<>>
  /\ thrown = {}
  /\ running = NoRun
  /\ session = NoRun
  /\ flow = [r \in Runs |-> [pc |-> "idle", kind |-> "container", launched |-> FALSE,
                             mem |-> "idle", verdict |-> "none", due |-> 0, posted |-> "none", quiet |-> TRUE]]
  /\ post = [p \in Posts |-> [pc |-> "unsent", run |-> NoRun, says |-> "running"]]
  /\ handler = [r \in Runs |-> "none"]
  /\ failures = 0

-----------------------------------------------------------------------------
(* The record and the queue of writes *)

\* readJob: what cannot be parsed is the default record.
ReadJob == IF torn THEN NoRecord ELSE file

Waits(w) == \E i \in DOMAIN lock : lock[i].by = w
Written(w) == ~Waits(w) /\ w \notin thrown

Enqueue(w, op, rec) == lock' = Append(lock, [by |-> w, op |-> op, rec |-> rec])
WriteJob(w, rec) == Enqueue(w, "put", rec)

\* The record of a run that has had no callback.
RecordOf(r, status) == [run |-> r, status |-> status, events |-> {}]

\* Slip: the run is not looked at under the lock.
Updated_AnyRun(p, current) ==
  [current EXCEPT !.status = post[p].says, !.events = @ \cup {p}]

\* The updater of the callback route, on the record it is given.
Updated(p, current) ==
  IF current.run # post[p].run
  THEN current
  ELSE [current EXCEPT !.status = post[p].says, !.events = @ \cup {p}]

\* An answered callback; what it said is in the record or nowhere.
Settled(c, answer) ==
  [pc |-> answer, run |-> IF answer = "acked" THEN c.run ELSE NoRun, says |-> "running"]

\* A write takes its turn: updateJob reads the record, and writeFile truncates the
\* file.  Nothing else may write in between, so they are one step...
TakeTurn ==
  /\ lock # <<>>
  /\ Head(lock).op \in {"read", "put"}
  /\ lock' = [lock EXCEPT ![1].op = "filling",
                          ![1].rec = IF Head(lock).op = "read"
                                     THEN Updated(Head(lock).by[2], ReadJob)
                                     ELSE @]
  /\ torn' = TRUE
  /\ UNCHANGED <<file, thrown, running, session, flow, post, handler, failures>>

\* ...and fills it; the next write of the queue may begin.
Fill ==
  /\ lock # <<>>
  /\ Head(lock).op = "filling"
  /\ file' = Head(lock).rec
  /\ torn' = FALSE
  /\ lock' = Tail(lock)
  /\ post' = IF Head(lock).by[1] = "post"
             THEN [post EXCEPT ![Head(lock).by[2]] = Settled(@, "acked")]
             ELSE post
  /\ UNCHANGED <<thrown, running, session, flow, handler, failures>>

Fails ==
  /\ failures < MaxFailures
  /\ failures' = failures + 1

\* Slip: a failed write keeps its turn.
ReleaseLock_NotFinally == lock' = [lock EXCEPT ![1].op = "stuck"]

\* A write fails before or after the file is truncated: the turn passes on all
\* the same.  The failed write of a handler ends the server and is left out.
ReleaseLock == lock' = Tail(lock)

WriteFails ==
  /\ lock # <<>>
  /\ Head(lock).by[1] # "handler"
  /\ Fails
  /\ ReleaseLock
  /\ IF Head(lock).by[1] = "post"
     THEN /\ post' = [post EXCEPT ![Head(lock).by[2]] = Settled(@, "lost")]
          /\ UNCHANGED thrown
     ELSE /\ thrown' = thrown \cup {Head(lock).by}
          /\ UNCHANGED post
  /\ UNCHANGED <<file, torn, running, session, flow, handler>>

-----------------------------------------------------------------------------
(* Start requests *)

\* Slip: runningJobs is not looked at.
JobIsFree_Unchecked == TRUE

\* runningJobs.has
JobIsFree == running = NoRun

\* A start request whose body is read: the check, the session and the entry in
\* runningJobs are one step, and startJob writes the first record of the run.  A
\* request that finds the job running is refused and changes nothing.
Start(r) ==
  /\ flow[r].pc = "idle"
  /\ JobIsFree
  /\ running' = r
  /\ \E k \in KindsOf[r] :
       /\ session' = IF k = "container" THEN r ELSE session
       /\ flow' = [flow EXCEPT ![r].pc = "starting", ![r].kind = k, ![r].mem = "running"]
  /\ WriteJob(<<"flow", r>>, RecordOf(r, "running"))
  /\ UNCHANGED <<file, torn, thrown, post, handler, failures>>

-----------------------------------------------------------------------------
(* The flows *)

\* The .catch and .finally of the start routes.
End(r, threw) ==
  /\ flow' = [flow EXCEPT ![r].pc = "over"]
  /\ running' = NoRun
  /\ session' = NoRun
  /\ handler' = IF threw THEN [handler EXCEPT ![r] = "reading"] ELSE handler

\* Nothing of this or an earlier run is under way: no callback, no progress report.
Quiet ==
  /\ \A p \in Posts : post[p].pc \notin InFlight
  /\ \A r \in Runs : flow[r].due = 0 /\ flow[r].posted = "none"

\* The catch of a flow: it reads the record again, or closes the one in memory.
Catch(r) ==
  IF flow[r].kind = "container"
  THEN /\ flow' = [flow EXCEPT ![r].pc = "exited", ![r].verdict = "failed", ![r].quiet = Quiet]
       /\ UNCHANGED lock
  ELSE /\ flow' = [flow EXCEPT ![r].pc = "closing", ![r].verdict = "failed",
                               ![r].mem = "failed", ![r].quiet = Quiet]
       /\ WriteJob(<<"flow", r>>, RecordOf(r, "failed"))

\* The flow learns that its write failed: a first or a last write is not caught.
NoticesFailure(r) ==
  LET w == <<"flow", r>>
  IN /\ w \in thrown
     /\ thrown' = thrown \ {w}
     /\ IF flow[r].pc \in {"preparing", "saving"}
        THEN Catch(r) /\ UNCHANGED <<running, session, handler>>
        ELSE End(r, TRUE) /\ UNCHANGED lock
     /\ UNCHANGED <<file, torn, post, failures>>

\* The record says running: the flow prepares and writes what it has prepared.
Prepare(r) ==
  /\ flow[r].pc = "starting"
  /\ Written(<<"flow", r>>)
  /\ flow' = [flow EXCEPT ![r].pc = "preparing"]
  /\ WriteJob(<<"flow", r>>, RecordOf(r, flow[r].mem))
  /\ UNCHANGED <<file, torn, thrown, running, session, post, handler, failures>>

\* The artifact directory of a download cannot be emptied, which is not caught.
CleaningFails(r) ==
  /\ flow[r].pc = "starting" /\ flow[r].kind = "container"
  /\ Written(<<"flow", r>>)
  /\ Fails
  /\ End(r, TRUE)
  /\ UNCHANGED <<file, torn, lock, thrown, post>>

\* The build fails, docker is not there, or the source is not resolved.
PrepareFails(r) ==
  /\ flow[r].pc \in {"starting", "preparing"}
  /\ Written(<<"flow", r>>)
  /\ Fails
  /\ Catch(r)
  /\ UNCHANGED <<file, torn, thrown, running, session, post, handler>>

Launch(r) ==
  /\ flow[r].pc = "preparing"
  /\ Written(<<"flow", r>>)
  /\ flow' = [flow EXCEPT ![r].pc = "working", ![r].launched = TRUE]
  /\ UNCHANGED <<file, torn, lock, thrown, running, session, post, handler, failures>>

\* The docker client of the container exits, well or not, or is killed at the hard
\* timeout if there is one; the container itself may go on and post callbacks.  A
\* download may leave no artifact.
Exit(r) ==
  /\ flow[r].pc = "working" /\ flow[r].kind = "container"
  /\ \E v \in {"succeeded", "failed", "missing"} :
       flow' = [flow EXCEPT ![r].pc = "exited", ![r].verdict = v, ![r].quiet = Quiet]
  /\ UNCHANGED <<file, torn, lock, thrown, running, session, post, handler, failures>>

\* Slip: any outcome stays, whatever the container's exit.
Closed_AnyOutcome(verdict, status) == verdict # "missing" /\ status \in Done

\* What the callbacks have already closed is left as it is.
Closed(verdict, status) ==
  \/ verdict = "succeeded" /\ status \in Done
  \/ verdict = "failed" /\ status = "failed"

\* finalizeIfCurrentRun reads the record outside the queue of writes.
Finalize(r) ==
  LET current == ReadJob
      outcome == IF flow[r].verdict = "succeeded" THEN "succeeded" ELSE "failed"
  IN /\ flow[r].pc = "exited"
     /\ IF current.run # r \/ Closed(flow[r].verdict, current.status)
        THEN End(r, FALSE) /\ UNCHANGED lock
        ELSE /\ flow' = [flow EXCEPT ![r].pc = "closing"]
             /\ WriteJob(<<"flow", r>>, [current EXCEPT !.status = outcome])
             /\ UNCHANGED <<running, session, handler>>
     /\ UNCHANGED <<file, torn, thrown, post, failures>>

\* The last write is done.
Finish(r) ==
  /\ flow[r].pc \in {"saving", "closing"}
  /\ Written(<<"flow", r>>)
  /\ End(r, FALSE)
  /\ UNCHANGED <<file, torn, lock, thrown, post, failures>>

-----------------------------------------------------------------------------
(* The storage copy, which keeps its record in memory *)

\* The engine chains one more progress report.
Report(r) ==
  /\ flow[r].pc = "working" /\ flow[r].kind = "memory"
  /\ flow[r].due < MaxProgress
  /\ flow' = [flow EXCEPT ![r].due = @ + 1]
  /\ UNCHANGED <<file, torn, lock, thrown, running, session, post, handler, failures>>

\* onProgress takes the record in memory as it is when the report's turn comes.
PostProgress(r) ==
  /\ flow[r].due > 0 /\ flow[r].posted = "none"
  /\ flow' = [flow EXCEPT ![r].due = @ - 1, ![r].posted = flow[r].mem]
  /\ WriteJob(<<"progress", r>>, RecordOf(r, flow[r].mem))
  /\ UNCHANGED <<file, torn, thrown, running, session, post, handler, failures>>

\* Its write done, it assigns the record it wrote to the one in memory; a report
\* that could not be written makes the engine throw.
ProgressPosted(r) ==
  LET w == <<"progress", r>>
  IN /\ flow[r].posted # "none"
     /\ ~Waits(w)
     /\ thrown' = thrown \ {w}
     /\ flow' = IF w \in thrown
                THEN [flow EXCEPT ![r].posted = "none", ![r].verdict = "failed"]
                ELSE [flow EXCEPT ![r].posted = "none", ![r].mem = flow[r].posted]
     /\ UNCHANGED <<file, torn, lock, running, session, post, handler, failures>>

\* The engine returns once its reports are posted; objects may have failed.
EngineReturns(r) ==
  /\ flow[r].pc = "working" /\ flow[r].kind = "memory"
  /\ flow[r].due = 0 /\ flow[r].posted = "none" /\ flow[r].verdict = "none"
  /\ \E v \in Done :
       /\ flow' = [flow EXCEPT ![r].pc = "saving", ![r].verdict = v, ![r].mem = v]
       /\ WriteJob(<<"flow", r>>, RecordOf(r, v))
  /\ UNCHANGED <<file, torn, thrown, running, session, post, handler, failures>>

\* The engine throws, at any time: it does not wait for its reports.
EngineThrows(r) ==
  /\ flow[r].pc = "working" /\ flow[r].kind = "memory"
  /\ Catch(r)
  /\ UNCHANGED <<file, torn, thrown, running, session, post, handler, failures>>

-----------------------------------------------------------------------------
(* Callbacks *)

\* A callback of the container finds its session, before its body is read; the
\* container may give up on the answer and post another.  The session lasts until the
\* flow is over, so a callback sent before the container's end, or by a container
\* that outlives its docker client, is let in while the flow closes its record.  A
\* callback that finds no session is refused and changes nothing.
Arrive(p) ==
  /\ post[p].pc = "unsent"
  /\ \A q \in 1..(p - 1) : post[q].pc # "unsent"
  /\ session # NoRun
  /\ flow[session].launched
  /\ flow' = [flow EXCEPT ![session].quiet = @ /\ flow[session].pc = "working"]
  /\ \E s \in {"running"} \cup Done :
       post' = [post EXCEPT ![p] = [pc |-> "reading", run |-> session, says |-> s]]
  /\ UNCHANGED <<file, torn, lock, thrown, running, session, handler, failures>>

\* Slip: the record is read before the turn to write comes.
Accept_ReadsFirst(p) ==
  /\ post[p].pc = "reading"
  /\ post' = [post EXCEPT ![p].pc = "queued"]
  /\ WriteJob(<<"post", p>>, Updated(p, ReadJob))
  /\ UNCHANGED <<file, torn, thrown, running, session, flow, handler, failures>>

\* The body is read, and agrees with the session the route holds.
Accept(p) ==
  /\ post[p].pc = "reading"
  /\ post' = [post EXCEPT ![p].pc = "queued"]
  /\ Enqueue(<<"post", p>>, "read", NoRecord)
  /\ UNCHANGED <<file, torn, thrown, running, session, flow, handler, failures>>

-----------------------------------------------------------------------------
(* A flow that threw *)

\* persistUnhandledJobFailure, which nothing waits for, reads the record...
HandlerReads(r) ==
  /\ handler[r] = "reading"
  /\ handler' = [handler EXCEPT ![r] = "done"]
  /\ WriteJob(<<"handler", r>>, [ReadJob EXCEPT !.status = "failed"])
  /\ UNCHANGED <<file, torn, thrown, running, session, flow, post, failures>>

WriteStep == TakeTurn \/ Fill \/ WriteFails

\* What the flow does to get its container or engine started...
OpeningStep(r) == Prepare(r) \/ CleaningFails(r) \/ PrepareFails(r) \/ Launch(r)

\* ...and once that has ended, or one of its writes failed.
ClosingStep(r) == NoticesFailure(r) \/ Finalize(r) \/ Finish(r)

WorkStep(r) == Exit(r) \/ EngineReturns(r) \/ EngineThrows(r)

ReportStep(r) == PostProgress(r) \/ ProgressPosted(r)

RunStep(r) ==
  \/ Start(r) \/ OpeningStep(r) \/ WorkStep(r) \/ ClosingStep(r)
  \/ Report(r) \/ ReportStep(r) \/ HandlerReads(r)

PostStep(p) == Arrive(p) \/ Accept(p)

Next ==
  \/ WriteStep
  \/ \E r \in Runs : RunStep(r)
  \/ \E p \in Posts : PostStep(p)

Spec == Init /\ [][Next]_vars

\* Writes end, one way or the other, and a flow goes on when its write is done.  A
\* build, a container or an engine need never end: the hard timeout is optional, and
\* runCloneProcess has none of its own.
FairSpec ==
  /\ Spec
  /\ WF_vars(WriteStep)
  /\ \A r \in Runs : WF_vars(ReportStep(r)) /\ WF_vars(ClosingStep(r))

-----------------------------------------------------------------------------
(* Properties *)

\* Types, and who may hold the job: runningJobs and callbackSessions name the run
\* whose flow is live, so no two flows of a job are ever live at once.
LocalTypeOK ==
  /\ file \in Record
  /\ torn \in BOOLEAN
  /\ lock \in Seq(Task)
  /\ thrown \subseteq Writers
  /\ flow \in [Runs -> Flow]
  /\ post \in [Posts -> Post]
  /\ handler \in [Runs -> {"none", "reading", "done"}]
  /\ failures \in 0..MaxFailures
  /\ running \in Runs \cup {NoRun}
  /\ session \in {running, NoRun}
  /\ \A r \in Runs : flow[r].pc \in Live <=> running = r

\* A callback that was let in for one run, and whose turn to write comes when a
\* newer run holds the record, changes nothing: updateJob looks at the run inside
\* the queue of writes (api-server.ts:441).  Where a failed write left the file
\* unreadable, the callback writes down the default record readJob found.
StaleCallbacksChangeNothing ==
  [][ (lock # <<>> /\ Head(lock).by[1] = "post" /\ file' \notin {file, NoRecord})
      => /\ file.run = post[Head(lock).by[2]].run
         /\ file'.run = file.run ]_<<file, lock>>

\* Callbacks that write the record at the same time do not undo each other: until
\* the flow reads the record to close it, every callback that was answered is in
\* the record, as long as nothing has failed and no earlier storage copy left
\* progress reports, which write over the record of the next run.
AcknowledgedIsRecorded ==
  \A p \in Posts :
    LET r == post[p].run
    IN (/\ post[p].pc = "acked"
        /\ flow[r].pc \in {"working", "exited"}
        /\ failures = 0
        /\ \A s \in Runs : flow[s].pc = "over" => flow[s].quiet)
       => file.run = r /\ p \in file.events

\* When a flow is over, nothing was under way when its work ended, no callback was
\* let in since, and no write failed, its record is closed: a failed run is failed,
\* and a run that succeeded is succeeded or was failed by its own callback.
\* Stragglers break this: a callback's truncated file makes finalizeIfCurrentRun
\* take the job for another run's, a callback let in after the container's end writes
\* "running" over the outcome, and so does a chained progress report.
QuietRunsAreClosed ==
  \A r \in Runs :
    (flow[r].pc = "over" /\ flow[r].quiet /\ failures = 0 /\ file.run = r)
    => /\ file.status \in Done
       /\ flow[r].verdict # "succeeded" => file.status = "failed"
       /\ flow[r].kind = "memory" => file.status = flow[r].verdict

\* A flow whose container or engine has ended, or one of whose writes failed, lets go
\* of the job, whatever else fails and whoever else writes: the next start is not
\* refused for ever.
JobComesFree ==
  \A r \in Runs :
    (flow[r].pc \in {"exited", "saving", "closing"} \/ <<"flow", r>> \in thrown) ~> running # r
================================================================================
