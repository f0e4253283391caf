------------------------------ MODULE ExporterJob ------------------------------
(***************************************************************************)
(* One LovableExporterJob Durable Object: its request handlers, its alarm, *)
(* the monitorRun continuations it starts, and the container it runs.      *)
(*                                                                         *)
(* The Durable Object is single threaded and its storage operations do not *)
(* let other events in, but every other await does: a start handler and a  *)
(* callback handler are suspended while they read the request body, and a  *)
(* monitor while the container runs and while it is destroyed.  Such a     *)
(* handler is two actions here, with what it read before the await kept in *)
(* between.                                                                *)
(***************************************************************************)
EXTENDS JobStore, FiniteSets

CONSTANTS
  MaxStarts,     \* bound: start handlers suspended at once
  MaxCallbacks,  \* bound: callback handlers suspended at once
  MaxRestarts    \* bound: restarts of the Durable Object

ASSUME BoundConstants ==
  /\ MaxStarts \in Nat
  /\ MaxCallbacks \in Nat
  /\ MaxRestarts \in Nat

VARIABLES
  store,      \* durable storage
  container,  \* the container: its run and task, its time left, the artifact's expiry
  starts,     \* start handlers waiting for their request body
  callbacks,  \* callback handlers waiting for their request body
  monitors,   \* the monitorRun promise of every run
  minted,     \* the run ids minted so far
  ended,      \* history: the runs whose record was ever terminal
  restarts    \* restarts so far

volatile == <<container, starts, callbacks, monitors>>
vars == <<store, container, starts, callbacks, monitors, minted, ended, restarts>>

\* The callbacks a container sends, by what the handler tells apart: status
\* "running" with an ordinary phase, with artifact_delivery.ready, or with one
\* of DOWNLOAD_DELIVERY_LIVENESS_PHASES; and the terminal ones.
CallbackKind ==
  {"progress", "ready", "liveness", "succeeded", "failed", "delivery_timeout"}

\* A download succeeds, or speaks of the artifact's delivery, only once it
\* serves the artifact.
KindsOf(c) ==
  CASE c.task # "download" -> {"progress", "succeeded", "failed"}
    [] c.task = "download" /\ c.expiry = Absent -> {"progress", "failed"}
    [] OTHER -> CallbackKind

StatusOf(kind) ==
  CASE kind \in {"progress", "ready", "liveness"} -> "running"
    [] kind = "succeeded" -> "succeeded"
    [] kind \in {"failed", "delivery_timeout"} -> "failed"

\* expiry counts down to the artifact_expires_at of a container that serves the
\* artifact; a "ready" callback carries it.
ArtifactExpiry == Absent..Window
NoContainer == [run |-> NoRun, task |-> "none", left |-> 0, expiry |-> Absent]
Container == [run: Runs \cup {NoRun}, task: Task, left: Nat, expiry: ArtifactExpiry]
Callback == [run: Runs, kind: CallbackKind, expiry: ArtifactExpiry]

\* none: never called; watching: awaiting container.monitor(); resolved and
\* rejected: the container is gone, the continuation has not run; destroying:
\* awaiting container.destroy() in the finally block; lost: with the object.
MonitorState == {"none", "watching", "resolved", "rejected", "destroying", "done", "lost"}
Pending == {"watching", "resolved", "rejected", "destroying"}

TypeOK ==
  /\ store \in Store
  /\ container \in Container
  /\ starts \in Nat
  /\ callbacks \subseteq Callback
  /\ monitors \in [Runs -> MonitorState]
  /\ minted \subseteq Runs
  /\ ended \subseteq Runs
  /\ restarts \in Nat

Init ==
  /\ store = EmptyStore
  /\ container = NoContainer
  /\ starts = 0
  /\ callbacks = {}
  /\ monitors = [r \in Runs |-> "none"]
  /\ minted = {}
  /\ ended = {}
  /\ restarts = 0

-----------------------------------------------------------------------------
(* Requests *)

\* A status or summary request: DO fetch settles an expired run first.
ReadStatus ==
  /\ store' = FailExpiredRunIfNeeded(store)
  /\ UNCHANGED <<volatile, minted, restarts>>

\* A start request, up to "await req.json()": 409 while the job runs.
StartArrives ==
  /\ starts < MaxStarts
  /\ store' = FailExpiredRunIfNeeded(store)
  /\ starts' = IF store'.job.status = "running" THEN starts ELSE starts + 1
  /\ UNCHANGED <<container, callbacks, monitors, minted, restarts>>

\* The body is read and fails validation: 400, nothing is stored.
StartRejected ==
  /\ starts > 0
  /\ starts' = starts - 1
  /\ UNCHANGED <<store, container, callbacks, monitors, minted, restarts>>

NewJob(r, task, hard) ==
  [status |-> "running", run |-> r, task |-> task, hard |-> hard,
   failure |-> "none", window |-> Absent]

\* Slip: a job found running keeps its record and session, but the start goes on.
BeginRun_KeepsRunning(s, r, task, hard) ==
  IF s.job.status = "running" THEN s
  ELSE WriteSession([s EXCEPT !.job = NewJob(r, task, hard)], r)

\* The record and the session of the new run replace whatever was stored.
BeginRun(s, r, task, hard) == WriteSession([s EXCEPT !.job = NewJob(r, task, hard)], r)

\* The rest of a start handler whose body is valid.  container.start() throws
\* while a container runs, and may fail for reasons of the platform: then the
\* new record becomes failed and keeps its session, and there is no timeout.
StartRun(r, task, hard) ==
  /\ starts > 0
  /\ r \notin minted
  /\ starts' = starts - 1
  /\ minted' = minted \cup {r}
  /\ \/ /\ container = NoContainer
        /\ store' = ScheduleRunTimeout(BeginRun(store, r, task, hard), r, hard)
        /\ container' = [run |-> r, task |-> task, left |-> hard, expiry |-> Absent]
        /\ monitors' = [monitors EXCEPT ![r] = "watching"]
     \/ /\ store' = ScheduleCleanup(FailJob(BeginRun(store, r, task, hard), "other"))
        /\ UNCHANGED <<container, monitors>>
  /\ UNCHANGED <<callbacks, restarts>>

StartDownload(r, hard) == StartRun(r, "download", hard)
StartStorage(r, hard) == StartRun(r, "storage", hard)
StartTargetDbTest(r, hard) == StartRun(r, "db", hard)
StartSourceInspect(r, hard) == StartRun(r, "db", hard)
StartExport(r, hard) == StartRun(r, "export", hard)

-----------------------------------------------------------------------------
(* Callbacks of the container *)

\* A download's container begins to serve the artifact and fixes when it
\* expires; a ready event that is repeated or late does not renew that.
ContainerListens ==
  /\ container.task = "download"
  /\ container.expiry = Absent
  /\ container' = [container EXCEPT !.expiry = Window]
  /\ UNCHANGED <<store, starts, callbacks, monitors, minted, restarts>>

\* Slip: the expiry is reckoned from the moment the event is posted.
CallbackOf_FreshExpiry(c, kind) ==
  [run |-> c.run, kind |-> kind, expiry |-> IF kind = "ready" THEN Window ELSE Absent]

CallbackOf(c, kind) ==
  [run |-> c.run, kind |-> kind, expiry |-> IF kind = "ready" THEN c.expiry ELSE Absent]

\* A callback request of the running container, up to "await req.json()": the
\* session is read before the body.  Without the session of its run it is
\* refused and nothing changes.
CallbackArrives(kind) ==
  /\ container.run # NoRun
  /\ store.session = container.run
  /\ kind \in KindsOf(container)
  /\ Cardinality(callbacks) < MaxCallbacks
  /\ callbacks' = callbacks \cup {CallbackOf(container, kind)}
  /\ UNCHANGED <<store, container, starts, monitors, minted, restarts>>

\* What the callback writes into the record: its status replaces the status
\* there, whatever that is, and a ready event brings the artifact's expiry.
ApplyToRecord(job, c) ==
  [job EXCEPT
     !.status = StatusOf(c.kind),
     !.failure = CASE c.kind = "delivery_timeout" -> "delivery_timeout"
                   [] c.kind = "failed" -> "other"
                   [] OTHER -> @,
     !.window = IF c.kind = "ready" THEN c.expiry ELSE @]

\* A delivery liveness callback of a running download extends the timeout.
ExtendsTimeout(job, kind) ==
  kind = "liveness" /\ job.status = "running" /\ job.task = "download"

HardTimeoutOf(s, r) == IF s.timeout.run = r THEN s.timeout.hard ELSE s.job.hard

ContainerCallback(s, c) ==
  LET written == [s EXCEPT !.job = ApplyToRecord(@, c)]
  IN  IF s.job.run # c.run THEN s
      ELSE IF StatusOf(c.kind) \in Terminal THEN ClearArtifactAccessForRun(written, c.run)
      ELSE IF ExtendsTimeout(s.job, c.kind)
      THEN ScheduleRunTimeout(written, c.run, HardTimeoutOf(s, c.run))
      ELSE written

\* The rest of handleContainerCallback, with the session read when it arrived.
CallbackApplies(c) ==
  /\ callbacks' = callbacks \ {c}
  /\ store' = ContainerCallback(store, c)
  /\ UNCHANGED <<container, starts, monitors, minted, restarts>>

-----------------------------------------------------------------------------
(* The end of a container, and its monitor *)

\* The container is gone; the promise of its monitor, if any, is settled.
StopContainer ==
  /\ container' = NoContainer
  /\ \E outcome \in {"resolved", "rejected"} :
       monitors' = [r \in Runs |->
                      IF r = container.run /\ monitors[r] = "watching"
                      THEN outcome ELSE monitors[r]]

\* The runtime exits, crashes, or the platform enforces its hard timeout.
ContainerExits ==
  /\ container # NoContainer
  /\ StopContainer
  /\ UNCHANGED <<store, starts, callbacks, minted, restarts>>

\* monitorRun after container.monitor() settles: a run still marked running
\* gets its outcome.  Then the container of the object, whichever run it was
\* started for, is destroyed.
\* Slip: does not ask whether the run still is on record as running.
SettleRun_AnyStatus(s, r, outcome) ==
  IF s.job.run # r THEN s
  ELSE IF outcome = "resolved" THEN [s EXCEPT !.job.status = "succeeded"]
  ELSE FailJob(s, "other")

SettleRun(s, r, outcome) ==
  IF s.job.run # r \/ s.job.status # "running" THEN s
  ELSE IF outcome = "resolved" THEN [s EXCEPT !.job.status = "succeeded"]
  ELSE FailJob(s, "other")

MonitorSettles(r) ==
  /\ monitors[r] \in {"resolved", "rejected"}
  /\ store' = SettleRun(store, r, monitors[r])
  /\ container' = NoContainer
  /\ \E outcome \in {"resolved", "rejected"} :
       monitors' = [q \in Runs |->
                      IF q = r THEN "destroying"
                      ELSE IF q = container.run /\ monitors[q] = "watching" THEN outcome
                      ELSE monitors[q]]
  /\ UNCHANGED <<starts, callbacks, minted, restarts>>

\* Slip: the cleanup is left to the alarm of the run timeout.
ReleaseRun_NoCleanup(s, r) == ClearSessionForRun(ClearRunTimeoutForRun(s, r), r)

\* The end of its finally block, after "await container.destroy()".
ReleaseRun(s, r) == ScheduleCleanup(ClearSessionForRun(ClearRunTimeoutForRun(s, r), r))

MonitorFinishes(r) ==
  /\ monitors[r] = "destroying"
  /\ store' = ReleaseRun(store, r)
  /\ monitors' = [monitors EXCEPT ![r] = "done"]
  /\ UNCHANGED <<container, starts, callbacks, minted, restarts>>

-----------------------------------------------------------------------------
(* Alarm, time and restarts *)

\* Slip: the alarm only cleans up.
RunAlarm_OnlyCleansUp(s) ==
  IF s.cleanup = 0 THEN EmptyStore ELSE ScheduleNextAlarm([s EXCEPT !.alarm = Absent])

\* The platform consumes the alarm before it calls alarm().
RunAlarm(s) ==
  IF s.cleanup = 0 THEN EmptyStore
  ELSE ScheduleNextAlarm(FailExpiredRunIfNeeded([s EXCEPT !.alarm = Absent]))

Alarm ==
  /\ store.alarm = 0
  /\ store' = RunAlarm(store)
  /\ UNCHANGED <<volatile, minted, restarts>>

\* Time passes.  Within a tick the platform stops a container at its hard
\* timeout, runs the continuation of a settled monitor, and reads the body of a
\* callback, which the outer worker has received in full before it forwards the
\* request.  Alarms and start requests may be late by any time.
Tick ==
  /\ container # NoContainer => container.left > 0
  /\ callbacks = {}
  /\ \A r \in Runs : monitors[r] \notin {"resolved", "rejected"}
  /\ store' = Age(store)
  /\ container' = [container EXCEPT !.left = Down(@), !.expiry = Down(@)]
  /\ UNCHANGED <<starts, callbacks, monitors, minted, restarts>>

\* The Durable Object is evicted or crashes between two handlers.  Storage and
\* alarm survive, suspended handlers and monitors do not, and nothing in the
\* constructor resumes them.  The container may survive.
Restart ==
  /\ restarts < MaxRestarts
  /\ restarts' = restarts + 1
  /\ starts' = 0
  /\ callbacks' = {}
  /\ monitors' = [r \in Runs |-> IF monitors[r] \in Pending THEN "lost" ELSE monitors[r]]
  /\ container' \in {container, NoContainer}
  /\ UNCHANGED <<store, minted>>

Step ==
  \/ ReadStatus
  \/ StartArrives
  \/ StartRejected
  \/ \E r \in Runs, hard \in HardTimeouts :
       \/ StartDownload(r, hard)
       \/ StartStorage(r, hard)
       \/ StartTargetDbTest(r, hard)
       \/ StartSourceInspect(r, hard)
       \/ StartExport(r, hard)
  \/ ContainerListens
  \/ \E kind \in CallbackKind : CallbackArrives(kind)
  \/ \E c \in callbacks : CallbackApplies(c)
  \/ ContainerExits
  \/ \E r \in Runs : MonitorSettles(r) \/ MonitorFinishes(r)
  \/ Alarm

\* The history variable follows every step.
EndedRuns(s) == IF s.job.status \in Terminal THEN {s.job.run} ELSE {}
History == ended' = ended \cup EndedRuns(store')

Next == (Step \/ Tick \/ Restart) /\ History

Spec == Init /\ [][Next]_vars

\* What the platform does by itself: it delivers due alarms, lets time pass
\* (strongly fair: a container cannot stop the clock by sending callbacks),
\* enforces the hard timeout of a container, and resumes callback handlers and
\* monitors.  Requests, new callbacks and restarts are never guaranteed.
PlatformFairness ==
  /\ WF_vars(Alarm /\ History)
  /\ SF_vars(Tick /\ History)
  /\ WF_vars(container.left = 0 /\ ContainerExits /\ History)
  /\ \A r \in Runs, kind \in CallbackKind :
       WF_vars((\E c \in callbacks : c.run = r /\ c.kind = kind /\ CallbackApplies(c)) /\ History)
  /\ \A r \in Runs : WF_vars((MonitorSettles(r) \/ MonitorFinishes(r)) /\ History)

FairSpec == Spec /\ PlatformFairness

-----------------------------------------------------------------------------
(* Properties *)

\* A run is live while the record shows it running for the first time: it has
\* started and no outcome of it was ever recorded.
Live(r) == store.job.run = r /\ store.job.status = "running" /\ r \notin ended

\* Nothing that happens to older runs (late monitors, stale timeouts, expired
\* sessions, concurrent starts) takes away the live run's timeout or the
\* session its callbacks need, and no other run's container is in its place.
LiveRunIsSupervised ==
  \A r \in Runs : Live(r) =>
    /\ store.timeout.run = r
    /\ store.session = r
    /\ container.run \in {r, NoRun}

\* The only alarm of the object is set no later than any deadline in storage,
\* although most writers change a deadline without looking at the other one.
AlarmCoversDeadlines ==
  \A due \in {store.timeout.left, store.cleanup} \ {Absent} : store.alarm \in 0..due

\* As long as its monitor was not lost in a restart, a stored job is either
\* watched by its monitor or on its way to be deleted; a record that a late
\* callback turned back to running is no exception.
JobIsAttended ==
  \A r \in Runs : store.job.run = r =>
    monitors[r] \in Pending \cup {"lost"} \/ store.cleanup # Absent

\* The grace period works: a timeout fires only when the platform has already
\* stopped the container of that run, however often deliveries extended it.
ContainerDiesFirst ==
  container.run # NoRun /\ container.run = store.timeout.run =>
    store.timeout.left >= container.left + Grace

\* The 24 hour cleanup that an older run's monitor arms during a newer run
\* never deletes the storage of a live run whose timeout is still running.
CleanupSparesLiveRuns ==
  [][store'.job.run = NoRun => \A r \in Runs : Live(r) => store.timeout.left = 0]_vars

\* A recorded outcome is changed only by a callback of the very same run; a
\* monitor or an alarm that comes late leaves it alone.
OutcomeChangedOnlyByCallback ==
  [][store.job.status \in Terminal /\ store'.job.run = store.job.run
       /\ store'.job.status # store.job.status
     => \E c \in callbacks : c.run = store.job.run /\ c \notin callbacks']_vars

\* Storage does not stay behind: a job whose monitor was not lost is deleted
\* or replaced by a new run.
JobIsForgotten ==
  \A r \in Runs :
    store.job.run = r ~> (store.job.run # r \/ monitors[r] = "lost")

\* The abstract lifecycle, seen through the record and the history.
phase ==
  [r \in Runs |-> IF r \notin minted THEN "fresh" ELSE IF Live(r) THEN "live" ELSE "over"]

Lifecycle == INSTANCE RunLifecycle WITH Runs <- Runs, phase <- phase

\* The Durable Object implements the lifecycle of runs, and with the fairness of
\* the platform every live run comes to an end: an outcome is recorded for it,
\* or it is superseded or deleted, also after a restart that lost its monitor.
ImplementsFairLifecycle == Lifecycle!FairSpec

-----------------------------------------------------------------------------
(* What the code says of itself and does not do *)

\* Every start handler answers 409 "Job already running." while the job runs.
StartsRefusedWhileRunning ==
  [][minted' # minted => store.job.status # "running"]_vars

\* The comment in handleContainerCallback: the hard timeout of a download
\* "measures silence from the live container, not total job lifetime", and
\* delivery activity extends it.  So the container may live as long as the
\* timeout that an activity extended.
DownloadTimeoutMeasuresSilence ==
  container.task = "download" /\ store.timeout.run = container.run =>
    container.left + Grace >= store.timeout.left
=============================================================================
