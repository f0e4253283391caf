------------------------------- MODULE JobStore -------------------------------
(***************************************************************************)
(* The durable storage of one LovableExporterJob Durable Object and the    *)
(* private methods that read and write it.  Storage is a key-value record: *)
(*                                                                         *)
(*   status          -> job      the JobRecord shown to clients            *)
(*   session         -> session  the run whose callbacks are accepted      *)
(*   artifact_access -> access   the outstanding ZIP download token        *)
(*   run_timeout     -> timeout  the deadline of the current run           *)
(*   cleanup_after   -> cleanup  when everything is deleted                *)
(*   (platform)      -> alarm    the one alarm a Durable Object has        *)
(*                                                                         *)
(* A point in time is kept as the number of ticks left until it, so that   *)
(* "expiresAt <= Date.now()" is "left = 0"; Absent stands for a missing    *)
(* key.  Run ids and callback tokens are minted together and are unique,   *)
(* so a session is named by its run.  A method of the class is an operator *)
(* from a store to a store.                                                *)
(***************************************************************************)
EXTENDS Integers

CONSTANTS
  Runs,          \* the run ids that crypto.randomUUID can mint
  NoRun,         \* run_id null, and the absence of a session
  Tokens,        \* the artifact access tokens that can be minted
  NoToken,       \* no token
  HardTimeouts,  \* the hard timeouts a start request can ask for, in ticks
  Grace,         \* RUN_TIMEOUT_GRACE_MS
  CleanupDelay,  \* CLEANUP_DELAY_MS
  Window         \* DOWNLOAD_ARTIFACT_LIVE_TIMEOUT_SECONDS, also the token TTL

ASSUME StoreConstants ==
  /\ NoRun \notin Runs
  /\ NoToken \notin Tokens
  /\ HardTimeouts \subseteq Nat \ {0}
  /\ Grace \in Nat \ {0}
  /\ CleanupDelay \in Nat \ {0}
  /\ Window \in Nat \ {0}

\* In the code 24 hours, against hard timeouts of at most 2 hours (cleanHardTimeout)
\* and a grace period of a minute.
ASSUME CleanupOutlastsRuns ==
  \A hard \in HardTimeouts : CleanupDelay >= 2 * hard + Grace

Absent == -1
Countdown == Nat \cup {Absent}

JobStatus == {"idle", "running", "succeeded", "failed"}
Terminal == {"succeeded", "failed"}
Task == {"none", "download", "storage", "db", "export"}
FailureClass == {"none", "delivery_timeout", "other"}

\* What the properties tell apart in a JobRecord.  window counts down to the
\* artifact_expires_at of the latest artifact_delivery.ready event; the record
\* holds fewer than MAX_EVENTS events, so none of them is pruned.
JobRecord ==
  [status: JobStatus, run: Runs \cup {NoRun}, task: Task, hard: Nat,
   failure: FailureClass, window: Countdown]

RunTimeout == [run: Runs \cup {NoRun}, hard: Nat, left: Countdown]
ArtifactAccess == [run: Runs \cup {NoRun}, token: Tokens \cup {NoToken}, left: Countdown]

Store ==
  [job: JobRecord, session: Runs \cup {NoRun}, access: ArtifactAccess,
   timeout: RunTimeout, cleanup: Countdown, alarm: Countdown]

NoJob ==
  [status |-> "idle", run |-> NoRun, task |-> "none", hard |-> 0,
   failure |-> "none", window |-> Absent]
NoTimeout == [run |-> NoRun, hard |-> 0, left |-> Absent]
NoAccess == [run |-> NoRun, token |-> NoToken, left |-> Absent]

\* Storage before the first start request, and after deleteAll().
EmptyStore ==
  [job |-> NoJob, session |-> NoRun, access |-> NoAccess,
   timeout |-> NoTimeout, cleanup |-> Absent, alarm |-> Absent]

-----------------------------------------------------------------------------
(* Session, artifact access and run timeout *)

\* Slip: the cleanup armed for an earlier run stays armed.
WriteSession_KeepsCleanup(s, r) == [s EXCEPT !.session = r]

\* writeSession: a new session revokes the cleanup of an earlier run.
WriteSession(s, r) == [s EXCEPT !.session = r, !.cleanup = Absent]

ClearArtifactAccess(s) == [s EXCEPT !.access = NoAccess]

ClearArtifactAccessForRun(s, r) ==
  IF s.access.run = r THEN ClearArtifactAccess(s) ELSE s

ClearRunTimeout(s) == [s EXCEPT !.timeout = NoTimeout]

\* Slip: does not ask whose timeout it is.
ClearRunTimeoutForRun_AnyRun(s, r) == ClearRunTimeout(s)

ClearRunTimeoutForRun(s, r) ==
  IF s.timeout.run = r THEN ClearRunTimeout(s) ELSE s

\* clearSessionForRun, with the clearSession it calls.
ClearSessionForRun(s, r) ==
  IF s.session = r THEN ClearArtifactAccess([s EXCEPT !.session = NoRun]) ELSE s

-----------------------------------------------------------------------------
(* Deadlines *)

Earliest(a, b) ==
  IF a = Absent THEN b ELSE IF b = Absent \/ a <= b THEN a ELSE b

\* Slip: a pending cleanup hides the timeout.
ScheduleNextAlarm_CleanupFirst(s) ==
  LET due == IF s.cleanup # Absent THEN s.cleanup ELSE s.timeout.left
  IN  IF due = Absent THEN s ELSE [s EXCEPT !.alarm = due]

\* scheduleNextAlarm: with nothing to wait for, the old alarm is left in place.
ScheduleNextAlarm(s) ==
  LET due == Earliest(s.cleanup, s.timeout.left)
  IN  IF due = Absent THEN s ELSE [s EXCEPT !.alarm = due]

\* Slip: the timeout of the run is the hard timeout of its container.
ScheduleRunTimeout_NoGrace(s, r, hard) ==
  ScheduleNextAlarm([s EXCEPT !.timeout = [run |-> r, hard |-> hard, left |-> hard]])

ScheduleRunTimeout(s, r, hard) ==
  ScheduleNextAlarm([s EXCEPT !.timeout = [run |-> r, hard |-> hard, left |-> hard + Grace]])

ScheduleCleanup(s) == ScheduleNextAlarm([s EXCEPT !.cleanup = CleanupDelay])

FailJob(s, class) == [s EXCEPT !.job.status = "failed", !.job.failure = class]

\* failExpiredRunIfNeeded: a timeout that outlived its run is dropped, a run
\* that outlived its timeout is failed; its container is left alone.
FailExpiredRunIfNeeded(s) ==
  LET r == s.timeout.run
  IN  IF r = NoRun \/ s.timeout.left > 0
      THEN s
      ELSE IF s.job.run # r \/ s.job.status # "running"
      THEN ScheduleNextAlarm(ClearRunTimeout(s))
      ELSE ScheduleCleanup(ClearSessionForRun(ClearRunTimeoutForRun(FailJob(s, "other"), r), r))

\* Slip: a missing or expired deadline is counted down as well.
Down_PastZero(c) == c - 1

Down(c) == IF c > 0 THEN c - 1 ELSE c

\* One tick of the wall clock, seen by every deadline kept in storage.
Age(s) ==
  [s EXCEPT !.job.window = Down(@), !.access.left = Down(@), !.timeout.left = Down(@),
            !.cleanup = Down(@), !.alarm = Down(@)]
=============================================================================
