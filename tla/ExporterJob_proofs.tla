-------------------------- MODULE ExporterJob_proofs --------------------------
(***************************************************************************)
(* Proofs about ExporterJob: types, the inductive invariant behind the     *)
(* safety invariants, and the action properties.                           *)
(***************************************************************************)
EXTENDS ExporterJob, TLAPS

(***************************************************************************)
(* The methods of the store map stores to stores.                          *)
(***************************************************************************)
LEMMA EmptyStoreType == EmptyStore \in Store
  BY StoreConstants
     DEF EmptyStore, Store, NoJob, NoTimeout, NoAccess, JobRecord, RunTimeout, ArtifactAccess,
         Countdown, Absent, JobStatus, Task, FailureClass

LEMMA ScheduleNextAlarmType ==
  ASSUME NEW s \in Store
  PROVE  ScheduleNextAlarm(s) \in Store
  BY DEF ScheduleNextAlarm, Earliest, Store, RunTimeout, Countdown, Absent

LEMMA ScheduleCleanupType ==
  ASSUME NEW s \in Store
  PROVE  ScheduleCleanup(s) \in Store
<1>1. [s EXCEPT !.cleanup = CleanupDelay] \in Store
  BY StoreConstants DEF Store, Countdown
<1> QED BY <1>1, ScheduleNextAlarmType DEF ScheduleCleanup

LEMMA ScheduleRunTimeoutType ==
  ASSUME NEW s \in Store, NEW r \in Runs, NEW hard \in Nat
  PROVE  ScheduleRunTimeout(s, r, hard) \in Store
<1>1. [s EXCEPT !.timeout = [run |-> r, hard |-> hard, left |-> hard + Grace]] \in Store
  BY StoreConstants DEF Store, RunTimeout, Countdown
<1> QED BY <1>1, ScheduleNextAlarmType DEF ScheduleRunTimeout

LEMMA ClearType ==
  ASSUME NEW s \in Store, NEW r
  PROVE  /\ ClearArtifactAccess(s) \in Store
         /\ ClearArtifactAccessForRun(s, r) \in Store
         /\ ClearRunTimeout(s) \in Store
         /\ ClearRunTimeoutForRun(s, r) \in Store
         /\ ClearSessionForRun(s, r) \in Store
<1>1. NoAccess \in ArtifactAccess /\ NoTimeout \in RunTimeout
  BY DEF NoAccess, NoTimeout, ArtifactAccess, RunTimeout, Countdown, Absent
<1> QED
  BY <1>1 DEF ClearArtifactAccess, ClearArtifactAccessForRun, ClearRunTimeout,
              ClearRunTimeoutForRun, ClearSessionForRun, Store

LEMMA FailJobType ==
  ASSUME NEW s \in Store, NEW class \in FailureClass
  PROVE  FailJob(s, class) \in Store
  BY DEF FailJob, Store, JobRecord, JobStatus

LEMMA FailExpiredRunIfNeededType ==
  ASSUME NEW s \in Store
  PROVE  FailExpiredRunIfNeeded(s) \in Store
<1> DEFINE r == s.timeout.run
           failed == ClearSessionForRun(ClearRunTimeoutForRun(FailJob(s, "other"), r), r)
<1>1. failed \in Store
  BY FailJobType, ClearType DEF FailureClass
<1>2. ScheduleCleanup(failed) \in Store
  BY <1>1, ScheduleCleanupType
<1>3. ScheduleNextAlarm(ClearRunTimeout(s)) \in Store
  BY ClearType, ScheduleNextAlarmType
<1> QED BY <1>2, <1>3, Zenon DEF FailExpiredRunIfNeeded

LEMMA AgeType ==
  ASSUME NEW s \in Store
  PROVE  Age(s) \in Store
<1>1. \A c \in Countdown : Down(c) \in Countdown
  BY DEF Countdown, Absent, Down
<1> QED BY <1>1 DEF Age, Store, JobRecord, RunTimeout, ArtifactAccess

LEMMA BeginRunType ==
  ASSUME NEW s \in Store, NEW r \in Runs, NEW task \in Task, NEW hard \in Nat
  PROVE  BeginRun(s, r, task, hard) \in Store
  BY DEF BeginRun, WriteSession, NewJob, Store, JobRecord, JobStatus, FailureClass,
         Countdown, Absent

LEMMA SettleRunType ==
  ASSUME NEW s \in Store, NEW r, NEW outcome
  PROVE  SettleRun(s, r, outcome) \in Store
<1>1. [s EXCEPT !.job.status = "succeeded"] \in Store
  BY DEF Store, JobRecord, JobStatus
<1>2. FailJob(s, "other") \in Store
  BY FailJobType DEF FailureClass
<1> QED BY <1>1, <1>2 DEF SettleRun

LEMMA CallbackFields ==
  ASSUME NEW c \in Callback
  PROVE  c.run \in Runs /\ c.kind \in CallbackKind /\ c.expiry \in Countdown
  BY StoreConstants DEF Callback, ArtifactExpiry, Countdown, Absent

LEMMA ContainerCallbackType ==
  ASSUME NEW s \in Store, NEW c \in Callback
  PROVE  ContainerCallback(s, c) \in Store
<1> DEFINE written == [s EXCEPT !.job = ApplyToRecord(@, c)]
<1>1. c.run \in Runs /\ c.kind \in CallbackKind /\ c.expiry \in Countdown
  BY CallbackFields
<1>2. StatusOf(c.kind) \in JobStatus
  BY <1>1 DEF StatusOf, CallbackKind, JobStatus
<1>3. ApplyToRecord(s.job, c) \in JobRecord
  BY <1>1, <1>2 DEF ApplyToRecord, Store, JobRecord, FailureClass
<1>4. written \in Store
  BY <1>3 DEF Store
<1>5. HardTimeoutOf(s, c.run) \in Nat
  BY DEF HardTimeoutOf, Store, RunTimeout, JobRecord
<1>6. ScheduleRunTimeout(written, c.run, HardTimeoutOf(s, c.run)) \in Store
  BY <1>1, <1>4, <1>5, ScheduleRunTimeoutType
<1>7. ClearArtifactAccessForRun(written, c.run) \in Store
  BY <1>4, ClearType
<1> QED BY <1>4, <1>6, <1>7, Zenon DEF ContainerCallback

LEMMA ReleaseRunType ==
  ASSUME NEW s \in Store, NEW r
  PROVE  ReleaseRun(s, r) \in Store
  BY ClearType, ScheduleCleanupType DEF ReleaseRun

LEMMA RunAlarmType ==
  ASSUME NEW s \in Store
  PROVE  RunAlarm(s) \in Store
<1>1. [s EXCEPT !.alarm = Absent] \in Store
  BY DEF Store, Countdown
<1> QED BY <1>1, EmptyStoreType, FailExpiredRunIfNeededType, ScheduleNextAlarmType DEF RunAlarm

-----------------------------------------------------------------------------
(***************************************************************************)
(* The inductive invariant.                                                *)
(***************************************************************************)
JobIsIdleIffNoRun == store.job.run = NoRun <=> store.job.status = "idle"

TerminalRunHasEnded == store.job.status \in Terminal => store.job.run \in ended

\* A run id in use was minted, so a new run is none of those in use.
RunsInUseAreMinted ==
  /\ {store.job.run, container.run} \subseteq minted \cup {NoRun}
  /\ \A r \in Runs : monitors[r] # "none" => r \in minted

\* A monitor settles the record before it destroys the container.
ReleasedRunHasEnded ==
  \A r \in Runs : store.job.run = r /\ monitors[r] \in {"destroying", "done"} => r \in ended

\* The hard timeout is remembered twice, in the record and in the timeout.
HardTimeoutsAgree ==
  container.run # NoRun =>
    /\ container.run = store.timeout.run => container.left <= store.timeout.hard
    /\ container.run = store.job.run => container.left <= store.job.hard

TimeoutIsBounded ==
  /\ store.timeout.run \in Runs =>
       store.timeout.hard \in HardTimeouts /\ store.timeout.left # Absent
  /\ store.job.run \in Runs => store.job.hard \in HardTimeouts
  /\ store.timeout.left <= store.timeout.hard + Grace

\* A cleanup armed during a live run leaves room for the last extension of its
\* timeout, which the last callback of its container can ask for.
CleanupHasRoom ==
  \A r \in Runs : Live(r) /\ store.cleanup # Absent =>
    /\ store.cleanup >= store.timeout.left
    /\ container.run = r => store.cleanup >= container.left + store.timeout.hard + Grace
    /\ (\E c \in callbacks : c.run = r) => store.cleanup >= store.timeout.hard + Grace

IInv ==
  /\ TypeOK
  /\ JobIsIdleIffNoRun
  /\ TerminalRunHasEnded
  /\ RunsInUseAreMinted
  /\ ReleasedRunHasEnded
  /\ LiveRunIsSupervised
  /\ AlarmCoversDeadlines
  /\ JobIsAttended
  /\ HardTimeoutsAgree
  /\ TimeoutIsBounded
  /\ ContainerDiesFirst
  /\ CleanupHasRoom

-----------------------------------------------------------------------------
(***************************************************************************)
(* What the methods of the store do to the parts the invariant speaks of.  *)
(***************************************************************************)
Covered(s) == \A due \in {s.timeout.left, s.cleanup} \ {Absent} : s.alarm \in 0..due

\* From s to t the run on record is at most given an outcome, its timeout is at
\* most dropped, and the cleanup is at most armed anew.
Settles(s, t) ==
  /\ t \in Store
  /\ Covered(s) => Covered(t)
  /\ t.job.run = s.job.run
  /\ t.job.hard = s.job.hard
  /\ t.job.status = s.job.status \/ (s.job.status = "running" /\ t.job.status \in Terminal)
  /\ t.timeout \in {s.timeout, NoTimeout}
  /\ t.cleanup \in {s.cleanup, CleanupDelay}

Supervises(s) == s.timeout.run = s.job.run /\ s.session = s.job.run

KeepsSupervision(s, t) == t.timeout = s.timeout /\ t.session = s.session

LEMMA ScheduleNextAlarmEffect ==
  ASSUME NEW s \in Store
  PROVE  /\ Covered(ScheduleNextAlarm(s))
         /\ ScheduleNextAlarm(s).job = s.job
         /\ ScheduleNextAlarm(s).session = s.session
         /\ ScheduleNextAlarm(s).timeout = s.timeout
         /\ ScheduleNextAlarm(s).cleanup = s.cleanup
  BY DEF ScheduleNextAlarm, Earliest, Covered, Store, RunTimeout, Countdown, Absent

LEMMA ScheduleCleanupEffect ==
  ASSUME NEW s \in Store
  PROVE  /\ Covered(ScheduleCleanup(s))
         /\ ScheduleCleanup(s).job = s.job
         /\ ScheduleCleanup(s).session = s.session
         /\ ScheduleCleanup(s).timeout = s.timeout
         /\ ScheduleCleanup(s).cleanup = CleanupDelay
<1> DEFINE armed == [s EXCEPT !.cleanup = CleanupDelay]
<1>1. /\ armed \in Store
      /\ armed.job = s.job
      /\ armed.session = s.session
      /\ armed.timeout = s.timeout
      /\ armed.cleanup = CleanupDelay
  BY StoreConstants DEF Store, Countdown
<1>2. ScheduleCleanup(s) = ScheduleNextAlarm(armed)
  BY DEF ScheduleCleanup
<1> HIDE DEF armed
<1> QED BY <1>1, <1>2, ScheduleNextAlarmEffect

LEMMA ClearEffect ==
  ASSUME NEW s \in Store, NEW r
  PROVE  /\ ClearRunTimeoutForRun(s, r).job = s.job
         /\ ClearRunTimeoutForRun(s, r).session = s.session
         /\ ClearRunTimeoutForRun(s, r).cleanup = s.cleanup
         /\ ClearRunTimeoutForRun(s, r).alarm = s.alarm
         /\ ClearRunTimeoutForRun(s, r).timeout =
              IF s.timeout.run = r THEN NoTimeout ELSE s.timeout
         /\ ClearSessionForRun(s, r).job = s.job
         /\ ClearSessionForRun(s, r).session = IF s.session = r THEN NoRun ELSE s.session
         /\ ClearSessionForRun(s, r).cleanup = s.cleanup
         /\ ClearSessionForRun(s, r).alarm = s.alarm
         /\ ClearSessionForRun(s, r).timeout = s.timeout
  BY DEF ClearRunTimeoutForRun, ClearRunTimeout, ClearSessionForRun, ClearArtifactAccess, Store

LEMMA FailJobEffect ==
  ASSUME NEW s \in Store, NEW class
  PROVE  /\ FailJob(s, class).job.status = "failed"
         /\ FailJob(s, class).job.run = s.job.run
         /\ FailJob(s, class).job.hard = s.job.hard
         /\ FailJob(s, class).session = s.session
         /\ FailJob(s, class).timeout = s.timeout
         /\ FailJob(s, class).cleanup = s.cleanup
         /\ FailJob(s, class).alarm = s.alarm
  BY DEF FailJob, Store, JobRecord

\* An expired timeout is dropped, or it fails the run it belongs to.
LEMMA FailExpiredRunEffect ==
  ASSUME NEW s \in Store
  PROVE  LET t == FailExpiredRunIfNeeded(s)
         IN  /\ Settles(s, t)
             /\ t.job.status = "running" /\ Supervises(s) => KeepsSupervision(s, t)
             /\ t.cleanup = s.cleanup \/ t.job.status = "failed"
<1> DEFINE r == s.timeout.run
           t == FailExpiredRunIfNeeded(s)
           failed == FailJob(s, "other")
           dropped == ClearRunTimeoutForRun(failed, r)
           closed == ClearSessionForRun(dropped, r)
           stale == ClearRunTimeout(s)
<1>1. CASE r = NoRun \/ s.timeout.left > 0
  <2>1. t = s
    BY <1>1 DEF FailExpiredRunIfNeeded
  <2> QED BY <2>1 DEF Settles, KeepsSupervision
<1>2. CASE ~(r = NoRun \/ s.timeout.left > 0) /\ (s.job.run # r \/ s.job.status # "running")
  <2>1. t = ScheduleNextAlarm(stale)
    BY <1>2 DEF FailExpiredRunIfNeeded
  <2>2. stale \in Store
    BY ClearType
  <2>3. /\ stale.job = s.job
        /\ stale.session = s.session
        /\ stale.timeout = NoTimeout
        /\ stale.cleanup = s.cleanup
    BY DEF ClearRunTimeout, Store
  <2> HIDE DEF stale
  <2>4. /\ t \in Store /\ Covered(t)
        /\ t.job = s.job /\ t.timeout = NoTimeout /\ t.cleanup = s.cleanup
    BY <2>1, <2>2, <2>3, ScheduleNextAlarmEffect, ScheduleNextAlarmType
  <2> QED BY <1>2, <2>4 DEF Settles, Supervises
<1>3. CASE ~(r = NoRun \/ s.timeout.left > 0) /\ s.job.run = r /\ s.job.status = "running"
  <2>1. t = ScheduleCleanup(closed)
    BY <1>3 DEF FailExpiredRunIfNeeded
  <2>2. failed \in Store /\ dropped \in Store /\ closed \in Store
    BY FailJobType, ClearType DEF FailureClass
  <2>3. closed.job = failed.job /\ closed.timeout = NoTimeout
    BY <2>2, ClearEffect, FailJobEffect
  <2>4. failed.job.status = "failed" /\ failed.job.run = s.job.run /\ failed.job.hard = s.job.hard
    BY FailJobEffect
  <2> HIDE DEF closed, dropped, failed
  <2>5. /\ t \in Store /\ Covered(t)
        /\ t.job = failed.job /\ t.timeout = NoTimeout /\ t.cleanup = CleanupDelay
    BY <2>1, <2>2, <2>3, ScheduleCleanupEffect, ScheduleCleanupType
  <2> QED BY <1>3, <2>4, <2>5 DEF Settles, Terminal
<1> QED BY <1>1, <1>2, <1>3

\* The continuation of a monitor leaves its own run with an outcome.
LEMMA SettleRunEffect ==
  ASSUME NEW s \in Store, NEW r, NEW outcome
  PROVE  LET t == SettleRun(s, r, outcome)
         IN  /\ Settles(s, t)
             /\ KeepsSupervision(s, t)
             /\ t.cleanup = s.cleanup
             /\ s.job.run = r => t.job.status # "running"
<1> DEFINE t == SettleRun(s, r, outcome)
           done == [s EXCEPT !.job.status = "succeeded"]
<1>1. t \in Store
  BY SettleRunType
<1>2. /\ done.job.status = "succeeded" /\ done.job.run = s.job.run /\ done.job.hard = s.job.hard
      /\ done.session = s.session /\ done.timeout = s.timeout
      /\ done.cleanup = s.cleanup /\ done.alarm = s.alarm
  BY DEF Store, JobRecord
<1>3. t \in {s, done, FailJob(s, "other")}
  BY DEF SettleRun
<1>4. t = s \/ (s.job.run = r /\ s.job.status = "running")
  BY DEF SettleRun
<1>5. s.job.run = r /\ s.job.status = "running" => t \in {done, FailJob(s, "other")}
  BY DEF SettleRun
<1> HIDE DEF t, done
<1>6. Covered(s) => Covered(t)
  BY <1>2, <1>3, FailJobEffect DEF Covered
<1> QED
  BY <1>1, <1>2, <1>3, <1>4, <1>5, <1>6, FailJobEffect DEF Settles, KeepsSupervision, Terminal, t

\* The release of a run touches no other run's timeout and session.
LEMMA ReleaseRunEffect ==
  ASSUME NEW s \in Store, NEW r
  PROVE  LET t == ReleaseRun(s, r)
         IN  /\ Settles(s, t)
             /\ t.cleanup = CleanupDelay
             /\ s.job.run # r /\ Supervises(s) => KeepsSupervision(s, t)
<1> DEFINE t == ReleaseRun(s, r)
           dropped == ClearRunTimeoutForRun(s, r)
           closed == ClearSessionForRun(dropped, r)
<1>1. dropped \in Store /\ closed \in Store
  BY ClearType
<1>2. /\ closed.job = s.job
      /\ closed.timeout = IF s.timeout.run = r THEN NoTimeout ELSE s.timeout
      /\ closed.session = IF s.session = r THEN NoRun ELSE s.session
  BY <1>1, ClearEffect
<1>3. t = ScheduleCleanup(closed)
  BY DEF ReleaseRun
<1> HIDE DEF t, closed, dropped
<1>4. /\ t \in Store /\ Covered(t) /\ t.job = closed.job /\ t.session = closed.session
      /\ t.timeout = closed.timeout /\ t.cleanup = CleanupDelay
  BY <1>1, <1>3, ScheduleCleanupType, ScheduleCleanupEffect
<1> QED BY <1>2, <1>4 DEF Settles, KeepsSupervision, Supervises, t

\* The alarm deletes everything, or it fails an expired run.
LEMMA RunAlarmEffect ==
  ASSUME NEW s \in Store
  PROVE  LET t == RunAlarm(s)
         IN  \/ s.cleanup = 0 /\ t = EmptyStore
             \/ /\ Settles(s, t)
                /\ t.job.status = "running" /\ Supervises(s) => KeepsSupervision(s, t)
                /\ t.cleanup = s.cleanup \/ t.job.status = "failed"
<1> DEFINE t == RunAlarm(s)
           fired == [s EXCEPT !.alarm = Absent]
           settled == FailExpiredRunIfNeeded(fired)
<1>1. CASE s.cleanup = 0
  BY <1>1 DEF RunAlarm
<1>2. CASE s.cleanup # 0
  <2>1. t = ScheduleNextAlarm(settled)
    BY <1>2 DEF RunAlarm
  <2>2. /\ fired \in Store /\ fired.job = s.job /\ fired.session = s.session
        /\ fired.timeout = s.timeout /\ fired.cleanup = s.cleanup
    BY DEF Store, Countdown
  <2> HIDE DEF fired
  <2>3. /\ Settles(fired, settled)
        /\ settled.job.status = "running" /\ Supervises(fired) => KeepsSupervision(fired, settled)
        /\ settled.cleanup = fired.cleanup \/ settled.job.status = "failed"
    BY <2>2, FailExpiredRunEffect
  <2>4. settled \in Store
    BY <2>3 DEF Settles
  <2> HIDE DEF settled
  <2>5. /\ t \in Store /\ Covered(t) /\ t.job = settled.job /\ t.session = settled.session
        /\ t.timeout = settled.timeout /\ t.cleanup = settled.cleanup
    BY <2>1, <2>4, ScheduleNextAlarmType, ScheduleNextAlarmEffect
  <2> HIDE DEF t
  <2>6. Settles(s, t)
    BY <2>2, <2>3, <2>5 DEF Settles
  <2> QED BY <2>2, <2>3, <2>5, <2>6 DEF KeepsSupervision, Supervises, t
<1> QED BY <1>1, <1>2

LEMMA ScheduleRunTimeoutEffect ==
  ASSUME NEW s \in Store, NEW r \in Runs, NEW hard \in Nat
  PROVE  LET t == ScheduleRunTimeout(s, r, hard)
         IN  /\ t \in Store
             /\ Covered(t)
             /\ t.job = s.job /\ t.session = s.session /\ t.cleanup = s.cleanup
             /\ t.timeout = [run |-> r, hard |-> hard, left |-> hard + Grace]
<1> DEFINE t == ScheduleRunTimeout(s, r, hard)
           timed == [s EXCEPT !.timeout = [run |-> r, hard |-> hard, left |-> hard + Grace]]
<1>1. /\ timed \in Store /\ timed.job = s.job /\ timed.session = s.session
      /\ timed.cleanup = s.cleanup
      /\ timed.timeout = [run |-> r, hard |-> hard, left |-> hard + Grace]
  BY StoreConstants DEF Store, RunTimeout, Countdown
<1>2. t = ScheduleNextAlarm(timed)
  BY DEF ScheduleRunTimeout
<1> HIDE DEF timed
<1> QED BY <1>1, <1>2, ScheduleNextAlarmEffect, ScheduleNextAlarmType

LEMMA BeginRunEffect ==
  ASSUME NEW s \in Store, NEW r \in Runs, NEW task \in Task, NEW hard \in Nat
  PROVE  LET t == BeginRun(s, r, task, hard)
         IN  /\ t \in Store
             /\ t.job.run = r /\ t.job.status = "running" /\ t.job.hard = hard
             /\ t.session = r
             /\ t.timeout = s.timeout
             /\ t.cleanup = Absent
             /\ t.alarm = s.alarm
  BY BeginRunType DEF BeginRun, WriteSession, NewJob, Store

\* A callback writes its status, and at most schedules the timeout of its run.
LEMMA ContainerCallbackEffect ==
  ASSUME NEW s \in Store, NEW c \in Callback, s.job.run = c.run
  PROVE  LET t == ContainerCallback(s, c)
             hard == HardTimeoutOf(s, c.run)
         IN  /\ t \in Store
             /\ Covered(s) => Covered(t)
             /\ t.job.run = s.job.run /\ t.job.hard = s.job.hard
             /\ t.job.status \in {"running", "succeeded", "failed"}
             /\ t.session = s.session /\ t.cleanup = s.cleanup
             /\ t.timeout \in {s.timeout, [run |-> c.run, hard |-> hard, left |-> hard + Grace]}
<1> DEFINE t == ContainerCallback(s, c)
           written == [s EXCEPT !.job = ApplyToRecord(@, c)]
           cleared == ClearArtifactAccessForRun(written, c.run)
           hard == HardTimeoutOf(s, c.run)
<1>1. c.run \in Runs /\ c.kind \in CallbackKind /\ c.expiry \in Countdown
  BY CallbackFields
<1>2. StatusOf(c.kind) \in {"running", "succeeded", "failed"}
  BY <1>1 DEF StatusOf, CallbackKind
<1>3. ApplyToRecord(s.job, c) \in JobRecord
  BY <1>1, <1>2 DEF ApplyToRecord, Store, JobRecord, FailureClass, JobStatus
<1>4. /\ written \in Store
      /\ written.session = s.session /\ written.timeout = s.timeout
      /\ written.cleanup = s.cleanup /\ written.alarm = s.alarm
      /\ written.job = ApplyToRecord(s.job, c)
  BY <1>3 DEF Store
<1>5. /\ written.job.run = s.job.run /\ written.job.hard = s.job.hard
      /\ written.job.status = StatusOf(c.kind)
  BY <1>4 DEF ApplyToRecord, Store, JobRecord
<1>6. /\ cleared \in Store /\ cleared.job = written.job /\ cleared.session = written.session
      /\ cleared.timeout = written.timeout /\ cleared.cleanup = written.cleanup
      /\ cleared.alarm = written.alarm
  BY <1>4, ClearType DEF ClearArtifactAccessForRun, ClearArtifactAccess, Store
<1>7. t \in {written, cleared, ScheduleRunTimeout(written, c.run, hard)}
  BY DEF ContainerCallback
<1>8. hard \in Nat
  BY DEF HardTimeoutOf, Store, RunTimeout, JobRecord
<1> HIDE DEF written, cleared, hard, t
<1>9. CASE t \in {written, cleared}
  <2>1. Covered(s) => Covered(t)
    BY <1>4, <1>6, <1>9 DEF Covered
  <2> QED BY <1>2, <1>4, <1>5, <1>6, <1>9, <2>1 DEF t, hard
<1>10. CASE t = ScheduleRunTimeout(written, c.run, hard)
  BY <1>1, <1>2, <1>4, <1>5, <1>8, <1>10, ScheduleRunTimeoutEffect DEF t, hard
<1> QED BY <1>7, <1>9, <1>10

-----------------------------------------------------------------------------
(***************************************************************************)
(* The steps preserve the inductive invariant.                             *)
(***************************************************************************)
LEMMA CoveredIsInvariant == AlarmCoversDeadlines <=> Covered(store)
  BY DEF AlarmCoversDeadlines, Covered

LEMMA NoContainerType == NoContainer \in Container
  BY StoreConstants DEF NoContainer, Container, ArtifactExpiry, Absent, Task

LEMMA InitIInv == Init => IInv
<1> SUFFICES ASSUME Init PROVE IInv
  OBVIOUS
<1>1. TypeOK
  BY EmptyStoreType, NoContainerType DEF Init, TypeOK, MonitorState
<1> USE DEF Init, EmptyStore, NoJob, NoTimeout, NoContainer
<1>2. JobIsIdleIffNoRun /\ TerminalRunHasEnded /\ RunsInUseAreMinted /\ ReleasedRunHasEnded
  BY StoreConstants
     DEF JobIsIdleIffNoRun, TerminalRunHasEnded, Terminal, RunsInUseAreMinted, ReleasedRunHasEnded
<1>3. LiveRunIsSupervised /\ AlarmCoversDeadlines /\ JobIsAttended
  BY StoreConstants DEF LiveRunIsSupervised, Live, AlarmCoversDeadlines, Absent, JobIsAttended
<1>4. HardTimeoutsAgree /\ TimeoutIsBounded /\ ContainerDiesFirst /\ CleanupHasRoom
  BY StoreConstants
     DEF HardTimeoutsAgree, TimeoutIsBounded, Absent, ContainerDiesFirst, CleanupHasRoom, Live
<1> QED BY <1>1, <1>2, <1>3, <1>4 DEF IInv

\* What monitors may do in a step that settles the record.
MonitorsAdvance ==
  /\ monitors' \in [Runs -> MonitorState]
  /\ \A r \in Runs :
       /\ monitors'[r] = "none" <=> monitors[r] = "none"
       /\ monitors'[r] \in {"destroying", "done"} /\ store.job.run = r
            => monitors[r] \in {"destroying", "done"} \/ store'.job.status # "running"
       /\ monitors[r] \in Pending \cup {"lost"} /\ store.job.run = r
            => monitors'[r] \in Pending \cup {"lost"} \/ store'.cleanup # Absent

\* What the container may do in such a step: go on, serve the artifact, or end.
ContainerAdvances ==
  /\ container' \in Container
  /\ container'.run \in {container.run, NoRun}
  /\ container'.run # NoRun => container'.left = container.left

\* Every step that starts no run and applies no callback: it may give an
\* outcome, release an older run, arm the cleanup or stop the container.
LEMMA SettlingStep ==
  ASSUME IInv, History,
         Settles(store, store'),
         store'.job.status = "running" /\ Supervises(store) /\ store.job.run \notin ended
           => KeepsSupervision(store, store'),
         MonitorsAdvance,
         ContainerAdvances,
         callbacks' \subseteq callbacks,
         starts' \in Nat, restarts' \in Nat, minted' = minted
  PROVE  IInv'
<1> USE DEF IInv
<1>0. /\ store \in Store /\ store' \in Store
      /\ store'.job.run = store.job.run /\ store'.job.hard = store.job.hard
      /\ store'.job.status = store.job.status
           \/ (store.job.status = "running" /\ store'.job.status \in Terminal)
      /\ store'.timeout \in {store.timeout, NoTimeout}
      /\ store'.cleanup \in {store.cleanup, CleanupDelay}
  BY DEF Settles, TypeOK
<1>1. TypeOK'
  <2>1. ended' \subseteq Runs
    BY <1>0 DEF TypeOK, History, EndedRuns, JobIsIdleIffNoRun, Store, JobRecord, Terminal
  <2> QED BY <1>0, <2>1 DEF TypeOK, MonitorsAdvance, ContainerAdvances
<1>2. JobIsIdleIffNoRun'
  BY <1>0 DEF JobIsIdleIffNoRun, Terminal
<1>3. TerminalRunHasEnded'
  BY DEF TerminalRunHasEnded, History, EndedRuns
<1>4. RunsInUseAreMinted'
  BY <1>0 DEF RunsInUseAreMinted, MonitorsAdvance, ContainerAdvances
<1>5. ReleasedRunHasEnded'
  <2> SUFFICES ASSUME NEW r \in Runs, store'.job.run = r, monitors'[r] \in {"destroying", "done"}
               PROVE  r \in ended'
    BY DEF ReleasedRunHasEnded
  <2>1. CASE monitors[r] \in {"destroying", "done"}
    BY <1>0, <2>1 DEF ReleasedRunHasEnded, History
  <2>2. CASE store'.job.status # "running"
    <3>1. store'.job.status \in Terminal
      BY <1>0, <1>2, <2>2, StoreConstants
         DEF JobIsIdleIffNoRun, Store, JobRecord, JobStatus, Terminal
    <3> QED BY <1>3, <3>1 DEF TerminalRunHasEnded
  <2> QED BY <1>0, <2>1, <2>2 DEF MonitorsAdvance
<1>6. \A r \in Runs : Live(r)' => Live(r)
  BY <1>0 DEF Live, History, Terminal
<1>7. \A r \in Runs : Live(r) /\ Live(r)' => KeepsSupervision(store, store')
  BY DEF Live, LiveRunIsSupervised, Supervises
<1>8. LiveRunIsSupervised'
  <2> SUFFICES ASSUME NEW r \in Runs, Live(r)'
               PROVE  /\ store'.timeout.run = r
                      /\ store'.session = r
                      /\ container'.run \in {r, NoRun}
    BY DEF LiveRunIsSupervised
  <2> QED BY <1>6, <1>7 DEF LiveRunIsSupervised, KeepsSupervision, ContainerAdvances
<1>9. AlarmCoversDeadlines'
  BY DEF Settles, AlarmCoversDeadlines, Covered
<1>10. JobIsAttended'
  <2> SUFFICES ASSUME NEW r \in Runs, store'.job.run = r
               PROVE  monitors'[r] \in Pending \cup {"lost"} \/ store'.cleanup # Absent
    BY DEF JobIsAttended
  <2> QED BY <1>0, StoreConstants DEF JobIsAttended, MonitorsAdvance, Absent
<1>11. HardTimeoutsAgree'
  BY <1>0, StoreConstants DEF HardTimeoutsAgree, ContainerAdvances, NoTimeout
<1>12. TimeoutIsBounded'
  BY <1>0, StoreConstants DEF TimeoutIsBounded, NoTimeout, Absent
<1>13. ContainerDiesFirst'
  BY <1>0, StoreConstants DEF ContainerDiesFirst, ContainerAdvances, NoTimeout
<1>14. CleanupHasRoom'
  <2> SUFFICES ASSUME NEW r \in Runs, Live(r)', store'.cleanup # Absent
               PROVE  /\ store'.cleanup >= store'.timeout.left
                      /\ container'.run = r =>
                           store'.cleanup >= container'.left + store'.timeout.hard + Grace
                      /\ (\E c \in callbacks' : c.run = r) =>
                           store'.cleanup >= store'.timeout.hard + Grace
    BY DEF CleanupHasRoom
  <2>1. Live(r) /\ store'.timeout = store.timeout /\ store.timeout.run = r
    BY <1>6, <1>7 DEF KeepsSupervision, LiveRunIsSupervised
  <2>2. container'.run = r => container.run = r /\ container'.left = container.left
    BY StoreConstants DEF ContainerAdvances
  <2>3. CASE store'.cleanup = store.cleanup
    BY <2>1, <2>2, <2>3 DEF CleanupHasRoom
  <2>4. CASE store'.cleanup = CleanupDelay
    <3> DEFINE hard == store.timeout.hard
    <3>1. hard \in HardTimeouts /\ hard \in Nat /\ CleanupDelay \in Nat /\ Grace \in Nat
      BY <2>1, StoreConstants DEF TimeoutIsBounded
    <3>2. CleanupDelay >= 2 * hard + Grace
      BY <3>1, CleanupOutlastsRuns
    <3>3. container.run = r => container.left <= hard /\ container.left \in Nat
      BY <2>1, StoreConstants DEF HardTimeoutsAgree, TypeOK, Container
    <3>4. store.timeout.left <= hard + Grace /\ store.timeout.left \in Int
      BY DEF TimeoutIsBounded, TypeOK, Store, RunTimeout, Countdown, Absent
    <3> QED BY <2>1, <2>2, <2>4, <3>1, <3>2, <3>3, <3>4
  <2> QED BY <1>0, <2>3, <2>4
<1> QED
  BY <1>1, <1>2, <1>3, <1>4, <1>5, <1>8, <1>9, <1>10, <1>11, <1>12, <1>13, <1>14

\* A start replaces the record by one of a run id that nothing else uses.
LEMMA StartStep ==
  ASSUME IInv, History, NEW r \in Runs, NEW task \in Task \ {"none"}, NEW hard \in HardTimeouts,
         StartRun(r, task, hard)
  PROVE  IInv'
<1> USE DEF IInv
<1> DEFINE begun == BeginRun(store, r, task, hard)
<1>1. hard \in Nat /\ hard > 0 /\ Grace \in Nat /\ Grace > 0
  BY StoreConstants
<1>2. /\ r \notin minted /\ r # NoRun /\ minted' = minted \cup {r}
      /\ starts' \in Nat /\ callbacks' = callbacks /\ restarts' = restarts
      /\ store.job.run # r /\ container.run # r /\ monitors[r] = "none"
  BY StoreConstants DEF StartRun, TypeOK, RunsInUseAreMinted
<1>3. /\ begun \in Store /\ begun.job.run = r /\ begun.job.status = "running"
      /\ begun.job.hard = hard /\ begun.session = r /\ begun.timeout = store.timeout
      /\ begun.cleanup = Absent
  BY <1>1, BeginRunEffect DEF TypeOK
<1>4. ended' = ended \cup EndedRuns(store')
  BY DEF History
<1>5. CASE /\ container = NoContainer
           /\ store' = ScheduleRunTimeout(begun, r, hard)
           /\ container' = [run |-> r, task |-> task, left |-> hard, expiry |-> Absent]
           /\ monitors' = [monitors EXCEPT ![r] = "watching"]
  <2> HIDE DEF begun
  <2>1. /\ store' \in Store /\ Covered(store') /\ store'.job.run = r
        /\ store'.job.status = "running" /\ store'.job.hard = hard
        /\ store'.session = r /\ store'.cleanup = Absent
        /\ store'.timeout = [run |-> r, hard |-> hard, left |-> hard + Grace]
    BY <1>1, <1>3, <1>5, ScheduleRunTimeoutEffect
  <2>2. container'.run = r /\ container'.left = hard /\ container' \in Container
    BY <1>1, <1>5, StoreConstants DEF Container, ArtifactExpiry, Absent
  <2>3. monitors' \in [Runs -> MonitorState] /\ monitors'[r] = "watching"
    BY <1>5 DEF TypeOK, MonitorState
  <2>4. \A q \in Runs \ {r} : monitors'[q] = monitors[q]
    BY <1>5 DEF TypeOK
  <2>5. TypeOK'
    BY <1>2, <1>4, <2>1, <2>2, <2>3 DEF TypeOK, EndedRuns, Terminal
  <2>6. JobIsIdleIffNoRun' /\ TerminalRunHasEnded' /\ LiveRunIsSupervised'
    BY <1>2, <2>1, <2>2 DEF JobIsIdleIffNoRun, TerminalRunHasEnded, Terminal,
                            LiveRunIsSupervised, Live
  <2>7. RunsInUseAreMinted' /\ ReleasedRunHasEnded' /\ JobIsAttended'
    BY <1>2, <2>1, <2>2, <2>3, <2>4
       DEF RunsInUseAreMinted, ReleasedRunHasEnded, JobIsAttended, Pending
  <2>8. AlarmCoversDeadlines'
    BY <2>1 DEF AlarmCoversDeadlines, Covered
  <2>9. HardTimeoutsAgree' /\ TimeoutIsBounded' /\ ContainerDiesFirst' /\ CleanupHasRoom'
    BY <1>1, <2>1, <2>2
       DEF HardTimeoutsAgree, TimeoutIsBounded, ContainerDiesFirst, CleanupHasRoom, Absent
  <2> QED BY <2>5, <2>6, <2>7, <2>8, <2>9
<1>6. CASE /\ store' = ScheduleCleanup(FailJob(begun, "other"))
           /\ UNCHANGED <<container, monitors>>
  <2> DEFINE failed == FailJob(begun, "other")
  <2>1. /\ failed \in Store /\ failed.job.status = "failed" /\ failed.job.run = r
        /\ failed.job.hard = hard /\ failed.timeout = store.timeout
    BY <1>3, FailJobType, FailJobEffect DEF FailureClass
  <2> HIDE DEF begun, failed
  <2>2. /\ store' \in Store /\ Covered(store') /\ store'.job.run = r
        /\ store'.job.status = "failed" /\ store'.job.hard = hard
        /\ store'.timeout = store.timeout /\ store'.cleanup = CleanupDelay
    BY <1>6, <2>1, ScheduleCleanupType, ScheduleCleanupEffect DEF failed
  <2>3. TypeOK'
    BY <1>2, <1>4, <1>6, <2>2 DEF TypeOK, EndedRuns
  <2>4. JobIsIdleIffNoRun' /\ TerminalRunHasEnded' /\ LiveRunIsSupervised' /\ CleanupHasRoom'
    BY <1>2, <1>4, <2>2 DEF JobIsIdleIffNoRun, TerminalRunHasEnded, Terminal, EndedRuns,
                            LiveRunIsSupervised, CleanupHasRoom, Live
  <2>5. RunsInUseAreMinted' /\ ReleasedRunHasEnded' /\ JobIsAttended'
    BY <1>2, <1>6, <2>2, StoreConstants
       DEF RunsInUseAreMinted, ReleasedRunHasEnded, JobIsAttended, Absent
  <2>6. AlarmCoversDeadlines'
    BY <2>2 DEF AlarmCoversDeadlines, Covered
  <2>7. HardTimeoutsAgree' /\ TimeoutIsBounded' /\ ContainerDiesFirst'
    BY <1>2, <1>6, <2>2 DEF HardTimeoutsAgree, TimeoutIsBounded, ContainerDiesFirst
  <2> QED BY <2>3, <2>4, <2>5, <2>6, <2>7
<1> QED BY <1>5, <1>6 DEF StartRun

LEMMA CallbackArrivesStep ==
  ASSUME IInv, History, NEW kind \in CallbackKind, CallbackArrives(kind)
  PROVE  IInv'
<1> USE DEF IInv, CallbackArrives
<1>1. ended' = ended
  BY DEF History, EndedRuns, TerminalRunHasEnded
<1>2. TypeOK'
  <2>1. CallbackOf(container, kind) \in Callback
    BY StoreConstants DEF CallbackOf, TypeOK, Callback, Container, ArtifactExpiry, Absent
  <2> QED BY <1>1, <2>1 DEF TypeOK
<1>3. JobIsIdleIffNoRun' /\ TerminalRunHasEnded' /\ RunsInUseAreMinted' /\ ReleasedRunHasEnded'
  BY <1>1 DEF JobIsIdleIffNoRun, TerminalRunHasEnded, RunsInUseAreMinted, ReleasedRunHasEnded
<1>4. LiveRunIsSupervised' /\ AlarmCoversDeadlines' /\ JobIsAttended'
  BY <1>1 DEF LiveRunIsSupervised, Live, AlarmCoversDeadlines, JobIsAttended
<1>5. HardTimeoutsAgree' /\ TimeoutIsBounded' /\ ContainerDiesFirst'
  BY DEF HardTimeoutsAgree, TimeoutIsBounded, ContainerDiesFirst
<1>6. CleanupHasRoom'
  <2> SUFFICES ASSUME NEW r \in Runs, Live(r)', store.cleanup # Absent,
                      NEW c \in callbacks', c.run = r
               PROVE  store.cleanup >= store.timeout.hard + Grace
    BY <1>1 DEF CleanupHasRoom, Live
  <2>1. Live(r)
    BY <1>1 DEF Live
  <2>2. CASE c \in callbacks
    BY <2>1, <2>2 DEF CleanupHasRoom
  <2>3. CASE c = CallbackOf(container, kind)
    <3>0. container.run = r
      BY <2>3 DEF CallbackOf
    <3>1. store.cleanup >= container.left + store.timeout.hard + Grace
      BY <2>1, <3>0 DEF CleanupHasRoom
    <3>2. /\ container.left \in Nat /\ store.timeout.hard \in Nat /\ store.cleanup \in Int
          /\ Grace \in Nat
      BY StoreConstants DEF TypeOK, Container, Store, RunTimeout, Countdown, Absent
    <3> QED BY <3>1, <3>2
  <2> QED BY <2>2, <2>3
<1> QED BY <1>2, <1>3, <1>4, <1>5, <1>6

\* A callback can change the outcome of a run, and set its timeout once more.
LEMMA CallbackAppliesStep ==
  ASSUME IInv, History, NEW c \in callbacks, CallbackApplies(c)
  PROVE  IInv'
<1> USE DEF IInv
<1> DEFINE r == c.run
           hard == HardTimeoutOf(store, r)
<1>1. /\ callbacks' \subseteq callbacks /\ container' = container /\ monitors' = monitors
      /\ starts' = starts /\ minted' = minted /\ restarts' = restarts
      /\ ended' = ended \cup EndedRuns(store')
      /\ store' = ContainerCallback(store, c)
      /\ ContainerAdvances
  BY DEF CallbackApplies, History, ContainerAdvances, TypeOK
<1>2. c \in Callback /\ r \in Runs /\ store \in Store
  BY DEF TypeOK, Callback
<1>3. CASE store.job.run # r
  <2>1. store' = store
    BY <1>1, <1>3 DEF ContainerCallback
  <2>2. Settles(store, store') /\ KeepsSupervision(store, store')
    BY <1>2, <2>1 DEF Settles, KeepsSupervision
  <2>3. MonitorsAdvance
    BY <1>1 DEF MonitorsAdvance, TypeOK
  <2> QED BY <1>1, <2>2, <2>3, SettlingStep DEF TypeOK
<1>4. CASE store.job.run = r
  <2>1. /\ store' \in Store
        /\ Covered(store) => Covered(store')
        /\ store'.job.run = r /\ store'.job.hard = store.job.hard
        /\ store'.job.status \in {"running", "succeeded", "failed"}
        /\ store'.session = store.session /\ store'.cleanup = store.cleanup
        /\ store'.timeout \in {store.timeout, [run |-> r, hard |-> hard, left |-> hard + Grace]}
    BY <1>1, <1>2, <1>4, ContainerCallbackEffect
  <2>2. hard \in HardTimeouts /\ hard \in Nat /\ Grace \in Nat
    BY <1>2, <1>4, StoreConstants DEF HardTimeoutOf, TimeoutIsBounded
  <2>3. store.timeout.run = r => hard = store.timeout.hard
    BY DEF HardTimeoutOf
  <2>4. store.timeout.run # r => hard = store.job.hard
    BY DEF HardTimeoutOf
  <2> HIDE DEF hard
  <2>5. \A q \in Runs : Live(q)' => Live(q)
    BY <1>1, <1>2, <1>4, <2>1, StoreConstants
       DEF Live, TerminalRunHasEnded, JobIsIdleIffNoRun, Store, JobRecord, JobStatus, Terminal
  <2>6. TypeOK'
    BY <1>1, <1>2, <2>1 DEF TypeOK, EndedRuns
  <2>7. JobIsIdleIffNoRun' /\ TerminalRunHasEnded' /\ RunsInUseAreMinted' /\ ReleasedRunHasEnded'
    BY <1>1, <1>2, <1>4, <2>1, StoreConstants
       DEF JobIsIdleIffNoRun, TerminalRunHasEnded, RunsInUseAreMinted, ReleasedRunHasEnded,
           EndedRuns
  <2>8. LiveRunIsSupervised'
    <3> SUFFICES ASSUME NEW q \in Runs, Live(q)'
                 PROVE  /\ store'.timeout.run = q
                        /\ store'.session = q
                        /\ container'.run \in {q, NoRun}
      BY DEF LiveRunIsSupervised
    <3>1. q = r /\ Live(q)
      BY <2>1, <2>5 DEF Live
    <3> QED BY <1>1, <2>1, <3>1 DEF LiveRunIsSupervised
  <2>9. AlarmCoversDeadlines' /\ JobIsAttended'
    BY <1>1, <1>4, <2>1 DEF AlarmCoversDeadlines, Covered, JobIsAttended
  <2>10. HardTimeoutsAgree'
    BY <1>1, <1>4, <2>1, <2>3, <2>4 DEF HardTimeoutsAgree
  <2>11. TimeoutIsBounded'
    BY <1>4, <2>1, <2>2 DEF TimeoutIsBounded, Absent
  <2>12. ContainerDiesFirst'
    <3>1. container.run = r /\ r # NoRun => container.left <= hard /\ container.left \in Nat
      BY <1>4, <2>3, <2>4 DEF HardTimeoutsAgree, TypeOK, Container
    <3> QED BY <1>1, <1>2, <2>1, <2>2, <3>1, StoreConstants DEF ContainerDiesFirst
  <2>13. CleanupHasRoom'
    <3> SUFFICES ASSUME NEW q \in Runs, Live(q)', store'.cleanup # Absent
                 PROVE  /\ store'.cleanup >= store'.timeout.left
                        /\ container'.run = q =>
                             store'.cleanup >= container'.left + store'.timeout.hard + Grace
                        /\ (\E d \in callbacks' : d.run = q) =>
                             store'.cleanup >= store'.timeout.hard + Grace
      BY DEF CleanupHasRoom
    <3>1. q = r /\ Live(r) /\ store.timeout.run = r /\ hard = store.timeout.hard
      BY <1>2, <2>1, <2>3, <2>5 DEF Live, LiveRunIsSupervised
    <3>2. store.cleanup >= hard + Grace
      BY <2>1, <3>1 DEF CleanupHasRoom
    <3>3. store'.timeout.hard = store.timeout.hard
      BY <2>1, <3>1
    <3> QED BY <1>1, <2>1, <3>1, <3>2, <3>3 DEF CleanupHasRoom
  <2> QED BY <2>6, <2>7, <2>8, <2>9, <2>10, <2>11, <2>12, <2>13
<1> QED BY <1>3, <1>4

LEMMA AlarmStep ==
  ASSUME IInv, History, Alarm
  PROVE  IInv'
<1> USE DEF IInv
<1>1. /\ container' = container /\ starts' = starts /\ callbacks' = callbacks
      /\ monitors' = monitors /\ minted' = minted /\ restarts' = restarts
      /\ store' = RunAlarm(store) /\ store \in Store
      /\ ended' = ended \cup EndedRuns(store')
      /\ ContainerAdvances
  BY DEF Alarm, volatile, TypeOK, History, ContainerAdvances
<1>2. CASE /\ Settles(store, store')
           /\ store'.job.status = "running" /\ Supervises(store)
                => KeepsSupervision(store, store')
  <2>1. MonitorsAdvance
    BY <1>1 DEF MonitorsAdvance, TypeOK
  <2> QED BY <1>1, <1>2, <2>1, SettlingStep DEF TypeOK
<1>3. CASE store' = EmptyStore
  <2>1. /\ store'.job.run = NoRun /\ store'.job.status = "idle" /\ store'.timeout = NoTimeout
        /\ store'.cleanup = Absent /\ store' \in Store
    BY <1>3, EmptyStoreType DEF EmptyStore, NoJob
  <2>2. \A r \in Runs : ~Live(r)'
    BY <2>1 DEF Live
  <2>3. TypeOK' /\ JobIsIdleIffNoRun' /\ TerminalRunHasEnded' /\ RunsInUseAreMinted'
    BY <1>1, <2>1 DEF TypeOK, EndedRuns, Terminal, JobIsIdleIffNoRun, TerminalRunHasEnded,
                      RunsInUseAreMinted
  <2>4. ReleasedRunHasEnded' /\ LiveRunIsSupervised' /\ AlarmCoversDeadlines' /\ JobIsAttended'
    BY <1>1, <2>1, <2>2, StoreConstants
       DEF ReleasedRunHasEnded, LiveRunIsSupervised, AlarmCoversDeadlines, JobIsAttended,
           NoTimeout, Absent
  <2>5. HardTimeoutsAgree' /\ TimeoutIsBounded' /\ ContainerDiesFirst' /\ CleanupHasRoom'
    BY <1>1, <2>1, <2>2, StoreConstants
       DEF HardTimeoutsAgree, TimeoutIsBounded, ContainerDiesFirst, CleanupHasRoom, NoTimeout,
           Absent
  <2> QED BY <2>3, <2>4, <2>5
<1> QED BY <1>1, <1>2, <1>3, RunAlarmEffect

LEMMA AgeEffect ==
  ASSUME NEW s \in Store
  PROVE  /\ Age(s).job.run = s.job.run
         /\ Age(s).job.status = s.job.status
         /\ Age(s).job.hard = s.job.hard
         /\ Age(s).session = s.session
         /\ Age(s).timeout.run = s.timeout.run
         /\ Age(s).timeout.hard = s.timeout.hard
         /\ Age(s).timeout.left = Down(s.timeout.left)
         /\ Age(s).cleanup = Down(s.cleanup)
         /\ Age(s).alarm = Down(s.alarm)
  BY DEF Age, Store, JobRecord, RunTimeout

LEMMA DownIsMonotone ==
  ASSUME NEW a \in Countdown, NEW due \in Countdown
  PROVE  /\ Down(due) = Absent <=> due = Absent
         /\ due # Absent /\ a \in 0..due => Down(a) \in 0..Down(due)
  BY DEF Down, Countdown, Absent

\* Every deadline and the container come one tick closer, none overtakes another.
LEMMA TickStep ==
  ASSUME IInv, History, Tick
  PROVE  IInv'
<1> USE DEF IInv
<1>1. /\ starts' = starts /\ callbacks' = {} /\ monitors' = monitors
      /\ minted' = minted /\ restarts' = restarts /\ callbacks = {}
  BY DEF Tick
<1>2. /\ container' \in Container /\ container'.run = container.run
      /\ container.left \in Nat
      /\ container.run # NoRun => container.left > 0 /\ container'.left = container.left - 1
  <2>1. /\ container \in Container
        /\ container # NoContainer => container.left > 0
        /\ container' = [container EXCEPT !.left = Down(@), !.expiry = Down(@)]
    BY DEF Tick, TypeOK
  <2>2. \A x \in ArtifactExpiry : Down(x) \in ArtifactExpiry
    BY StoreConstants DEF ArtifactExpiry, Down, Absent
  <2>3. Down(container.left) \in Nat
    BY <2>1 DEF Container, Down
  <2>4. container' \in Container /\ container'.run = container.run
        /\ container'.left = Down(container.left) /\ container.left \in Nat
    BY <2>1, <2>2, <2>3 DEF Container
  <2> QED BY <2>1, <2>4 DEF Down, NoContainer
<1>3. /\ store'.job.run = store.job.run /\ store'.job.status = store.job.status
      /\ store'.job.hard = store.job.hard
      /\ store'.session = store.session /\ store'.timeout.run = store.timeout.run
      /\ store'.timeout.hard = store.timeout.hard
      /\ store'.timeout.left = Down(store.timeout.left)
      /\ store'.cleanup = Down(store.cleanup) /\ store'.alarm = Down(store.alarm)
      /\ store' \in Store
  BY AgeEffect, AgeType DEF Tick, TypeOK
<1>4. ended' = ended
  BY <1>3 DEF History, EndedRuns, TerminalRunHasEnded
<1>5. /\ store.timeout.left \in Countdown /\ store.cleanup \in Countdown
      /\ store.alarm \in Countdown /\ store.timeout.hard \in Nat
      /\ Grace \in Nat /\ Grace > 0
  BY StoreConstants DEF TypeOK, Store, RunTimeout
<1>6. \A r \in Runs : Live(r)' <=> Live(r)
  BY <1>3, <1>4 DEF Live
<1>7. TypeOK' /\ JobIsIdleIffNoRun' /\ TerminalRunHasEnded' /\ RunsInUseAreMinted'
  BY <1>1, <1>2, <1>3, <1>4
     DEF TypeOK, JobIsIdleIffNoRun, TerminalRunHasEnded, RunsInUseAreMinted
<1>8. ReleasedRunHasEnded' /\ LiveRunIsSupervised'
  BY <1>1, <1>2, <1>3, <1>4, <1>6 DEF ReleasedRunHasEnded, LiveRunIsSupervised
<1>9. AlarmCoversDeadlines'
  <2>1. \A due \in {store.timeout.left, store.cleanup} :
           /\ Down(due) # Absent => due # Absent
           /\ due # Absent => Down(store.alarm) \in 0..Down(due)
    BY <1>5, DownIsMonotone DEF AlarmCoversDeadlines
  <2> QED BY <1>3, <2>1 DEF AlarmCoversDeadlines
<1>10. JobIsAttended'
  BY <1>1, <1>3, <1>5 DEF JobIsAttended, Down, Countdown, Absent
<1>11. HardTimeoutsAgree' /\ TimeoutIsBounded'
  <2>1. HardTimeoutsAgree'
    <3>1. store.job.hard \in Nat
      BY DEF TypeOK, Store, JobRecord
    <3> QED BY <1>2, <1>3, <1>5, <3>1 DEF HardTimeoutsAgree
  <2>2. TimeoutIsBounded'
    BY <1>3, <1>5 DEF TimeoutIsBounded, Down, Countdown, Absent
  <2> QED BY <2>1, <2>2
<1>12. ContainerDiesFirst'
  <2> SUFFICES ASSUME container.run # NoRun, container.run = store.timeout.run
               PROVE  Down(store.timeout.left) >= container'.left + Grace
    BY <1>2, <1>3 DEF ContainerDiesFirst
  <2>1. store.timeout.left >= container.left + Grace
    BY DEF ContainerDiesFirst
  <2> QED BY <1>2, <1>5, <2>1 DEF Down, Countdown, Absent
<1>13. CleanupHasRoom'
  <2> SUFFICES ASSUME NEW r \in Runs, Live(r), Down(store.cleanup) # Absent
               PROVE  /\ Down(store.cleanup) >= Down(store.timeout.left)
                      /\ container'.run = r =>
                           Down(store.cleanup) >= container'.left + store.timeout.hard + Grace
    BY <1>1, <1>3, <1>6 DEF CleanupHasRoom
  <2>1. store.cleanup # Absent
    BY DEF Down, Absent
  <2>2. store.cleanup >= store.timeout.left
    BY <2>1 DEF CleanupHasRoom
  <2>3. container.run = r => store.cleanup >= container.left + store.timeout.hard + Grace
    BY <2>1 DEF CleanupHasRoom
  <2> QED BY <1>2, <1>5, <2>1, <2>2, <2>3, StoreConstants DEF Down, Countdown, Absent
<1> QED BY <1>7, <1>8, <1>9, <1>10, <1>11, <1>12, <1>13

\* The steps of SettlingStep: requests, the end of a container, its monitor.
SettlingActions ==
  \/ ReadStatus \/ StartArrives \/ StartRejected \/ ContainerListens \/ ContainerExits
  \/ Restart
  \/ \E r \in Runs : MonitorSettles(r) \/ MonitorFinishes(r)

\* What SettlingStep and the theorems need to know of them.
LEMMA SettlingActionsSettle ==
  ASSUME IInv, SettlingActions
  PROVE  /\ Settles(store, store')
         /\ store'.job.status = "running" /\ Supervises(store) /\ store.job.run \notin ended
              => KeepsSupervision(store, store')
         /\ MonitorsAdvance
         /\ ContainerAdvances
         /\ callbacks' \subseteq callbacks
         /\ starts' \in Nat /\ restarts' \in Nat /\ minted' = minted
<1> USE DEF IInv
<1>1. store \in Store /\ starts \in Nat /\ restarts \in Nat /\ monitors \in [Runs -> MonitorState]
  BY DEF TypeOK
<1>2. Settles(store, store) /\ KeepsSupervision(store, store)
  BY <1>1 DEF Settles, KeepsSupervision
<1>0. container' \in {container, NoContainer} => ContainerAdvances
  BY NoContainerType DEF ContainerAdvances, TypeOK, NoContainer
<1>3. CASE ReadStatus \/ StartArrives
  <2>1. /\ store' = FailExpiredRunIfNeeded(store) /\ monitors' = monitors
        /\ container' = container /\ callbacks' = callbacks
        /\ starts' \in Nat /\ restarts' \in Nat /\ minted' = minted
    BY <1>1, <1>3 DEF ReadStatus, StartArrives, volatile
  <2> QED BY <1>0, <1>1, <2>1, FailExpiredRunEffect DEF MonitorsAdvance
<1>4. CASE StartRejected
  BY <1>0, <1>1, <1>2, <1>4 DEF StartRejected, MonitorsAdvance
<1>9. CASE ContainerListens
  <2>1. ContainerAdvances
    BY <1>9, StoreConstants
       DEF ContainerListens, ContainerAdvances, TypeOK, Container, ArtifactExpiry, Absent
  <2> QED BY <1>1, <1>2, <1>9, <2>1 DEF ContainerListens, MonitorsAdvance
<1>5. CASE ContainerExits
  <2>1. PICK outcome \in {"resolved", "rejected"} :
          monitors' = [r \in Runs |->
                         IF r = container.run /\ monitors[r] = "watching"
                         THEN outcome ELSE monitors[r]]
    BY <1>5 DEF ContainerExits, StopContainer
  <2>2. MonitorsAdvance
    BY <1>1, <2>1 DEF MonitorsAdvance, MonitorState, Pending
  <2> QED BY <1>0, <1>1, <1>2, <1>5, <2>2 DEF ContainerExits, StopContainer
<1>6. CASE Restart
  <2>1. MonitorsAdvance
    BY <1>1, <1>6 DEF Restart, MonitorsAdvance, MonitorState, Pending
  <2> QED BY <1>0, <1>1, <1>2, <1>6, <2>1 DEF Restart
<1>7. ASSUME NEW r \in Runs, MonitorSettles(r)
      PROVE  /\ Settles(store, store')
             /\ KeepsSupervision(store, store')
             /\ MonitorsAdvance
             /\ ContainerAdvances
             /\ callbacks' \subseteq callbacks
             /\ starts' \in Nat /\ restarts' \in Nat /\ minted' = minted
  <2>1. PICK outcome \in {"resolved", "rejected"} :
          monitors' = [q \in Runs |->
                         IF q = r THEN "destroying"
                         ELSE IF q = container.run /\ monitors[q] = "watching" THEN outcome
                         ELSE monitors[q]]
    BY <1>7 DEF MonitorSettles
  <2>2. /\ Settles(store, store') /\ KeepsSupervision(store, store')
        /\ store.job.run = r => store'.job.status # "running"
    BY <1>1, <1>7, SettleRunEffect DEF MonitorSettles
  <2>3. MonitorsAdvance
    BY <1>1, <1>7, <2>1, <2>2 DEF MonitorSettles, MonitorsAdvance, MonitorState, Pending
  <2> QED BY <1>0, <1>1, <1>7, <2>2, <2>3 DEF MonitorSettles
<1>8. ASSUME NEW r \in Runs, MonitorFinishes(r)
      PROVE  /\ Settles(store, store')
             /\ Supervises(store) /\ store.job.run \notin ended => KeepsSupervision(store, store')
             /\ MonitorsAdvance
             /\ ContainerAdvances
             /\ callbacks' \subseteq callbacks
             /\ starts' \in Nat /\ restarts' \in Nat /\ minted' = minted
  <2>1. /\ Settles(store, store') /\ store'.cleanup = CleanupDelay
        /\ store.job.run # r /\ Supervises(store) => KeepsSupervision(store, store')
    BY <1>1, <1>8, ReleaseRunEffect DEF MonitorFinishes
  <2>2. store.job.run = r => store.job.run \in ended
    BY <1>8 DEF MonitorFinishes, ReleasedRunHasEnded
  <2>3. MonitorsAdvance
    BY <1>1, <1>8, <2>1, StoreConstants
       DEF MonitorFinishes, MonitorsAdvance, MonitorState, Pending, Absent
  <2> QED BY <1>0, <1>1, <1>8, <2>1, <2>2, <2>3 DEF MonitorFinishes
<1> QED BY <1>3, <1>4, <1>5, <1>6, <1>7, <1>8, <1>9 DEF SettlingActions

StartSomeRun ==
  \E r \in Runs, task \in Task \ {"none"}, hard \in HardTimeouts : StartRun(r, task, hard)

\* The steps, grouped as the proofs need them.
LEMMA NextCases ==
  ASSUME Next
  PROVE  /\ History
         /\ \/ SettlingActions
            \/ StartSomeRun
            \/ \E kind \in CallbackKind : CallbackArrives(kind)
            \/ \E c \in callbacks : CallbackApplies(c)
            \/ Alarm
            \/ Tick
<1>1. ASSUME NEW r \in Runs, NEW hard \in HardTimeouts,
             \/ StartDownload(r, hard) \/ StartStorage(r, hard) \/ StartTargetDbTest(r, hard)
             \/ StartSourceInspect(r, hard) \/ StartExport(r, hard)
      PROVE  StartSomeRun
  BY <1>1 DEF StartSomeRun, StartDownload, StartStorage, StartTargetDbTest, StartSourceInspect,
              StartExport, Task
<1> QED BY <1>1 DEF Next, Step, SettlingActions

LEMMA NextIInv == IInv /\ [Next]_vars => IInv'
<1> SUFFICES ASSUME IInv, [Next]_vars PROVE IInv'
  OBVIOUS
<1>1. CASE Next
  <2>1. History
    BY <1>1, NextCases
  <2>2. CASE SettlingActions
    BY <2>1, <2>2, SettlingActionsSettle, SettlingStep
  <2>3. CASE StartSomeRun
    BY <2>1, <2>3, StartStep DEF StartSomeRun
  <2>4. ASSUME NEW kind \in CallbackKind, CallbackArrives(kind) PROVE IInv'
    BY <2>1, <2>4, CallbackArrivesStep
  <2>5. ASSUME NEW c \in callbacks, CallbackApplies(c) PROVE IInv'
    BY <2>1, <2>5, CallbackAppliesStep
  <2>6. CASE Alarm
    BY <2>1, <2>6, AlarmStep
  <2>7. CASE Tick
    BY <2>1, <2>7, TickStep
  <2> QED BY <1>1, <2>2, <2>3, <2>4, <2>5, <2>6, <2>7, NextCases
<1>2. CASE UNCHANGED vars
  BY <1>2 DEF vars, IInv, TypeOK, JobIsIdleIffNoRun, TerminalRunHasEnded, RunsInUseAreMinted,
              ReleasedRunHasEnded, LiveRunIsSupervised, Live, AlarmCoversDeadlines,
              JobIsAttended, HardTimeoutsAgree, TimeoutIsBounded, ContainerDiesFirst,
              CleanupHasRoom
<1> QED BY <1>1, <1>2

-----------------------------------------------------------------------------
(***************************************************************************)
(* Theorems.                                                               *)
(***************************************************************************)

\* The inductive invariant holds in every reachable state of the Durable Object.
THEOREM InductiveInvariant == Spec => []IInv
  BY InitIInv, NextIInv, PTL DEF Spec

\* Every handler keeps storage, container and bookkeeping well-typed.
THEOREM TypeCorrect == Spec => []TypeOK
<1>1. IInv => TypeOK
  BY DEF IInv
<1> QED BY <1>1, InductiveInvariant, PTL

\* A live run keeps its timeout and the session of its callbacks, whatever
\* handlers of older runs, late callbacks and concurrent starts do.
THEOREM LiveRunsAreSupervised == Spec => []LiveRunIsSupervised
<1>1. IInv => LiveRunIsSupervised
  BY DEF IInv
<1> QED BY <1>1, InductiveInvariant, PTL

\* The one alarm of the object is never later than a deadline in storage.
THEOREM AlarmIsNeverLate == Spec => []AlarmCoversDeadlines
<1>1. IInv => AlarmCoversDeadlines
  BY DEF IInv
<1> QED BY <1>1, InductiveInvariant, PTL

\* A job whose monitor was not lost is watched or about to be deleted.
THEOREM JobsAreAttended == Spec => []JobIsAttended
<1>1. IInv => JobIsAttended
  BY DEF IInv
<1> QED BY <1>1, InductiveInvariant, PTL

\* The platform stops a container a grace period before its run times out.
THEOREM ContainersDieFirst == Spec => []ContainerDiesFirst
<1>1. IInv => ContainerDiesFirst
  BY DEF IInv
<1> QED BY <1>1, InductiveInvariant, PTL

\* A start puts its own, new run on record.
LEMMA StartRunEffect ==
  ASSUME store \in Store, NEW r \in Runs, NEW task \in Task \ {"none"},
         NEW hard \in HardTimeouts, StartRun(r, task, hard)
  PROVE  store'.job.run = r /\ r \notin minted /\ minted' = minted \cup {r}
<1> DEFINE begun == BeginRun(store, r, task, hard)
           failed == FailJob(begun, "other")
<1>1. hard \in Nat /\ task \in Task
  BY StoreConstants
<1>2. begun \in Store /\ begun.job.run = r
  BY <1>1, BeginRunEffect
<1>3. failed \in Store /\ failed.job.run = r
  BY <1>2, FailJobType, FailJobEffect DEF FailureClass
<1>4. store' = ScheduleRunTimeout(begun, r, hard) \/ store' = ScheduleCleanup(failed)
  BY DEF StartRun
<1> HIDE DEF begun, failed
<1>5. store'.job = begun.job \/ store'.job = failed.job
  <2>1. CASE store' = ScheduleRunTimeout(begun, r, hard)
    BY <1>1, <1>2, <2>1, ScheduleRunTimeoutEffect
  <2>2. CASE store' = ScheduleCleanup(failed)
    BY <1>3, <2>2, ScheduleCleanupEffect
  <2> QED BY <1>4, <2>1, <2>2
<1> QED BY <1>2, <1>3, <1>5 DEF StartRun

LEMMA OnlyCallbackChangesOutcome ==
  ASSUME IInv, Next,
         store.job.status \in Terminal, store'.job.run = store.job.run,
         store'.job.status # store.job.status
  PROVE  \E c \in callbacks : c.run = store.job.run /\ c \notin callbacks'
<1> USE DEF IInv
<1>1. store \in Store /\ store.job.run \in minted /\ store.job.status # "running"
  BY DEF TypeOK, RunsInUseAreMinted, JobIsIdleIffNoRun, Terminal
<1>2. ~SettlingActions
  BY <1>1, SettlingActionsSettle DEF Settles
<1>3. ~StartSomeRun
  <2> SUFFICES ASSUME NEW r \in Runs, NEW task \in Task \ {"none"}, NEW hard \in HardTimeouts,
                      StartRun(r, task, hard)
               PROVE  FALSE
    BY DEF StartSomeRun
  <2> QED BY <1>1, StartRunEffect
<1>4. ~(\E kind \in CallbackKind : CallbackArrives(kind))
  BY DEF CallbackArrives
<1>5. ~Alarm
  BY <1>1, RunAlarmEffect DEF Alarm, Settles, EmptyStore, NoJob, JobIsIdleIffNoRun, Terminal
<1>6. ~Tick
  BY <1>1, AgeEffect DEF Tick
<1>7. PICK c \in callbacks : CallbackApplies(c)
  BY <1>2, <1>3, <1>4, <1>5, <1>6, NextCases
<1>8. c.run = store.job.run
  BY <1>7 DEF CallbackApplies, ContainerCallback
<1> QED BY <1>7, <1>8 DEF CallbackApplies

\* A recorded outcome changes only when a callback of the same run is applied:
\* monitors, alarms, status requests and restarts leave it alone.
THEOREM OutcomesChangeOnlyByCallback == Spec => OutcomeChangedOnlyByCallback
<1> DEFINE Change ==
      store.job.status \in Terminal /\ store'.job.run = store.job.run
        /\ store'.job.status # store.job.status
        => \E c \in callbacks : c.run = store.job.run /\ c \notin callbacks'
<1>1. IInv /\ [Next]_vars => [Change]_vars
  BY OnlyCallbackChangesOutcome
<1> QED BY <1>1, InductiveInvariant, PTL DEF Spec, OutcomeChangedOnlyByCallback

\* A cleanup deletes the storage of a live run only if its timeout, too, has
\* run out, because 24 hours exceed twice the hard timeout and the grace.
THEOREM CleanupsSpareLiveRuns == Spec => CleanupSparesLiveRuns
<1> DEFINE Spared == store'.job.run = NoRun => \A r \in Runs : Live(r) => store.timeout.left = 0
<1>1. IInv /\ [Next]_vars => [Spared]_vars
  <2> SUFFICES ASSUME IInv, Next, store'.job.run = NoRun, NEW r \in Runs, Live(r)
               PROVE  store.timeout.left = 0
    OBVIOUS
  <2> USE DEF IInv
  <2>1. store \in Store /\ store.job.run = r /\ r # NoRun /\ r \in minted
    BY StoreConstants DEF Live, TypeOK, RunsInUseAreMinted
  <2>2. ~SettlingActions
    BY <2>1, SettlingActionsSettle DEF Settles
  <2>3. ~StartSomeRun
    <3> SUFFICES ASSUME NEW q \in Runs, NEW task \in Task \ {"none"}, NEW hard \in HardTimeouts,
                        StartRun(q, task, hard)
                 PROVE  FALSE
      BY DEF StartSomeRun
    <3> QED BY <2>1, StartRunEffect, StoreConstants
  <2>4. ~(\E kind \in CallbackKind : CallbackArrives(kind))
    BY <2>1 DEF CallbackArrives
  <2>5. ~(\E c \in callbacks : CallbackApplies(c))
    <3> SUFFICES ASSUME NEW c \in callbacks, CallbackApplies(c) PROVE FALSE
      OBVIOUS
    <3>1. c \in Callback /\ store' = ContainerCallback(store, c)
      BY DEF TypeOK, CallbackApplies
    <3>2. CASE store.job.run # c.run
      BY <2>1, <3>1, <3>2 DEF ContainerCallback
    <3>3. CASE store.job.run = c.run
      BY <2>1, <3>1, <3>3, ContainerCallbackEffect
    <3> QED BY <3>2, <3>3
  <2>6. ~Tick
    BY <2>1, AgeEffect DEF Tick
  <2>7. Alarm
    BY <2>2, <2>3, <2>4, <2>5, <2>6, NextCases
  <2>8. store.cleanup = 0
    BY <2>1, <2>7, RunAlarmEffect DEF Alarm, Settles
  <2>9. 0 >= store.timeout.left
    BY <2>8 DEF CleanupHasRoom, Absent
  <2>10. store.timeout.left # Absent
    BY DEF LiveRunIsSupervised, TimeoutIsBounded
  <2> QED BY <2>1, <2>9, <2>10 DEF Store, RunTimeout, Countdown, Absent
<1> QED BY <1>1, InductiveInvariant, PTL DEF Spec, CleanupSparesLiveRuns

=============================================================================
