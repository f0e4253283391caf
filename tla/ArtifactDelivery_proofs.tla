------------------------ MODULE ArtifactDelivery_proofs ------------------------
(***************************************************************************)
(* Proofs about ArtifactDelivery.  Its handlers change nothing of the job  *)
(* but the access token, so they are settling steps in the sense of        *)
(* ExporterJob_proofs and keep the inductive invariant proved there.  What *)
(* is added to it says when a token of the run on record is outstanding.   *)
(***************************************************************************)
EXTENDS ArtifactDelivery, ExporterJob_proofs

(***************************************************************************)
(* The inductive invariant.                                                *)
(***************************************************************************)

\* A token of the run on record belongs to its session.
Confined(s) ==
  /\ s.access.left <= Window
  /\ s.access.run \in Runs /\ s.access.run = s.job.run => s.session = s.job.run

Unlinked(s) == s.access.run \in Runs /\ s.access.run = s.job.run => s.job.status # "failed"

\* monitorRun fails the record before it revokes the token, but destroys the
\* container that could serve it in the same step.
FailedRunServesNothing == container # NoContainer => Unlinked(store)

\* A live run's token was granted with a window on record, and ends with it.
LinksEndInTime ==
  \A r \in Runs : Live(r) /\ store.access.run = r => store.access.left \in 0..store.job.window

\* Every ready callback of a run carries the expiry its container fixed when it
\* began to listen, which is the one on record once the first was applied.
ExpiriesAgree ==
  /\ \A c \in callbacks : c.run \in minted
  /\ \A c \in callbacks : c.kind = "ready" =>
       /\ c.expiry # Absent
       /\ \A d \in callbacks : d.kind = "ready" /\ d.run = c.run => d.expiry = c.expiry
       /\ container.run = c.run => container.expiry = c.expiry
       /\ store.job.run = c.run => store.job.window \in {Absent, c.expiry}
  /\ container.run # NoRun /\ store.job.run = container.run =>
       store.job.window \in {Absent, container.expiry}

TokensBelongToMintedRuns == store.access.run \in minted \cup {NoRun}

ContainersHaveRuns == container.run = NoRun => container.task = "none"

DInv ==
  /\ IInv
  /\ DeliveryTypeOK
  /\ Confined(store)
  /\ LinksEndInTime
  /\ ExpiriesAgree
  /\ FailedRunServesNothing
  /\ TokensBelongToMintedRuns
  /\ ContainersHaveRuns
  /\ NoStreamAfterFailure

-----------------------------------------------------------------------------
(***************************************************************************)
(* What the methods of the store do to the token.                          *)
(***************************************************************************)

\* From s to t a token is at most revoked, together with its session, and the
\* run on record fails only with its token revoked or its session gone.
Narrows(s, t) ==
  /\ t.job.run = s.job.run
  /\ t.job.window = s.job.window
  /\ \/ t.session = s.session /\ t.access = s.access
     \/ t.session # s.session /\ t.access = NoAccess
  /\ t.job.status = s.job.status \/ t.access = NoAccess \/ s.session # s.job.run

LEMMA NoAccessHasNoRun == NoAccess.run \notin Runs /\ NoAccess.left <= Window
  BY StoreConstants DEF NoAccess, Absent

LEMMA NarrowsKeeps ==
  ASSUME NEW s \in Store, NEW t \in Store, Confined(s), Narrows(s, t)
  PROVE  /\ Confined(t)
         /\ Unlinked(s) => Unlinked(t)
  BY NoAccessHasNoRun DEF Confined, Narrows, Unlinked

LEMMA AccessUntouched ==
  ASSUME NEW s \in Store, NEW class, NEW r
  PROVE  /\ ScheduleNextAlarm(s).access = s.access
         /\ ScheduleCleanup(s).access = s.access
         /\ ClearRunTimeout(s).access = s.access
         /\ ClearRunTimeoutForRun(s, r).access = s.access
         /\ FailJob(s, class).access = s.access
         /\ FailJob(s, class).job.window = s.job.window
  BY DEF ScheduleNextAlarm, ScheduleCleanup, ClearRunTimeoutForRun, ClearRunTimeout, FailJob,
         Store, JobRecord

LEMMA ClearSessionNarrows ==
  ASSUME NEW s \in Store, NEW r \in Runs
  PROVE  LET t == ClearSessionForRun(s, r)
         IN  /\ \/ t.session = s.session /\ t.access = s.access
                \/ t.session # s.session /\ t.access = NoAccess
             /\ s.session = r => t.access = NoAccess
  BY StoreConstants DEF ClearSessionForRun, ClearArtifactAccess, Store

LEMMA FailExpiredRunNarrows ==
  ASSUME NEW s \in Store
  PROVE  Narrows(s, FailExpiredRunIfNeeded(s))
<1> DEFINE r == s.timeout.run
           t == FailExpiredRunIfNeeded(s)
           failed == FailJob(s, "other")
           dropped == ClearRunTimeoutForRun(failed, r)
           closed == ClearSessionForRun(dropped, r)
           stale == ClearRunTimeout(s)
<1>1. CASE r = NoRun \/ s.timeout.left > 0
  <2>1. t = s
    BY <1>1 DEF FailExpiredRunIfNeeded
  <2> QED BY <2>1 DEF Narrows
<1>2. CASE ~(r = NoRun \/ s.timeout.left > 0) /\ (s.job.run # r \/ s.job.status # "running")
  <2>1. t = ScheduleNextAlarm(stale)
    BY <1>2 DEF FailExpiredRunIfNeeded
  <2>2. stale \in Store /\ stale.job = s.job /\ stale.session = s.session
    BY ClearType DEF ClearRunTimeout, Store
  <2>3. stale.access = s.access
    BY AccessUntouched
  <2> HIDE DEF stale
  <2>4. t.job = s.job /\ t.session = s.session /\ t.access = s.access
    BY <2>1, <2>2, <2>3, ScheduleNextAlarmEffect, AccessUntouched
  <2> QED BY <2>4 DEF Narrows
<1>3. CASE ~(r = NoRun \/ s.timeout.left > 0) /\ s.job.run = r /\ s.job.status = "running"
  <2>1. t = ScheduleCleanup(closed)
    BY <1>3 DEF FailExpiredRunIfNeeded
  <2>2. r \in Runs
    BY <1>3 DEF Store, RunTimeout
  <2>3. failed \in Store /\ dropped \in Store /\ closed \in Store
    BY FailJobType, ClearType DEF FailureClass
  <2>4. /\ failed.job.run = s.job.run /\ failed.job.window = s.job.window
        /\ failed.session = s.session /\ failed.access = s.access
    BY FailJobEffect, AccessUntouched
  <2> HIDE DEF failed
  <2>5. dropped.job = failed.job /\ dropped.session = s.session /\ dropped.access = s.access
    BY <2>3, <2>4, ClearEffect, AccessUntouched
  <2> HIDE DEF dropped
  <2>6. /\ closed.job = failed.job
        /\ \/ closed.session = s.session /\ closed.access = s.access
           \/ closed.session # s.session /\ closed.access = NoAccess
        /\ s.session = r => closed.access = NoAccess
    BY <2>2, <2>3, <2>5, ClearEffect, ClearSessionNarrows
  <2> HIDE DEF closed
  <2>7. t.job = closed.job /\ t.session = closed.session /\ t.access = closed.access
    BY <2>1, <2>3, ScheduleCleanupEffect, AccessUntouched
  <2> QED BY <1>3, <2>4, <2>6, <2>7 DEF Narrows
<1> QED BY <1>1, <1>2, <1>3

LEMMA ReleaseRunNarrows ==
  ASSUME NEW s \in Store, NEW r \in Runs
  PROVE  Narrows(s, ReleaseRun(s, r))
<1> DEFINE dropped == ClearRunTimeoutForRun(s, r)
           closed == ClearSessionForRun(dropped, r)
<1>1. dropped \in Store /\ closed \in Store
  BY ClearType
<1>2. dropped.job = s.job /\ dropped.session = s.session /\ dropped.access = s.access
  BY ClearEffect, AccessUntouched
<1>3. ReleaseRun(s, r) = ScheduleCleanup(closed)
  BY DEF ReleaseRun
<1> HIDE DEF dropped
<1>4. /\ closed.job = s.job
      /\ \/ closed.session = s.session /\ closed.access = s.access
         \/ closed.session # s.session /\ closed.access = NoAccess
  BY <1>1, <1>2, ClearEffect, ClearSessionNarrows
<1> HIDE DEF closed
<1>5. /\ ReleaseRun(s, r).job = closed.job /\ ReleaseRun(s, r).session = closed.session
      /\ ReleaseRun(s, r).access = closed.access
  BY <1>1, <1>3, ScheduleCleanupEffect, AccessUntouched
<1> QED BY <1>4, <1>5 DEF Narrows

\* A terminal callback revokes the token of its run, a ready callback brings the
\* window of its container.
LEMMA ContainerCallbackConfines ==
  ASSUME NEW s \in Store, NEW c \in Callback, Confined(s)
  PROVE  LET t == ContainerCallback(s, c)
         IN  /\ Confined(t)
             /\ Unlinked(s) => Unlinked(t)
             /\ t.job.run = s.job.run
             /\ t.access \in {s.access, NoAccess}
             /\ t.job.window =
                  IF s.job.run = c.run /\ c.kind = "ready" THEN c.expiry ELSE s.job.window
<1> DEFINE t == ContainerCallback(s, c)
           written == [s EXCEPT !.job = ApplyToRecord(@, c)]
           cleared == ClearArtifactAccessForRun(written, c.run)
           timed == [written EXCEPT !.timeout =
                       [run |-> c.run, hard |-> HardTimeoutOf(s, c.run),
                        left |-> HardTimeoutOf(s, c.run) + Grace]]
<1>0. CASE s.job.run # c.run
  BY <1>0 DEF ContainerCallback
<1>1. CASE s.job.run = c.run
  <2>1. c.run \in Runs /\ c.kind \in CallbackKind
    BY DEF Callback
  <2>2. /\ written.job.run = s.job.run
        /\ written.job.window = IF c.kind = "ready" THEN c.expiry ELSE s.job.window
        /\ written.job.status = StatusOf(c.kind)
        /\ written.access = s.access /\ written.session = s.session
    BY DEF ApplyToRecord, Store, JobRecord
  <2>3. /\ cleared.job = written.job /\ cleared.session = written.session
        /\ cleared.access \in {s.access, NoAccess}
        /\ s.access.run = c.run => cleared.access = NoAccess
    BY <2>2 DEF ClearArtifactAccessForRun, ClearArtifactAccess, Store
  <2>4. /\ timed.job = written.job /\ timed.session = written.session
        /\ timed.access = written.access
    BY DEF Store
  <2> HIDE DEF written
  <2>5. /\ ScheduleNextAlarm(timed).job = timed.job
        /\ ScheduleNextAlarm(timed).session = timed.session
        /\ ScheduleNextAlarm(timed).access = timed.access
    <3>1. \A due : /\ [timed EXCEPT !.alarm = due].job = timed.job
                   /\ [timed EXCEPT !.alarm = due].session = timed.session
                   /\ [timed EXCEPT !.alarm = due].access = timed.access
      BY DEF Store, written
    <3> HIDE DEF timed
    <3> QED BY <3>1 DEF ScheduleNextAlarm
  <2>6. StatusOf(c.kind) \in Terminal => t = cleared
    BY <1>1 DEF ContainerCallback, written
  <2>7. StatusOf(c.kind) \notin Terminal => t \in {written, ScheduleNextAlarm(timed)}
    BY <1>1 DEF ContainerCallback, ScheduleRunTimeout, written
  <2> HIDE DEF cleared, timed, t
  <2>8. t.job = written.job /\ t.session = s.session /\ t.access \in {s.access, NoAccess}
    BY <2>2, <2>3, <2>4, <2>5, <2>6, <2>7
  <2>9. t.job.status = "failed" => s.access.run # c.run \/ t.access = NoAccess
    BY <2>2, <2>3, <2>6, <2>7, <2>8 DEF Terminal
  <2> QED BY <1>1, <2>2, <2>8, <2>9, NoAccessHasNoRun, StoreConstants
          DEF Confined, Unlinked, t, Store, ArtifactAccess, JobRecord, Countdown, Absent
<1> QED BY <1>0, <1>1

LEMMA AgeConfines ==
  ASSUME NEW s \in Store, Confined(s)
  PROVE  /\ Confined(Age(s))
         /\ Unlinked(s) => Unlinked(Age(s))
         /\ Age(s).job.run = s.job.run /\ Age(s).access.run = s.access.run
         /\ Age(s).job.window = Down(s.job.window) /\ Age(s).access.left = Down(s.access.left)
<1>1. /\ Age(s).job.run = s.job.run /\ Age(s).job.status = s.job.status
      /\ Age(s).job.window = Down(s.job.window)
      /\ Age(s).access.run = s.access.run /\ Age(s).access.left = Down(s.access.left)
      /\ Age(s).session = s.session
  BY DEF Age, Store, JobRecord, ArtifactAccess
<1>2. s.access.left \in Countdown /\ s.job.window \in Countdown
  BY DEF Store, ArtifactAccess, JobRecord
<1>3. \A a \in Countdown : /\ Down(a) <= a /\ (Down(a) # Absent => a # Absent)
                           /\ \A b \in Countdown : a <= b => Down(a) <= Down(b)
  BY DEF Down, Countdown, Absent
<1>4. Window \in Nat
  BY StoreConstants
<1> QED BY <1>1, <1>2, <1>3, <1>4, AgeType DEF Confined, Unlinked, Store, ArtifactAccess, JobRecord, Countdown, Absent

LEMMA RunAlarmConfines ==
  ASSUME NEW s \in Store, Confined(s)
  PROVE  LET t == RunAlarm(s)
         IN  /\ Confined(t)
             /\ Unlinked(s) => Unlinked(t)
             /\ t.access.run \in {s.access.run, NoRun}
             /\ Narrows(s, t) \/ t.job.run = NoRun
<1> DEFINE rung == [s EXCEPT !.alarm = Absent]
           settled == FailExpiredRunIfNeeded(rung)
<1>1. /\ rung \in Store
      /\ rung.job = s.job /\ rung.session = s.session /\ rung.access = s.access
  BY DEF Store, Countdown
<1>2. CASE s.cleanup = 0
  <2>1. RunAlarm(s) = EmptyStore /\ EmptyStore.access = NoAccess
    BY <1>2 DEF RunAlarm, EmptyStore
  <2> QED BY <2>1, NoAccessHasNoRun DEF Confined, Unlinked, NoAccess, EmptyStore, NoJob
<1>3. CASE s.cleanup # 0
  <2>1. RunAlarm(s) = ScheduleNextAlarm(settled)
    BY <1>3 DEF RunAlarm
  <2>2. Narrows(rung, settled) /\ settled \in Store
    BY <1>1, FailExpiredRunNarrows, FailExpiredRunIfNeededType
  <2> HIDE DEF settled, rung
  <2>3. /\ RunAlarm(s).job = settled.job /\ RunAlarm(s).session = settled.session
        /\ RunAlarm(s).access = settled.access
    BY <2>1, <2>2, ScheduleNextAlarmEffect, AccessUntouched
  <2>4. Narrows(s, RunAlarm(s)) /\ RunAlarm(s) \in Store
    BY <1>1, <2>2, <2>3, RunAlarmType DEF Narrows
  <2>5. RunAlarm(s).access.run \in {s.access.run, NoRun}
    BY <2>4 DEF Narrows, NoAccess
  <2> QED BY <2>4, <2>5, NarrowsKeeps
<1> QED BY <1>2, <1>3

-----------------------------------------------------------------------------
(***************************************************************************)
(* The steps preserve the inductive invariant.                             *)
(***************************************************************************)
LEMMA InitDInv == DeliveryInit => DInv
<1> SUFFICES ASSUME DeliveryInit PROVE DInv
  OBVIOUS
<1>1. IInv
  BY InitIInv DEF DeliveryInit
<1>2. store = EmptyStore /\ container = NoContainer
  BY DEF DeliveryInit, Init
<1>3. store.access = NoAccess
  BY <1>2 DEF EmptyStore
<1>6. LinksEndInTime /\ ExpiriesAgree
  BY <1>2, <1>3, StoreConstants
     DEF LinksEndInTime, Live, EmptyStore, NoJob, ExpiriesAgree, DeliveryInit,
         Init, NoContainer
<1>4. Confined(store) /\ FailedRunServesNothing /\ TokensBelongToMintedRuns /\ ContainersHaveRuns
  BY <1>2, <1>3, NoAccessHasNoRun
     DEF Confined, FailedRunServesNothing, TokensBelongToMintedRuns, ContainersHaveRuns,
         NoAccess, NoContainer
<1>5. DeliveryTypeOK /\ NoStreamAfterFailure
  BY <1>1 DEF IInv, DeliveryTypeOK, DeliveryInit, NoStreamAfterFailure, NoStream
<1> QED BY <1>1, <1>4, <1>5, <1>6 DEF DInv

\* Every step but a start and a callback: the record keeps its window, and a
\* token is at most revoked.
KeepsLink(s, t) ==
  /\ t.job.run = s.job.run /\ t.job.window = s.job.window
  /\ t.access \in {s.access, NoAccess}

LEMMA SettlingKeepsLink ==
  ASSUME DInv, SettlingActions
  PROVE  KeepsLink(store, store') /\ callbacks' \subseteq callbacks /\ minted' = minted
<1> USE DEF DInv, IInv
<1>1. store \in Store
  BY DEF TypeOK
<1>2. callbacks' \subseteq callbacks /\ minted' = minted
  BY SettlingActionsSettle
<1>3. CASE ReadStatus \/ StartArrives
  BY <1>1, <1>2, <1>3, FailExpiredRunNarrows DEF ReadStatus, StartArrives, Narrows, KeepsLink
<1>4. CASE StartRejected \/ ContainerListens \/ ContainerExits \/ Restart
  BY <1>2, <1>4 DEF StartRejected, ContainerListens, ContainerExits, Restart, KeepsLink
<1>5. ASSUME NEW r \in Runs, MonitorSettles(r) PROVE KeepsLink(store, store')
  BY <1>1, <1>5 DEF MonitorSettles, SettleRun, FailJob, Store, JobRecord, KeepsLink
<1>6. ASSUME NEW r \in Runs, MonitorFinishes(r) PROVE KeepsLink(store, store')
  BY <1>1, <1>6, ReleaseRunNarrows DEF MonitorFinishes, Narrows, KeepsLink
<1> QED BY <1>2, <1>3, <1>4, <1>5, <1>6 DEF SettlingActions

\* Without a start no run becomes live.
LEMMA NoStartNoNewLiveRun ==
  ASSUME IInv, Next, ~StartSomeRun
  PROVE  \A r \in Runs : Live(r)' => Live(r)
<1> USE DEF IInv
<1>1. ended \subseteq ended' /\ store \in Store
  BY NextCases DEF History, TypeOK
<1>2. CASE SettlingActions
  BY <1>1, <1>2, SettlingActionsSettle DEF Settles, Live, Terminal
<1>3. ASSUME NEW kind \in CallbackKind, CallbackArrives(kind)
      PROVE  \A r \in Runs : Live(r)' => Live(r)
  BY <1>1, <1>3 DEF CallbackArrives, Live
<1>4. ASSUME NEW c \in callbacks, CallbackApplies(c)
      PROVE  \A r \in Runs : Live(r)' => Live(r)
  <2>1. c \in Callback /\ c.run # NoRun
    BY StoreConstants DEF TypeOK, Callback
  <2>2. CASE store.job.run # c.run
    BY <1>1, <1>4, <2>2 DEF CallbackApplies, ContainerCallback, Live
  <2>3. CASE store.job.run = c.run
    <3>1. store'.job.run = store.job.run
      BY <1>1, <1>4, <2>1, <2>3, ContainerCallbackEffect DEF CallbackApplies
    <3>2. store.job.status # "running" => store.job.run \in ended
      BY <1>1, <2>1, <2>3
         DEF JobIsIdleIffNoRun, TerminalRunHasEnded, Terminal, Store, JobRecord, JobStatus
    <3> QED BY <1>1, <1>4, <3>1, <3>2 DEF CallbackApplies, Live
  <2> QED BY <2>2, <2>3
<1>5. CASE Alarm
  <2>1. store' = RunAlarm(store)
    BY <1>5 DEF Alarm
  <2>2. CASE store' = EmptyStore
    BY <2>1, <2>2, StoreConstants DEF EmptyStore, NoJob, Live
  <2>3. CASE Settles(store, store')
    BY <1>1, <2>1, <2>3 DEF Settles, Live, Terminal
  <2> QED BY <1>1, <2>1, <2>2, <2>3, RunAlarmEffect
<1>6. CASE Tick
  BY <1>1, <1>6, AgeEffect DEF Tick, Live
<1> QED BY <1>2, <1>3, <1>4, <1>5, <1>6, NextCases

LEMMA StartKeepsAccess ==
  ASSUME store \in Store, NEW r \in Runs, NEW task \in Task \ {"none"},
         NEW hard \in HardTimeouts, StartRun(r, task, hard)
  PROVE  store'.access = store.access /\ store'.job.window = Absent
<1>1. hard \in Nat /\ task \in Task
  BY StoreConstants
<1>2. BeginRun(store, r, task, hard) \in Store
  BY <1>1, BeginRunType
<1>3. /\ BeginRun(store, r, task, hard).access = store.access
      /\ BeginRun(store, r, task, hard).job.window = Absent
  BY DEF BeginRun, WriteSession, NewJob, Store
<1> DEFINE begun == BeginRun(store, r, task, hard)
           failed == FailJob(begun, "other")
           timed == [begun EXCEPT !.timeout = [run |-> r, hard |-> hard, left |-> hard + Grace]]
<1>4. failed \in Store /\ failed.access = begun.access /\ failed.job.window = begun.job.window
  BY <1>2, FailJobType, AccessUntouched DEF FailureClass
<1>5. timed \in Store /\ timed.access = begun.access /\ timed.job = begun.job
  BY <1>1, <1>2, StoreConstants DEF Store, RunTimeout, Countdown
<1>6. store' \in {ScheduleNextAlarm(timed), ScheduleCleanup(failed)}
  BY DEF StartRun, ScheduleRunTimeout
<1> HIDE DEF failed, timed, begun
<1> QED BY <1>3, <1>4, <1>5, <1>6, AccessUntouched, ScheduleNextAlarmEffect, ScheduleCleanupEffect
        DEF begun

LEMMA LinksKept ==
  ASSUME LinksEndInTime, KeepsLink(store, store'), \A r \in Runs : Live(r)' => Live(r)
  PROVE  LinksEndInTime'
  BY StoreConstants DEF LinksEndInTime, KeepsLink, NoAccess

\* A live run's token keeps ending with its window: a ready callback that comes
\* again brings the same expiry.
LEMMA JobStepLinks ==
  ASSUME DInv, Next
  PROVE  LinksEndInTime'
<1> USE DEF DInv, IInv
<1>1. store \in Store /\ callbacks \subseteq Callback
  BY DEF TypeOK
<1>2. CASE StartSomeRun
  <2>1. PICK r \in Runs, task \in Task \ {"none"}, hard \in HardTimeouts : StartRun(r, task, hard)
    BY <1>2 DEF StartSomeRun
  <2>2. store'.job.run = r /\ r \notin minted /\ store'.access = store.access
    BY <1>1, <2>1, StartRunEffect, StartKeepsAccess
  <2> QED BY <2>2, StoreConstants DEF LinksEndInTime, Live, TokensBelongToMintedRuns
<1>3. ~StartSomeRun => \A r \in Runs : Live(r)' => Live(r)
  BY NoStartNoNewLiveRun
<1>4. CASE ~StartSomeRun /\ SettlingActions
  BY <1>3, <1>4, SettlingKeepsLink, LinksKept
<1>5. ASSUME ~StartSomeRun, NEW kind \in CallbackKind, CallbackArrives(kind)
      PROVE  LinksEndInTime'
  BY <1>3, <1>5, LinksKept DEF CallbackArrives, KeepsLink
<1>6. ASSUME ~StartSomeRun, NEW c \in callbacks, CallbackApplies(c) PROVE LinksEndInTime'
  <2>1. /\ store'.job.run = store.job.run /\ store'.access \in {store.access, NoAccess}
        /\ store'.job.window =
             IF store.job.run = c.run /\ c.kind = "ready" THEN c.expiry ELSE store.job.window
    BY <1>1, <1>6, ContainerCallbackConfines DEF CallbackApplies
  <2> SUFFICES ASSUME NEW r \in Runs, Live(r)', store'.access.run = r
               PROVE  store'.access.left \in 0..store'.job.window
    BY DEF LinksEndInTime
  <2>2. Live(r) /\ store'.access = store.access /\ store.job.run = r
    BY <1>3, <1>6, <2>1, StoreConstants DEF NoAccess, Live
  <2>3. store.access.left \in 0..store.job.window /\ store.job.window # Absent
    BY <2>2 DEF LinksEndInTime, Absent
  <2>4. store.job.run = c.run /\ c.kind = "ready" => c.expiry = store.job.window
    BY <2>3 DEF ExpiriesAgree
  <2> QED BY <2>1, <2>2, <2>3, <2>4
<1>7. CASE ~StartSomeRun /\ Alarm
  <2>1. Narrows(store, store') \/ store'.job.run = NoRun
    BY <1>1, <1>7, RunAlarmConfines DEF Alarm
  <2>2. CASE Narrows(store, store')
    BY <1>3, <1>7, <2>2, LinksKept DEF Narrows, KeepsLink
  <2>3. CASE store'.job.run = NoRun
    BY <2>3, StoreConstants DEF LinksEndInTime, Live
  <2> QED BY <2>1, <2>2, <2>3
<1>8. CASE ~StartSomeRun /\ Tick
  <2>1. /\ store'.job.window = Down(store.job.window)
        /\ store'.access.left = Down(store.access.left)
        /\ store'.access.run = store.access.run
        /\ store.job.window \in Countdown /\ store.access.left \in Countdown
    BY <1>1, <1>8, AgeConfines DEF Tick, Store, JobRecord, ArtifactAccess
  <2> QED BY <1>3, <1>8, <2>1 DEF LinksEndInTime, Down, Countdown, Absent
<1> QED BY <1>2, <1>4, <1>5, <1>6, <1>7, <1>8, NextCases

\* Containers and callbacks at most disappear, and the record keeps its window.
LEMMA ExpiriesKept ==
  ASSUME ExpiriesAgree, callbacks \subseteq Callback, callbacks' \subseteq callbacks,
         minted \subseteq minted',
         container' = container \/ container'.run = NoRun,
         \/ store'.job.run = store.job.run /\ store'.job.window = store.job.window
         \/ store'.job.run = NoRun
  PROVE  ExpiriesAgree'
<1>1. \A c \in callbacks : c.run # NoRun
  BY StoreConstants DEF Callback
<1> QED BY <1>1 DEF ExpiriesAgree

\* The expiry of a container is fixed once, and travels with its callbacks.
LEMMA JobStepExpiries ==
  ASSUME DInv, Next
  PROVE  ExpiriesAgree'
<1> USE DEF DInv, IInv
<1>1. store \in Store /\ callbacks \subseteq Callback /\ container \in Container
  BY DEF TypeOK
<1>2. CASE StartSomeRun
  <2>1. PICK r \in Runs, task \in Task \ {"none"}, hard \in HardTimeouts : StartRun(r, task, hard)
    BY <1>2 DEF StartSomeRun
  <2>2. /\ store'.job.run = r /\ r \notin minted /\ minted' = minted \cup {r}
        /\ store'.job.window = Absent
    BY <1>1, <2>1, StartRunEffect, StartKeepsAccess
  <2>3. callbacks' = callbacks /\ (container' = container \/ container'.run = r)
    BY <2>1 DEF StartRun
  <2> QED BY <2>2, <2>3 DEF ExpiriesAgree
<1>3. CASE ContainerListens
  <2>1. /\ container'.run = container.run /\ container'.expiry = Window
        /\ container.expiry = Absent /\ container.run # NoRun
        /\ store' = store /\ callbacks' = callbacks /\ minted' = minted
    BY <1>1, <1>3 DEF ContainerListens, ContainersHaveRuns, Container
  <2> QED BY <2>1 DEF ExpiriesAgree
<1>4. CASE SettlingActions /\ ~ContainerListens
  <2>1. container' = container \/ container'.run = NoRun
    BY <1>4 DEF SettlingActions, ReadStatus, StartArrives, volatile, StartRejected,
                ContainerExits, StopContainer, Restart, MonitorSettles, MonitorFinishes,
                NoContainer
  <2> QED BY <1>1, <1>4, <2>1, SettlingKeepsLink, ExpiriesKept DEF KeepsLink
<1>5. ASSUME NEW kind \in CallbackKind, CallbackArrives(kind) PROVE ExpiriesAgree'
  <2>1. /\ store' = store /\ container' = container /\ minted' = minted
        /\ callbacks' = callbacks \cup {CallbackOf(container, kind)}
        /\ container.run \in minted /\ container.run # NoRun
    BY <1>5 DEF CallbackArrives, RunsInUseAreMinted
  <2>2. kind = "ready" => container.expiry # Absent
    BY <1>5 DEF CallbackArrives, KindsOf
  <2>3. /\ CallbackOf(container, kind).run = container.run
        /\ CallbackOf(container, kind).kind = kind
        /\ kind = "ready" => CallbackOf(container, kind).expiry = container.expiry
    BY DEF CallbackOf
  <2> QED BY <2>1, <2>2, <2>3 DEF ExpiriesAgree
<1>6. ASSUME NEW c \in callbacks, CallbackApplies(c) PROVE ExpiriesAgree'
  <2>1. /\ store'.job.run = store.job.run
        /\ store'.job.window =
             IF store.job.run = c.run /\ c.kind = "ready" THEN c.expiry ELSE store.job.window
    BY <1>1, <1>6, ContainerCallbackConfines DEF CallbackApplies
  <2>2. callbacks' \subseteq callbacks /\ container' = container /\ minted' = minted
    BY <1>6 DEF CallbackApplies
  <2> QED BY <2>1, <2>2 DEF ExpiriesAgree
<1>7. CASE Alarm
  <2>1. /\ Narrows(store, store') \/ store'.job.run = NoRun
        /\ callbacks' = callbacks /\ container' = container /\ minted' = minted
    BY <1>1, <1>7, RunAlarmConfines DEF Alarm, volatile
  <2> QED BY <1>1, <2>1, ExpiriesKept DEF Narrows
<1>8. CASE Tick
  <2>1. /\ store'.job.run = store.job.run /\ store'.job.window = Down(store.job.window)
        /\ callbacks' = {} /\ minted' = minted
    BY <1>1, <1>8, AgeConfines DEF Tick
  <2>2. container'.run = container.run /\ container'.expiry = Down(container.expiry)
    BY <1>1, <1>8 DEF Tick, Container
  <2>3. Down(Absent) = Absent
    BY DEF Down, Absent
  <2> QED BY <2>1, <2>2, <2>3 DEF ExpiriesAgree
<1> QED BY <1>2, <1>3, <1>4, <1>5, <1>6, <1>7, <1>8, NextCases

\* What the added conjuncts need to know of a step: its store is confined, and
\* a container that runs after it served no failed run before it.
LEMMA AddedParts ==
  ASSUME IInv',
         Confined(store'),
         LinksEndInTime', ExpiriesAgree',
         container' # NoContainer => Unlinked(store'),
         store'.access.run \in minted' \cup {NoRun},
         container'.run = NoRun => container'.task = "none",
         granted' \subseteq Tokens,
         downloads' \subseteq Download,
         stream' \in Stream \cup {NoStream},
         stream'.token # NoToken => ~stream'.failed
  PROVE  DInv'
  BY DEF DInv, IInv, DeliveryTypeOK, FailedRunServesNothing, TokensBelongToMintedRuns,
         ContainersHaveRuns, NoStreamAfterFailure

\* A step of the job serves nobody.
LEMMA JobStep ==
  ASSUME DInv, Next, stream' = NoStream, granted' = granted, downloads' \subseteq downloads
  PROVE  DInv'
<1> USE DEF DInv, IInv
<1>1. IInv'
  BY NextIInv
<1>2. store \in Store /\ store' \in Store
  BY <1>1 DEF TypeOK
<1>3. /\ granted' \subseteq Tokens
      /\ downloads' \subseteq Download
      /\ stream' \in Stream \cup {NoStream}
      /\ stream'.token # NoToken => ~stream'.failed
  BY DEF DeliveryTypeOK, NoStream
<1>4. SUFFICES /\ Confined(store')
               /\ container' # NoContainer => Unlinked(store')
               /\ store'.access.run \in minted' \cup {NoRun}
               /\ container'.run = NoRun => container'.task = "none"
  BY <1>1, <1>3, AddedParts, JobStepLinks, JobStepExpiries
<1>5. container = NoContainer \/ Unlinked(store)
  BY DEF FailedRunServesNothing
<1>6. NoContainer.task = "none"
  BY DEF NoContainer
<1>7. CASE ReadStatus \/ StartArrives
  <2>1. /\ store' = FailExpiredRunIfNeeded(store)
        /\ container' = container /\ minted' = minted
    BY <1>7 DEF ReadStatus, StartArrives, volatile
  <2>2. Narrows(store, store')
    BY <1>2, <2>1, FailExpiredRunNarrows
  <2> QED BY <1>2, <1>5, <2>1, <2>2, NarrowsKeeps
          DEF Narrows, NoAccess, TokensBelongToMintedRuns, ContainersHaveRuns
<1>8. CASE StartRejected \/ ContainerExits \/ Restart \/ \E kind \in CallbackKind : CallbackArrives(kind)
  <2>1. store' = store /\ container' \in {container, NoContainer} /\ minted' = minted
    BY <1>8 DEF StartRejected, ContainerExits, StopContainer, Restart, CallbackArrives
  <2> QED BY <1>5, <1>6, <2>1 DEF TokensBelongToMintedRuns, ContainersHaveRuns
<1>9. ASSUME NEW r \in Runs, MonitorSettles(r)
      PROVE  /\ Confined(store')
             /\ container' = NoContainer
             /\ store'.access.run \in minted' \cup {NoRun}
  <2>1. /\ store'.job.run = store.job.run /\ store'.job.window = store.job.window
        /\ store'.session = store.session /\ store'.access = store.access
    BY <1>2, <1>9 DEF MonitorSettles, SettleRun, FailJob, Store, JobRecord
  <2> QED BY <1>9, <2>1 DEF MonitorSettles, Confined, TokensBelongToMintedRuns
<1>10. ASSUME NEW r \in Runs, MonitorFinishes(r)
       PROVE  /\ Confined(store')
              /\ container' = container
              /\ Unlinked(store) => Unlinked(store')
              /\ store'.access.run \in minted' \cup {NoRun}
  <2>1. Narrows(store, store') /\ container' = container /\ minted' = minted
    BY <1>2, <1>10, ReleaseRunNarrows DEF MonitorFinishes
  <2> QED BY <1>2, <2>1, NarrowsKeeps DEF Narrows, NoAccess, TokensBelongToMintedRuns
<1>11. CASE StartSomeRun
  <2>1. PICK r \in Runs, task \in Task \ {"none"}, hard \in HardTimeouts : StartRun(r, task, hard)
    BY <1>11 DEF StartSomeRun
  <2>2. store'.job.run = r /\ r \notin minted /\ minted' = minted \cup {r}
    BY <1>2, <2>1, StartRunEffect
  <2>3. store'.access = store.access
    BY <1>2, <2>1, StartKeepsAccess
  <2>4. store'.access.run # store'.job.run
    BY <2>2, <2>3, StoreConstants DEF TokensBelongToMintedRuns
  <2>5. container' = container \/ container'.run = r
    BY <2>1 DEF StartRun
  <2> QED BY <2>2, <2>3, <2>4, <2>5, StoreConstants
          DEF Confined, Unlinked, TokensBelongToMintedRuns, ContainersHaveRuns
<1>12. ASSUME NEW c \in callbacks, CallbackApplies(c)
       PROVE  /\ Confined(store')
              /\ container' = container
              /\ Unlinked(store) => Unlinked(store')
              /\ store'.access.run \in minted' \cup {NoRun}
  <2>1. c \in Callback
    BY DEF TypeOK
  <2>2. store' = ContainerCallback(store, c) /\ container' = container /\ minted' = minted
    BY <1>12 DEF CallbackApplies
  <2> QED BY <1>2, <2>1, <2>2, ContainerCallbackConfines
          DEF NoAccess, TokensBelongToMintedRuns
<1>15. CASE ContainerListens
  BY <1>5, <1>15
     DEF ContainerListens, NoContainer, TokensBelongToMintedRuns, ContainersHaveRuns, TypeOK,
         Container
<1>13. CASE Alarm
  <2>1. store' = RunAlarm(store) /\ container' = container /\ minted' = minted
    BY <1>13 DEF Alarm, volatile
  <2> QED BY <1>2, <1>5, <2>1, RunAlarmConfines DEF TokensBelongToMintedRuns, ContainersHaveRuns
<1>14. CASE Tick
  <2>1. store' = Age(store) /\ minted' = minted
    BY <1>14 DEF Tick
  <2>2. /\ container'.run = container.run /\ container'.task = container.task
        /\ container = NoContainer => container' = NoContainer
    <3>1. /\ container \in Container
          /\ container' = [container EXCEPT !.left = Down(@), !.expiry = Down(@)]
      BY <1>14 DEF Tick, TypeOK
    <3>2. [NoContainer EXCEPT !.left = Down(@), !.expiry = Down(@)] = NoContainer
      <4>1. Down(NoContainer.left) = NoContainer.left
        BY DEF NoContainer, Down
      <4>2. Down(NoContainer.expiry) = NoContainer.expiry
        BY DEF NoContainer, Down, Absent
      <4> QED BY <4>1, <4>2, NoContainerType DEF Container
    <3>3. container'.run = container.run /\ container'.task = container.task
      BY <3>1 DEF Container
    <3> QED BY <3>1, <3>2, <3>3
  <2> QED BY <1>2, <1>5, <2>1, <2>2, AgeConfines DEF TokensBelongToMintedRuns, ContainersHaveRuns
<1> QED BY <1>5, <1>6, <1>7, <1>8, <1>9, <1>10, <1>11, <1>12, <1>13, <1>14, <1>15, NextCases
        DEF SettlingActions, ContainersHaveRuns

\* For the job a delivery handler is a status request: all it adds is the token.
LEMMA DeliverySettles ==
  ASSUME DInv, History, NEW s \in Store,
         s = FailExpiredRunIfNeeded(store),
         NEW a \in ArtifactAccess, store' = [s EXCEPT !.access = a],
         UNCHANGED <<volatile, minted, restarts>>
  PROVE  IInv'
<1> USE DEF DInv, IInv
<1>1. store \in Store /\ starts \in Nat /\ restarts \in Nat /\ monitors \in [Runs -> MonitorState]
  BY DEF TypeOK
<1>2. /\ Settles(store, s)
      /\ s.job.status = "running" /\ Supervises(store) => KeepsSupervision(store, s)
  BY <1>1, FailExpiredRunEffect
<1>3. /\ store' \in Store
      /\ store'.job = s.job /\ store'.session = s.session /\ store'.timeout = s.timeout
      /\ store'.cleanup = s.cleanup /\ store'.alarm = s.alarm
  BY DEF Store
<1>4. Settles(store, store')
  BY <1>2, <1>3 DEF Settles, Covered
<1>5. store'.job.status = "running" /\ Supervises(store) => KeepsSupervision(store, store')
  BY <1>2, <1>3 DEF KeepsSupervision
<1>6. MonitorsAdvance
  BY <1>1, <1>4 DEF MonitorsAdvance, volatile, Settles
<1>7. ContainerAdvances
  BY DEF ContainerAdvances, volatile, TypeOK
<1> QED BY <1>1, <1>4, <1>5, <1>6, <1>7, SettlingStep DEF volatile

LEMMA DeliveryAgrees ==
  ASSUME DInv, History, NEW s \in Store,
         s = FailExpiredRunIfNeeded(store),
         store'.job = s.job, UNCHANGED <<volatile, minted>>
  PROVE  /\ ExpiriesAgree'
         /\ store'.access \in {s.access, NoAccess} => LinksEndInTime'
<1> USE DEF DInv, IInv
<1>1. store \in Store /\ callbacks \subseteq Callback
  BY DEF TypeOK
<1>2. Settles(store, s) /\ Narrows(store, s)
  BY <1>1, FailExpiredRunEffect, FailExpiredRunNarrows
<1>3. \A r \in Runs : Live(r)' => Live(r)
  BY <1>2 DEF Settles, Live, Terminal, History
<1>4. /\ store'.job.run = store.job.run /\ store'.job.window = store.job.window
      /\ s.access \in {store.access, NoAccess}
  BY <1>2 DEF Narrows
<1>5. ExpiriesAgree'
  BY <1>1, <1>4, ExpiriesKept DEF volatile
<1>6. store'.access \in {s.access, NoAccess} => LinksEndInTime'
  BY <1>3, <1>4, LinksKept DEF KeepsLink
<1> QED BY <1>5, <1>6

LEMMA WriteArtifactAccessEffect ==
  ASSUME NEW s \in Store, Confined(s), s.job.run \in Runs, Deliverable(s), NEW token \in Tokens
  PROVE  LET a == [run |-> s.session, token |-> token, left |-> Capped(s, Window)]
         IN  /\ a \in ArtifactAccess
             /\ WriteArtifactAccess(ClearArtifactAccess(s), token) = [s EXCEPT !.access = a]
             /\ Confined([s EXCEPT !.access = a])
             /\ Unlinked([s EXCEPT !.access = a])
             /\ s.job.status = "running" => a.left \in 0..s.job.window
<1> DEFINE a == [run |-> s.session, token |-> token, left |-> Capped(s, Window)]
           cleared == ClearArtifactAccess(s)
<1>1. /\ s.session = s.job.run /\ s.job.window # 0 /\ s.job.status # "failed"
      /\ s.job.window \in Countdown
  BY DEF Deliverable, Store, JobRecord
<1>2. /\ Capped(s, Window) \in Nat /\ Capped(s, Window) <= Window
      /\ s.job.window # Absent => Capped(s, Window) <= s.job.window
  BY <1>1, StoreConstants DEF Capped, Earliest, Countdown, Absent
<1>3. a \in ArtifactAccess
  BY <1>1, <1>2 DEF ArtifactAccess, Countdown
<1>4. /\ cleared.session = s.session /\ cleared.job = s.job
      /\ \A b : [cleared EXCEPT !.access = b] = [s EXCEPT !.access = b]
  BY DEF ClearArtifactAccess, Store
<1>5. WriteArtifactAccess(cleared, token) = [s EXCEPT !.access = a]
  BY <1>4, Zenon DEF WriteArtifactAccess, Capped
<1>6. /\ [s EXCEPT !.access = a].access = a
      /\ [s EXCEPT !.access = a].job = s.job
      /\ [s EXCEPT !.access = a].session = s.session
  BY DEF Store
<1>7. a.run = s.session /\ a.left = Capped(s, Window)
  OBVIOUS
<1>9. s.job.status = "running" => a.left \in 0..s.job.window
  BY <1>1, <1>2 DEF Deliverable, ArtifactReady, Countdown, Absent
<1> HIDE DEF a, cleared
<1>8. Confined([s EXCEPT !.access = a]) /\ Unlinked([s EXCEPT !.access = a])
  BY <1>1, <1>2, <1>6, <1>7 DEF Confined, Unlinked
<1> QED BY <1>3, <1>5, <1>8, <1>9 DEF a, cleared

LEMMA NoAccessConfines ==
  ASSUME NEW s \in Store
  PROVE  /\ NoAccess \in ArtifactAccess
         /\ ClearArtifactAccess(s) = [s EXCEPT !.access = NoAccess]
         /\ Confined(ClearArtifactAccess(s)) /\ Unlinked(ClearArtifactAccess(s))
         /\ ClearArtifactAccess(s).access.run = NoRun
<1>1. ClearArtifactAccess(s).access = NoAccess
  BY DEF ClearArtifactAccess, Store
<1>2. NoAccess \in ArtifactAccess
  BY DEF NoAccess, ArtifactAccess, Countdown, Absent
<1> QED BY <1>1, <1>2, NoAccessHasNoRun
        DEF Confined, Unlinked, ClearArtifactAccess, NoAccess

LEMMA DeliveryStepDInv ==
  ASSUME DInv, DeliveryStep, History
  PROVE  DInv'
<1> USE DEF DInv, IInv
<1> DEFINE s == FailExpiredRunIfNeeded(store)
<1>1. store \in Store /\ s \in Store
  BY FailExpiredRunIfNeededType DEF TypeOK
<1>2. Narrows(store, s)
  BY <1>1, FailExpiredRunNarrows
<1>3. Confined(s) /\ (Unlinked(store) => Unlinked(s))
  BY <1>1, <1>2, NarrowsKeeps
<1>4. s.job.run \in minted \cup {NoRun} /\ s.access.run \in minted \cup {NoRun}
  BY <1>2 DEF Narrows, NoAccess, TokensBelongToMintedRuns, RunsInUseAreMinted
<1>5. s.access \in ArtifactAccess /\ s = [s EXCEPT !.access = s.access]
  BY <1>1 DEF Store
<1>6. NoStream.token = NoToken
  BY DEF NoStream
<1>7. minted \subseteq Runs
  BY DEF TypeOK
<1> HIDE DEF s
<1>8. CASE RequestAccess
  <2>1. /\ stream' = NoStream /\ downloads' = downloads
        /\ UNCHANGED <<volatile, minted, restarts>>
    BY <1>8 DEF RequestAccess
  <2>2. CASE store' = s /\ granted' = granted
    <3>1. IInv'
      BY <1>1, <1>5, <2>1, <2>2, DeliverySettles DEF s
    <3>2. LinksEndInTime' /\ ExpiriesAgree'
      BY <1>1, <2>1, <2>2, DeliveryAgrees DEF s
    <3> QED BY <1>3, <1>4, <1>6, <2>1, <2>2, <3>1, <3>2, AddedParts
            DEF DeliveryTypeOK, FailedRunServesNothing, ContainersHaveRuns, volatile
  <2>3. ASSUME NEW token \in Tokens \ granted, Deliverable(s),
               store' = WriteArtifactAccess(ClearArtifactAccess(s), token),
               granted' = granted \cup {token}
        PROVE  DInv'
    <3> DEFINE a == [run |-> s.session, token |-> token, left |-> Capped(s, Window)]
    <3>1. s.session = s.job.run /\ s.job.run \in Runs
      BY <1>4, <1>7, <2>3 DEF Deliverable
    <3>2. /\ a \in ArtifactAccess /\ store' = [s EXCEPT !.access = a]
          /\ Confined(store') /\ Unlinked(store')
          /\ s.job.status = "running" => a.left \in 0..s.job.window
      BY <1>1, <1>3, <2>3, <3>1, WriteArtifactAccessEffect
    <3>3. store'.access.run \in minted' \cup {NoRun}
      BY <1>1, <1>4, <2>1, <3>1, <3>2 DEF Store
    <3> HIDE DEF a
    <3>4. IInv'
      BY <1>1, <2>1, <3>2, DeliverySettles DEF s
    <3>5. store'.job = s.job /\ store'.access = a
      BY <1>1, <3>2 DEF Store
    <3>6. ExpiriesAgree'
      BY <1>1, <2>1, <3>5, DeliveryAgrees DEF s
    <3>7. LinksEndInTime'
      BY <3>2, <3>5 DEF LinksEndInTime, Live
    <3> QED BY <1>6, <2>1, <2>3, <3>2, <3>3, <3>4, <3>6, <3>7, AddedParts
            DEF DeliveryTypeOK, ContainersHaveRuns, volatile
  <2> QED BY <1>8, <2>2, <2>3 DEF RequestAccess, s
<1>9. ASSUME NEW token \in granted \cup {NoToken}, DownloadArrives(token) PROVE DInv'
  <2>1. /\ stream' = NoStream /\ granted' = granted
        /\ UNCHANGED <<volatile, minted, restarts>>
    BY <1>9 DEF DownloadArrives
  <2>2. downloads' \subseteq Download
    <3>1. Deliverable(s) => s.session \in Runs
      BY <1>4, <1>7 DEF Deliverable
    <3>2. token \in Tokens \cup {NoToken}
      BY DEF DeliveryTypeOK
    <3>3. downloads' = downloads
            \/ (Deliverable(s) /\ downloads' = downloads \cup {[run |-> s.session, token |-> token]})
      BY <1>9 DEF DownloadArrives, s
    <3> QED BY <3>1, <3>2, <3>3 DEF Download, DeliveryTypeOK
  <2>3. store' \in {s, ClearArtifactAccess(s)}
    BY <1>9 DEF DownloadArrives, AfterValidation, s
  <2>4. CASE store' = s
    <3>1. IInv'
      BY <1>1, <1>5, <2>1, <2>4, DeliverySettles DEF s
    <3>2. LinksEndInTime' /\ ExpiriesAgree'
      BY <1>1, <2>1, <2>4, DeliveryAgrees DEF s
    <3> QED BY <1>3, <1>4, <1>6, <2>1, <2>2, <2>4, <3>1, <3>2, AddedParts
            DEF DeliveryTypeOK, FailedRunServesNothing, ContainersHaveRuns, volatile
  <2>5. CASE store' = ClearArtifactAccess(s)
    <3>1. IInv'
      BY <1>1, <2>1, <2>5, NoAccessConfines, DeliverySettles DEF s
    <3>2. store'.job = s.job /\ store'.access = NoAccess
      BY <1>1, <2>5 DEF ClearArtifactAccess, Store
    <3>3. LinksEndInTime' /\ ExpiriesAgree'
      BY <1>1, <2>1, <3>2, DeliveryAgrees DEF s
    <3> QED BY <1>1, <1>6, <2>1, <2>2, <2>5, <3>1, <3>3, AddedParts, NoAccessConfines
            DEF DeliveryTypeOK, ContainersHaveRuns, volatile
  <2> QED BY <2>3, <2>4, <2>5
<1>10. ASSUME NEW d \in downloads, DownloadConnects(d) \/ DownloadFails(d) PROVE DInv'
  <2>1. /\ UNCHANGED <<store, container, starts, callbacks, monitors, minted, restarts, granted>>
        /\ downloads' \subseteq downloads
    BY <1>10 DEF DownloadConnects, DownloadFails, volatile
  <2>2. IInv' /\ LinksEndInTime' /\ ExpiriesAgree'
    <3>1. store.job.status \in Terminal => store.job.run \in ended
      BY DEF TerminalRunHasEnded
    <3>2. ended' = ended
      BY <2>1, <3>1 DEF History, EndedRuns
    <3> QED BY <2>1, <3>2, NextIInv DEF vars, LinksEndInTime, Live, ExpiriesAgree
  <2>3. stream' \in Stream \cup {NoStream} /\ (stream'.token # NoToken => ~stream'.failed)
    <3>1. CASE stream' = NoStream
      BY <1>6, <3>1
    <3>2. CASE stream' # NoStream
      <4>1. DownloadConnects(d) /\ StillGranted(store, d)
        BY <1>10, <3>2 DEF DownloadConnects, DownloadFails
      <4>2. stream' = [run |-> d.run, token |-> d.token, source |-> container.run,
                       failed |-> store.job.run = d.run /\ store.job.status = "failed"]
        BY <4>1 DEF DownloadConnects
      <4>3. container.task = "download" /\ d \in Download /\ container \in Container
        BY <4>1 DEF DownloadConnects, DeliveryTypeOK, TypeOK
      <4>4. container.run \in Runs /\ container # NoContainer
        BY <4>3 DEF ContainersHaveRuns, Container, NoContainer
      <4>5. d.token # NoToken => ~(store.job.run = d.run /\ store.job.status = "failed")
        BY <4>1, <4>3, <4>4 DEF StillGranted, FailedRunServesNothing, Unlinked, Download
      <4> QED BY <4>2, <4>3, <4>4, <4>5 DEF Stream, Download
    <3> QED BY <3>1, <3>2
  <2> QED BY <2>1, <2>2, <2>3, AddedParts
          DEF DeliveryTypeOK, FailedRunServesNothing, TokensBelongToMintedRuns, ContainersHaveRuns
<1> QED BY <1>8, <1>9, <1>10 DEF DeliveryStep

LEMMA NextDInv == DInv /\ [DeliveryNext]_allVars => DInv'
<1> SUFFICES ASSUME DInv, [DeliveryNext]_allVars PROVE DInv'
  OBVIOUS
<1>1. CASE DeliveryStep /\ History
  BY <1>1, DeliveryStepDInv
<1>2. CASE /\ (Step \/ Tick \/ Restart) /\ History
           /\ stream' = NoStream /\ granted' = granted /\ downloads' \subseteq downloads
  BY <1>2, JobStep DEF Next
<1>3. CASE UNCHANGED allVars
  <2>1. IInv'
    BY <1>3, NextIInv DEF DInv, allVars, vars
  <2> QED BY <1>3, <2>1, AddedParts
          DEF DInv, allVars, DeliveryTypeOK, LinksEndInTime, Live, ExpiriesAgree,
              FailedRunServesNothing, TokensBelongToMintedRuns, ContainersHaveRuns,
              NoStreamAfterFailure
<1> QED BY <1>1, <1>2, <1>3 DEF DeliveryNext

-----------------------------------------------------------------------------
(***************************************************************************)
(* Theorems.                                                               *)
(***************************************************************************)

\* The inductive invariant: the guarantees of the job survive link requests and
\* downloads in any order, and no token of a failed run can be served.
THEOREM DeliveryInvariant == DeliverySpec => []DInv
  BY InitDInv, NextDInv, PTL DEF DeliverySpec

\* Download handlers remember only runs and tokens that exist, and a stream
\* always has a container as its source.
THEOREM DeliveryTypeCorrect == DeliverySpec => []DeliveryTypeOK
<1>1. DInv => DeliveryTypeOK
  BY DEF DInv
<1> QED BY <1>1, DeliveryInvariant, PTL

\* A live run's token never outlives the expiry its container fixed when it
\* began to listen, although the record learns of that only by callbacks that
\* are repeated or late.
THEOREM TokensEndWithTheWindow == DeliverySpec => []TokenWithinWindow
<1>1. DInv => TokenWithinWindow
  <2> SUFFICES ASSUME DInv, NEW r \in Runs, Live(r), store.access.run = r
               PROVE  /\ store.access.left <= store.job.window
                      /\ container.run = r => store.access.left <= container.expiry
    BY DEF TokenWithinWindow
  <2>1. store.access.left \in 0..store.job.window /\ store.job.window # Absent
    BY DEF DInv, LinksEndInTime, Absent
  <2>2. container.run = r => container.expiry = store.job.window
    BY <2>1, StoreConstants DEF DInv, ExpiriesAgree, Live
  <2> QED BY <2>1, <2>2
<1> QED BY <1>1, DeliveryInvariant, PTL

\* The second look at the token is enough: no token opens a stream of a run
\* that is on record as failed.
THEOREM FailedRunsStreamNothing == DeliverySpec => []NoStreamAfterFailure
<1>1. DInv => NoStreamAfterFailure
  BY DEF DInv
<1> QED BY <1>1, DeliveryInvariant, PTL

\* A live run's bytes come from its own container, though the handler reaches
\* whichever container runs when it connects.
THEOREM StreamsComeFromTheirRun == DeliverySpec => StreamComesFromItsRun
<1>1. ASSUME DInv, DInv', [DeliveryNext]_allVars
      PROVE  [stream' # NoStream /\ Live(stream'.run) => stream'.source = stream'.run]_allVars
  <2> SUFFICES ASSUME DeliveryNext, stream' # NoStream, Live(stream'.run)
               PROVE  stream'.source = stream'.run
    BY <1>1
  <2>1. PICK d \in downloads : DownloadConnects(d)
    BY DEF DeliveryNext, DeliveryStep, RequestAccess, DownloadArrives, DownloadFails
  <2>2. stream'.run = d.run /\ stream'.source = container.run /\ d.run \in Runs
    BY <1>1, <2>1 DEF DownloadConnects, DInv, DeliveryTypeOK, Download
  <2>3. container.run # NoRun
    BY <1>1, <2>1 DEF DownloadConnects, DInv, ContainersHaveRuns
  <2>4. container.run \in {d.run, NoRun}
    BY <1>1, <2>2 DEF DInv, IInv, LiveRunIsSupervised
  <2> QED BY <2>2, <2>3, <2>4
<1> QED BY <1>1, DeliveryInvariant, PTL DEF DeliverySpec, StreamComesFromItsRun

\* While both states of a step show a supervised run live, a method of the
\* store that may revoke its session leaves its token alone.
LEMMA NarrowsSparesLiveRun ==
  ASSUME NEW s \in Store, Narrows(store, s), KeepsSupervision(store, s)
  PROVE  s.access = store.access
  BY DEF Narrows, KeepsSupervision

LEMMA LinkSurvives ==
  ASSUME DInv, DInv', DeliveryNext, NEW r \in Runs,
         Live(r), Live(r)', store.access.run = r, store.access.left > 0
  PROVE  store'.access.token = store.access.token
<1> USE DEF DInv, IInv
<1> DEFINE s == FailExpiredRunIfNeeded(store)
<1>1. /\ store \in Store /\ s \in Store /\ store' \in Store
      /\ store.job.run = r /\ store'.job.run = r
      /\ store'.job.status = "running" /\ r \notin ended
  BY FailExpiredRunIfNeededType DEF TypeOK, Live
<1>2. Supervises(store) /\ store.session = r
  BY <1>1 DEF LiveRunIsSupervised, Supervises
<1>3. s.job.status = "running" => s.access = store.access /\ s.session = r /\ s.job = store.job
  <2>1. /\ s.job.status = "running" => KeepsSupervision(store, s)
        /\ Narrows(store, s)
    BY <1>1, <1>2, FailExpiredRunEffect, FailExpiredRunNarrows
  <2>2. s.job.status = "running" => s.job = store.job
    <3>1. \A x \in Store : /\ ScheduleNextAlarm(ClearRunTimeout(x)).job = x.job
                           /\ FailJob(x, "other") \in Store
      BY ScheduleNextAlarmEffect, ClearType, FailJobType
         DEF ClearRunTimeout, FailureClass, Store
    <3>2. ASSUME NEW x \in Store, NEW q
          PROVE  ScheduleCleanup(ClearSessionForRun(ClearRunTimeoutForRun(x, q), q)).job = x.job
      <4> DEFINE dropped == ClearRunTimeoutForRun(x, q)
                 closed == ClearSessionForRun(dropped, q)
      <4>1. dropped \in Store /\ dropped.job = x.job
        BY ClearType, ClearEffect
      <4> HIDE DEF dropped
      <4>2. closed \in Store /\ closed.job = dropped.job
        BY <4>1, ClearType, ClearEffect
      <4> HIDE DEF closed
      <4>3. ScheduleCleanup(closed).job = x.job
        BY <4>1, <4>2, ScheduleCleanupEffect
      <4> QED BY <4>3 DEF closed, dropped
    <3>3. FailJob(store, "other").job.status = "failed"
      BY <1>1, FailJobEffect
    <3> QED BY <1>1, <3>1, <3>2, <3>3 DEF FailExpiredRunIfNeeded
  <2> QED BY <1>1, <1>2, <2>1, <2>2, NarrowsSparesLiveRun DEF KeepsSupervision
<1> HIDE DEF s
<1>4. CASE RequestAccess
  <2>1. CASE store' = s
    BY <1>1, <1>3, <2>1
  <2>2. ASSUME NEW token \in Tokens, Deliverable(s), ~Reusable(s),
               store' = WriteArtifactAccess(ClearArtifactAccess(s), token)
        PROVE  FALSE
    <3>1. store'.job = s.job
      BY <1>1, <2>2 DEF WriteArtifactAccess, ClearArtifactAccess, Store
    <3>2. s.access = store.access /\ s.session = r /\ s.job.window # 0
      BY <1>1, <1>3, <2>2, <3>1 DEF Deliverable
    <3>3. s.access.left \in Countdown /\ s.job.window \in Countdown
      BY <1>1 DEF Store, ArtifactAccess, JobRecord
    <3>4. Capped(s, s.access.left) > 0
      BY <3>2, <3>3 DEF Capped, Earliest, Countdown, Absent
    <3> QED BY <2>2, <3>2, <3>4 DEF Reusable
  <2> QED BY <1>4, <2>1, <2>2 DEF RequestAccess, s
<1>5. ASSUME NEW token \in granted \cup {NoToken}, DownloadArrives(token)
      PROVE  store'.access.token = store.access.token
  <2>1. CASE store' = s
    BY <1>1, <1>3, <2>1
  <2>2. CASE store' = AfterValidation(s, token)
    <3>1. store'.job = s.job
      BY <1>1, <2>2 DEF AfterValidation, ClearArtifactAccess, Store
    <3>2. AfterValidation(s, token) = s
      BY <1>1, <1>3, <3>1 DEF AfterValidation
    <3> QED BY <1>1, <1>3, <2>2, <3>1, <3>2
  <2> QED BY <1>5, <2>1, <2>2 DEF DownloadArrives, s
<1>6. ASSUME NEW d \in downloads, DownloadConnects(d) \/ DownloadFails(d)
      PROVE  store'.access.token = store.access.token
  BY <1>6 DEF DownloadConnects, DownloadFails
<1>7. CASE ReadStatus \/ StartArrives
  BY <1>1, <1>3, <1>7 DEF ReadStatus, StartArrives, s
<1>8. CASE \/ StartRejected \/ ContainerListens \/ ContainerExits \/ Restart
           \/ \E kind \in CallbackKind : CallbackArrives(kind)
  BY <1>8 DEF StartRejected, ContainerListens, ContainerExits, Restart, CallbackArrives
<1>9. ASSUME NEW q \in Runs, MonitorSettles(q)
      PROVE  store'.access.token = store.access.token
  BY <1>1, <1>9 DEF MonitorSettles, SettleRun, FailJob, Store
<1>10. ASSUME NEW q \in Runs, MonitorFinishes(q)
       PROVE  store'.access.token = store.access.token
  <2>1. q # r
    BY <1>1, <1>10 DEF MonitorFinishes, ReleasedRunHasEnded
  <2>2. Narrows(store, store') /\ KeepsSupervision(store, store')
    BY <1>1, <1>2, <1>10, <2>1, ReleaseRunNarrows, ReleaseRunEffect DEF MonitorFinishes
  <2> QED BY <1>1, <2>2, NarrowsSparesLiveRun
<1>11. CASE StartSomeRun
  <2>1. PICK q \in Runs, task \in Task \ {"none"}, hard \in HardTimeouts : StartRun(q, task, hard)
    BY <1>11 DEF StartSomeRun
  <2>2. store'.job.run = q /\ q \notin minted
    BY <1>1, <2>1, StartRunEffect
  <2> QED BY <1>1, <2>2, StoreConstants DEF RunsInUseAreMinted
<1>12. ASSUME NEW c \in callbacks, CallbackApplies(c)
       PROVE  store'.access.token = store.access.token
  <2>1. c \in Callback /\ store' = ContainerCallback(store, c)
    BY <1>12 DEF CallbackApplies, TypeOK
  <2>2. CASE StatusOf(c.kind) \in Terminal /\ store.job.run = c.run
    <3>1. StatusOf(c.kind) # "running"
      BY <2>2 DEF Terminal
    <3>2. ApplyToRecord(store.job, c).status = StatusOf(c.kind)
      BY <1>1 DEF ApplyToRecord, Store, JobRecord
    <3>3. store'.job = ApplyToRecord(store.job, c)
      BY <1>1, <2>1, <2>2 DEF ContainerCallback, ClearArtifactAccessForRun, ClearArtifactAccess, Store
    <3> QED BY <1>1, <3>1, <3>2, <3>3
  <2>3. CASE ~(StatusOf(c.kind) \in Terminal /\ store.job.run = c.run)
    <3> DEFINE written == [store EXCEPT !.job = ApplyToRecord(@, c)]
    <3>1. written.access = store.access
      BY <1>1 DEF Store
    <3>2. written \in Store
      <4>1. c.kind \in CallbackKind /\ c.expiry \in Countdown
        BY <2>1, CallbackFields
      <4>2. StatusOf(c.kind) \in JobStatus
        BY <4>1 DEF StatusOf, CallbackKind, JobStatus
      <4>3. ApplyToRecord(store.job, c) \in JobRecord
        BY <1>1, <4>1, <4>2 DEF ApplyToRecord, Store, JobRecord, FailureClass
      <4> QED BY <1>1, <4>3 DEF Store
    <3> HIDE DEF written
    <3>3. \A hard : ScheduleRunTimeout(written, c.run, hard).access = written.access
      BY <3>2 DEF ScheduleRunTimeout, ScheduleNextAlarm, Store
    <3>4. store' \in {store, written, ScheduleRunTimeout(written, c.run, HardTimeoutOf(store, c.run))}
      BY <2>1, <2>3 DEF ContainerCallback, written
    <3> QED BY <3>1, <3>3, <3>4
  <2> QED BY <2>2, <2>3
<1>13. CASE Alarm
  <2>1. store' = RunAlarm(store)
    BY <1>13 DEF Alarm
  <2>2. store.cleanup # 0
    BY <1>1, <2>1, StoreConstants DEF RunAlarm, EmptyStore, NoJob
  <2> DEFINE rung == [store EXCEPT !.alarm = Absent]
             settled == FailExpiredRunIfNeeded(rung)
  <2>3. store' = ScheduleNextAlarm(settled)
    BY <2>1, <2>2 DEF RunAlarm
  <2>4. /\ rung \in Store /\ rung.access = store.access /\ rung.session = store.session
        /\ rung.job = store.job /\ rung.timeout = store.timeout
    BY <1>1 DEF Store, Countdown
  <2> HIDE DEF rung
  <2>5. /\ Narrows(rung, settled) /\ settled \in Store
        /\ settled.job.status = "running" /\ Supervises(rung) => KeepsSupervision(rung, settled)
    BY <2>4, FailExpiredRunNarrows, FailExpiredRunIfNeededType, FailExpiredRunEffect
  <2> HIDE DEF settled
  <2>6. store'.job = settled.job /\ store'.access = settled.access
    BY <2>3, <2>5, ScheduleNextAlarmEffect, AccessUntouched
  <2> QED BY <1>1, <1>2, <2>4, <2>5, <2>6 DEF Supervises, KeepsSupervision, Narrows
<1>14. CASE Tick
  BY <1>1, <1>14 DEF Tick, Age, Store, ArtifactAccess
<1>15. CASE Next
  BY <1>7, <1>8, <1>9, <1>10, <1>11, <1>12, <1>13, <1>14, <1>15, NextCases DEF SettlingActions
<1> QED BY <1>4, <1>5, <1>6, <1>15 DEF DeliveryNext, DeliveryStep, Next

\* A link in a client's hands works until it expires as long as its run lives.
THEOREM LinksKeepWorking == DeliverySpec => LinkKeepsWorking
<1>1. ASSUME DInv, DInv', [DeliveryNext]_allVars
      PROVE  [\A r \in Runs :
                Live(r) /\ Live(r)' /\ store.access.run = r /\ store.access.left > 0
                  => store'.access.token = store.access.token]_allVars
  BY <1>1, LinkSurvives
<1> QED BY <1>1, DeliveryInvariant, PTL DEF DeliverySpec, LinkKeepsWorking
=============================================================================
