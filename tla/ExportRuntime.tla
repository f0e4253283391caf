---------------------------- MODULE ExportRuntime ----------------------------
(***************************************************************************)
(* One run of the container: export-runner.ts in one of its modes, the     *)
(* callbacks it posts, the record they end in, and what has become of the  *)
(* target.  Each mode is a list of steps, taken in order; a step either    *)
(* reads, writes the target, or posts a callback and waits for its answer. *)
(* Callbacks that follow each other with nothing in between are one step.  *)
(* The download mode is in ArtifactLiveStream.                             *)
(***************************************************************************)
EXTENDS DatabaseRestore, SequencesExt

CONSTANTS
  Modes,             \* the modes a run may have
  CallbackAttempts,  \* attempts of postCallback (4)
  DownloadAttempts,  \* attempts of downloadBackup
  MaxLate            \* bound: posts nobody waits for that are under way

AllModes == {"edge", "postgres", "backup", "backup_only", "storage", "storage_helper",
             "db_clone", "probe", "inspect"}

ASSUME RuntimeConstants ==
  /\ Modes \subseteq AllModes
  /\ {CallbackAttempts, DownloadAttempts} \subseteq Nat \ {0} /\ MaxLate \in Nat

VARIABLES
  mode,
  todo,     \* the steps to go; none when main has returned or thrown
  passed,   \* the steps that went well
  call,     \* the callback that is waited for
  told,     \* stages of the restore not yet begun when the last was announced
  late,     \* callbacks under way that nobody waits for
  archive,  \* the downloaded backup
  tries,    \* attempts to download it
  files,    \* storage objects on the target
  missed,   \* what the run found incomplete
  problem,  \* exit code of the error that was thrown, 0 if none
  report,   \* what handleMainFailure has to do about it
  exit,     \* exit code of the process
  status,   \* status in the record
  watched,  \* the container's exit has not been noticed yet
  answered  \* statuses that ended the run and whose callback was answered

runtimeVars == <<mode, todo, passed, call, told, late, archive, tries, files, missed,
                 problem, report, exit, status, watched, answered>>
vars == <<restoreVars, runtimeVars>>

-----------------------------------------------------------------------------
(* The modes *)

\* The parts that modes share, and the modes; config stands for requiredEnv.
Validated == <<"config", "post", "inspectTarget">>

\* main, with an edge function or a Postgres URL as its source.
EdgeSource == Validated \o <<"resolveSource", "post", "countTables", "post">>

Cloned == <<"clone", "warn", "post", "rls", "post", "users", "post", "compare", "post">>

EdgeFiles == <<"adminKey", "post", "listFiles", "copyFiles", "fileOutcome", "outcome">>

\* runBackupExportFlow, from the download of the backup to its rows.
BackupOpened == <<"post", "fetchBackup", "post", "inspectBackup", "post">>

\* Slip: the sign-in data is compared after the restore.
Restored_FitsLate == <<"restore", "fitCheck">>

Restored == <<"fitCheck", "restore">>

BackupChecked == <<"post", "rowsMatch", "post">>

\* copyStorageThroughHelper, and the owners of the files.
HelperFiles == <<"post", "listFiles", "post", "copyFiles", "post", "owners", "ownersPost">>

BackupFlow == Validated \o BackupOpened \o Restored \o BackupChecked

StorageFlow ==
  <<"config", "resolveSource", "countTables", "post", "adminKey", "post", "listFiles",
    "copyFiles", "outcome">>

HelperStorageFlow == <<"config">> \o HelperFiles \o <<"outcome">>

DirectDbCloneFlow == <<"config", "resolveSource", "clone", "rls", "users", "compare">>

TargetDbTestFlow == <<"config", "post", "connectTarget", "outcome">>

SourceInspectFlow == <<"config", "post", "resolveSource", "connectSource", "outcome">>

Plan(m) ==
  CASE m = "edge" -> EdgeSource \o Cloned \o EdgeFiles
    [] m = "postgres" -> EdgeSource \o Cloned \o <<"outcome">>
    [] m = "backup" -> BackupFlow \o HelperFiles \o <<"tally", "outcome">>
    [] m = "backup_only" -> BackupFlow \o <<"noHelper", "post", "tally", "outcome">>
    [] m = "storage" -> StorageFlow
    [] m = "storage_helper" -> HelperStorageFlow
    [] m = "db_clone" -> DirectDbCloneFlow
    [] m = "probe" -> TargetDbTestFlow
    [] m = "inspect" -> SourceInspectFlow

\* db-clone runs without a callback URL.
Reports == mode # "db_clone"
HasBackup == mode \in {"backup", "backup_only"}

Problems == Codes \cup 61..65 \cup 67..73

Running == 256  \* no exit code yet
Killed == 137

Outcomes == {"succeeded", "failed"}
NoCall == [says |-> "none", try |-> 0]
Tries == 1..CallbackAttempts

RuntimeTypeOK ==
  /\ RestoreTypeOK
  /\ mode \in Modes
  /\ todo = <<>> \/ \E n \in 1..Len(Plan(mode)) : todo = SubSeq(Plan(mode), n, Len(Plan(mode)))
  /\ call = NoCall \/ call \in [says : {"running"} \cup Outcomes, try : Tries]
  /\ told \in 0..Len(CloneStages) + 1
  /\ \E n \in 0..MaxLate : late \in [1..n -> [try : Tries, ofClone : BOOLEAN]]
  /\ archive \in {"none", "cut", "whole"} /\ tries \in 0..DownloadAttempts
  /\ files \in {"none", "some", "failed", "missing", "all"}
  /\ missed \subseteq {"files", "owners", "objects", "gaps"}
  /\ problem \in Problems /\ report \in {"none", "due", "made"} /\ watched \in BOOLEAN
  /\ exit \in {Running, Killed} \cup Problems
  /\ status \in {"running"} \cup Outcomes /\ answered \in Seq(Outcomes)

Init ==
  /\ RestoreInit
  /\ mode \in Modes /\ todo = Plan(mode) /\ passed = {}
  /\ call = NoCall /\ told = Len(CloneStages) + 1 /\ late = <<>>
  /\ archive = "none" /\ tries = 0 /\ files = "none" /\ missed = {}
  /\ problem = 0 /\ report = "none" /\ exit = Running
  /\ status = "running" /\ watched = TRUE /\ answered = <<>>

-----------------------------------------------------------------------------
(* Steps and errors *)

Alive == exit = Running
Step == IF todo = <<>> THEN "none" ELSE Head(todo)
Doing(step) == Alive /\ call = NoCall /\ Step = step

Throw(c) == problem' = c /\ report' = "due" /\ todo' = <<>> /\ UNCHANGED passed
ThrowReported(c) == problem' = c /\ report' = "made" /\ todo' = <<>> /\ UNCHANGED passed
Advance == todo' = Tail(todo) /\ passed' = passed \cup {Step} /\ UNCHANGED <<problem, report>>

\* What a step of main leaves alone.
Aside == <<restoreVars, mode, call, told, late, exit, status, watched, answered>>

\* A step that goes well or throws one of its codes, and touches nothing that is
\* kept here.
Does(step, codes) ==
  /\ Doing(step)
  /\ Advance \/ \E c \in codes : Throw(c)
  /\ UNCHANGED <<Aside, archive, tries, files, missed>>

ReadConfig == Does("config", {65})
AssertTargetDbConnection == Does("connectTarget", {67})

\* The target is reached, its contents can be read, and it is empty.
InspectTargetDb == Does("inspectTarget", {67, 68, 69})

\* The edge function answers with the source, or SOURCE_DB_URL does.
ResolveSource == Does("resolveSource", {61, 65})

ConnectSource == Does("connectSource", {41})

\* A count that cannot be had is null.
InspectSourceCloneTableCount == Does("countTables", {})

RequireAdminKey == Does("adminKey", {62})
ListSourceObjects == Does("listFiles", {63})

\* The archive is unpacked, and its header and contents can be read.
InspectBackup == Does("inspectBackup", {71})

\* The target cannot be asked, or has no place for the sign-in data.
CheckManagedDataFits == Does("fitCheck", {71, 72})

\* Every table has the rows that were read from the archive.
CompareRestoredRows == Does("rowsMatch", {44})

\* Steps that an environment variable may switch off; an answer that cannot be
\* parsed is an error without a code of its own, 1...
EnableRls == Does("rls", {1, 73})
RunAuthUserMigration == Does("users", {72})

\* ...and of which the last is caught and only warns, except in db-clone.
VerifyRestoredRowCounts == Does("compare", IF mode = "db_clone" THEN {1, 41} ELSE {})

Read ==
  \/ ReadConfig \/ AssertTargetDbConnection \/ InspectTargetDb
  \/ ResolveSource \/ ConnectSource \/ InspectSourceCloneTableCount
  \/ RequireAdminKey \/ ListSourceObjects
  \/ InspectBackup \/ CheckManagedDataFits \/ CompareRestoredRows
  \/ EnableRls \/ RunAuthUserMigration \/ VerifyRestoredRowCounts

\* An attempt to download the backup: it is whole; it ends early and no header
\* told its length; it fails for good; or it may be tried again.
Fetch ==
  /\ Doing("fetchBackup")
  /\ tries' = tries + 1
  /\ \/ Advance /\ archive' \in {"whole", "cut"}
     \/ Throw(70) /\ UNCHANGED archive
     \/ tries' < DownloadAttempts /\ UNCHANGED <<todo, passed, problem, report, archive>>
  /\ UNCHANGED <<Aside, files, missed>>

\* runStorageCopyEngine: some of the objects and an error, or a summary.  Through
\* the helper whatever was not copied is a reason to be incomplete.
CopyFiles ==
  /\ Doing("copyFiles")
  /\ \/ Throw(63) /\ files' = "some" /\ UNCHANGED missed
     \/ /\ Advance
        /\ files' \in {"all", "failed", "missing"}
        /\ missed' = missed \cup (IF mode \in {"backup", "storage_helper"} /\ files' # "all"
                                  THEN {"files"} ELSE {})
  /\ UNCHANGED <<Aside, archive, tries>>

\* restoreFileOwners, unless nothing was copied.  A retry of the storage only misses
\* the owners without a post when it has no database or no backup to read them from.
Owners ==
  /\ Doing("owners")
  /\ \/ Advance /\ missed' \in {missed, missed \cup {"owners"}}
     \/ /\ todo' = Tail(Tail(todo))
        /\ missed' \in {missed} \cup (IF mode = "storage_helper" THEN {missed \cup {"owners"}}
                                                                ELSE {})
        /\ UNCHANGED <<passed, problem, report>>
  /\ UNCHANGED <<Aside, archive, tries, files>>

\* Without the helper, files are missed unless the archive lists none.
NoHelper ==
  /\ Doing("noHelper")
  /\ Advance
  /\ missed' \in {missed, missed \cup {"files"}}
  /\ UNCHANGED <<Aside, archive, tries, files>>

\* Slip: objects the schema restore skipped are warned
\* about and not counted.
NotRestored_Forgets == {}

NotRestored == IF skipped # {} THEN {"objects"} ELSE {}

\* What else did not make it: policies, triggers, views, sign-in data.
Tally ==
  /\ Doing("tally")
  /\ Advance
  /\ \E more \in SUBSET {"objects", "gaps"} : missed' = missed \cup NotRestored \cup more
  /\ UNCHANGED <<Aside, archive, tries, files>>

-----------------------------------------------------------------------------
(* Callbacks that are waited for *)

Waiting(says) == call' = [says |-> says, try |-> 1]

\* What the run says of itself when it comes to its end.
Verdict ==
  CASE mode = "storage" -> IF files = "failed" THEN "failed" ELSE "succeeded"
    [] mode \in {"backup", "backup_only", "storage_helper"} ->
         IF missed = {} THEN "succeeded" ELSE "failed"
    [] OTHER -> "succeeded"

Posting == {"post", "warn", "ownersPost", "fileOutcome", "outcome"}

Says(step) ==
  CASE step = "outcome" -> Verdict
    [] step = "fileOutcome" -> IF files = "failed" THEN "failed" ELSE "running"
    [] OTHER -> "running"

\* What posting a callback, or giving it up, leaves alone.
Work == <<mode, archive, tries, files, exit, watched>>

Post ==
  /\ Doing(Step) /\ Step \in Posting
  /\ Waiting(Says(Step))
  /\ UNCHANGED <<restoreVars, Work, todo, passed, told, late, missed, problem, report, status, answered>>

\* handleMainFailure, unless the error says that it was reported.
ReportFailure ==
  /\ Alive /\ call = NoCall /\ report = "due" /\ Reports
  /\ Waiting("failed") /\ report' = "made"
  /\ UNCHANGED <<restoreVars, Work, todo, passed, told, late, missed, problem, status, answered>>

\* Slip: an outcome that was posted is thrown as any error.
Answered_ReportsAgain ==
  IF problem # 0 \/ Step = "restore" THEN UNCHANGED <<todo, passed, problem, report>>
  ELSE IF call.says = "failed" THEN Throw(63) ELSE Advance

\* The flow goes on behind its callback; a failed outcome ends it.
Answered ==
  IF problem # 0 \/ Step = "restore" THEN UNCHANGED <<todo, passed, problem, report>>
  ELSE IF call.says = "failed" THEN ThrowReported(63) ELSE Advance

\* The last attempt failed.  handleMainFailure lets it be, warnings of a clone are
\* optional, and owners that could not be reported count as not restored.
GiveUp ==
  /\ IF problem # 0 THEN UNCHANGED <<todo, passed, problem, report, missed>>
     ELSE IF Step = "ownersPost" /\ "owners" \notin missed
     THEN missed' = missed \cup {"owners"} /\ UNCHANGED <<todo, passed, problem, report>>
     ELSE /\ IF Step = "warn" \/ (Step = "ownersPost" /\ mode = "storage_helper")
             THEN Advance
             ELSE Throw(64)
          /\ UNCHANGED missed
  /\ IF Step = "restore"
     THEN Fail(64) /\ UNCHANGED <<road, entries, skipped, dump, noise, load, sent, rows, schema>>
     ELSE UNCHANGED restoreVars

\* An attempt of postCallback: the record has it or not, and the runner knows or not.
Attempt(arrives, known) ==
  /\ Alive /\ call # NoCall
  /\ known => arrives
  /\ status' = IF arrives THEN call.says ELSE status
  /\ \/ /\ known
        /\ Answered
        /\ call' = NoCall
        /\ told' = IF Step = "restore" THEN Len(stages) ELSE told
        /\ answered' = IF call.says \in Outcomes THEN Append(answered, call.says) ELSE answered
        /\ UNCHANGED <<restoreVars, missed>>
     \/ /\ ~known /\ call.try < CallbackAttempts
        /\ call' = [call EXCEPT !.try = @ + 1]
        /\ UNCHANGED <<restoreVars, todo, passed, problem, report, told, answered, missed>>
     \/ /\ ~known /\ call.try = CallbackAttempts
        /\ GiveUp
        /\ call' = NoCall
        /\ UNCHANGED <<told, answered>>
  /\ UNCHANGED <<Work, late>>

-----------------------------------------------------------------------------
(* Callbacks that nobody waits for *)

\* A post under way, or one that was answered at once.
Emit(ofClone) ==
  \/ Len(late) < MaxLate /\ late' = Append(late, [try |-> 1, ofClone |-> ofClone]) /\ UNCHANGED status
  \/ late' = late /\ status' = "running"

\* Progress of the download, and of a copy whose engine has thrown.
Progress ==
  /\ Doing("fetchBackup") \/ (Alive /\ files = "some")
  /\ Len(late) = 0
  /\ Emit(FALSE)
  /\ UNCHANGED <<restoreVars, Work, todo, passed, call, told, missed, problem, report, answered>>

\* runCloneProcess: a stage that cannot be reported rejects the clone, unless it is
\* over; the script itself goes on.
LateAttempt(i, arrives, known) ==
  /\ Alive /\ known => arrives
  /\ status' = IF arrives THEN "running" ELSE status
  /\ IF known THEN late' = RemoveAt(late, i) /\ UNCHANGED <<todo, passed, problem, report>>
     ELSE IF late[i].try < CallbackAttempts
     THEN late' = [late EXCEPT ![i].try = @ + 1] /\ UNCHANGED <<todo, passed, problem, report>>
     ELSE /\ late' = RemoveAt(late, i)
          /\ IF late[i].ofClone /\ Step = "clone" THEN Throw(64)
             ELSE UNCHANGED <<todo, passed, problem, report>>
  /\ UNCHANGED <<restoreVars, Work, call, told, missed, answered>>

\* A request that had been sent when the process went.
LateArrives(i) ==
  /\ ~Alive
  /\ late' = RemoveAt(late, i)
  /\ status' \in {status} \cup (IF exit = Killed THEN {} ELSE {"running"})
  /\ UNCHANGED <<restoreVars, Work, todo, passed, call, told, missed, problem, report, answered>>

-----------------------------------------------------------------------------
(* The restore inside the run *)

Restoring == road # "none" /\ (Step \in {"clone", "restore"} \/ (road = "clone" /\ stages # <<>>))

BeginRestore ==
  /\ Doing(Step) /\ Step \in {"clone", "restore"} /\ road = "none"
  /\ NewRoad(IF Step = "clone" THEN "clone" ELSE "backup")
  /\ UNCHANGED runtimeVars

Announces ==
  IF road = "clone" THEN {"extensions", "dump", "restore", "data", "over"} ELSE Stages

ToAnnounce == Reports /\ code = 0 /\ Stage \in Announces /\ told # Len(stages)

\* The lines of the script are posted as they come; restoreLovableBackup waits for
\* each of its stages to be posted.
Announce ==
  /\ Alive /\ Restoring /\ ToAnnounce
  /\ IF road = "clone"
     THEN Emit(TRUE) /\ told' = Len(stages) /\ UNCHANGED call
     ELSE call = NoCall /\ Waiting("running") /\ UNCHANGED <<told, late, status>>
  /\ UNCHANGED <<restoreVars, Work, todo, passed, missed, problem, report, answered>>

\* The script runs on when its promise was rejected; the runner's own restore
\* does nothing while it waits for a callback.
RestoreIsRunning ==
  /\ Alive /\ Restoring /\ ~ToAnnounce
  /\ road = "backup" => call = NoCall

RestoreRuns == RestoreIsRunning /\ RestoreStep(archive # "cut") /\ UNCHANGED runtimeVars
RestoreStumbles == RestoreIsRunning /\ RestoreMishap /\ UNCHANGED runtimeVars

EndRestore ==
  /\ Doing(Step) /\ Step \in {"clone", "restore"} /\ RestoreIsOver /\ ~ToAnnounce
  /\ IF code = 0 THEN Advance ELSE Throw(code)
  /\ UNCHANGED <<Aside, archive, tries, files, missed>>

-----------------------------------------------------------------------------
(* The end of the process *)

\* main returns, and the process ends once nothing is under way.
ExitClean ==
  /\ Alive /\ todo = <<>> /\ problem = 0 /\ call = NoCall /\ late = <<>>
  /\ exit' = 0
  /\ UNCHANGED <<restoreVars, mode, todo, passed, call, told, late, archive, tries, files,
                 missed, problem, report, status, watched, answered>>

\* process.exit: what is under way is left to the network.
ExitFailed ==
  /\ Alive /\ problem # 0 /\ call = NoCall /\ (report = "made" \/ ~Reports)
  /\ exit' = problem
  /\ UNCHANGED <<restoreVars, mode, todo, passed, call, told, late, archive, tries, files,
                 missed, problem, report, status, watched, answered>>

\* Whoever runs the container closes a record that the run has left open.
Monitor ==
  /\ exit \notin {Running, Killed} /\ watched
  /\ watched' = FALSE
  /\ status' = IF status # "running" THEN status
               ELSE IF exit = 0 THEN "succeeded" ELSE "failed"
  /\ UNCHANGED <<restoreVars, mode, todo, passed, call, told, late, archive, tries, files,
                 missed, problem, report, exit, answered>>

\* The run's time is up: its record is closed and its container destroyed.
TimeOut ==
  /\ Alive
  /\ exit' = Killed /\ watched' = FALSE /\ call' = NoCall
  /\ status' = IF status = "running" THEN "failed" ELSE status
  /\ UNCHANGED <<restoreVars, mode, todo, passed, told, late, archive, tries, files,
                 missed, problem, report, answered>>

MainStep == Read \/ Fetch \/ CopyFiles \/ Owners \/ NoHelper \/ Tally

Posted == \E arrives, known \in BOOLEAN : Attempt(arrives, known)
LateStep == \E i \in DOMAIN late :
              LateArrives(i) \/ \E arrives, known \in BOOLEAN : LateAttempt(i, arrives, known)

RestorePart == BeginRestore \/ Announce \/ RestoreRuns \/ EndRestore
Exits == ExitClean \/ ExitFailed

Next == \/ MainStep \/ Post \/ ReportFailure \/ Posted \/ Progress \/ LateStep
        \/ RestorePart \/ RestoreStumbles \/ Exits \/ Monitor \/ TimeOut

Spec == Init /\ [][Next]_vars

\* Databases, servers and processes answer, or fail when they are asked; nothing
\* here waits for time, and nothing that could go on counts on a mishap to end.
FairSpec ==
  /\ Spec
  /\ WF_vars(MainStep) /\ WF_vars(Post) /\ WF_vars(ReportFailure) /\ WF_vars(Posted)
  /\ WF_vars(LateStep) /\ WF_vars(RestorePart) /\ WF_vars(Exits) /\ WF_vars(Monitor)

-----------------------------------------------------------------------------
(* Properties *)

DatabaseModes == {"edge", "postgres", "backup", "backup_only", "db_clone"}

\* What a mode has to have done to be called a success.
Earned ==
  /\ mode \in DatabaseModes => rows = NumRows /\ schema = "restored"
  /\ mode \in {"edge", "storage"} => files \in {"all", "missing"}
  /\ mode \in {"backup", "storage_helper"} => files = "all"
  /\ HasBackup => skipped = {} /\ archive = "whole" /\ "rowsMatch" \in passed
  /\ mode = "probe" => "connectTarget" \in passed
  /\ mode = "inspect" => "connectSource" \in passed
  /\ missed = {}

\* The record says succeeded only of a run that did its work, whatever became of
\* its callbacks, its stages, its archive and its processes.
SuccessIsEarned == status = "succeeded" => Earned

\* The target is not written before the checks of the mode have passed, and a run
\* refused by the last of them (72, "Nothing was changed.") left it as it was.
NothingChangedIsTrue ==
  /\ (schema # "untouched" \/ rows > 0) /\ mode # "db_clone" => "inspectTarget" \in passed
  /\ (schema # "untouched" \/ rows > 0) /\ HasBackup => "fitCheck" \in passed
  /\ files # "none" /\ HasBackup => RestoreIsOver /\ code = 0
  /\ problem \in {65, 70, 71} \/ (problem = 72 /\ HasBackup) => schema = "untouched" /\ rows = 0 /\ files = "none"

\* At most one outcome of a run is acknowledged, and a process that ends well is
\* one whose success was.
OneAcknowledgedOutcome ==
  /\ Len(answered) <= 1
  /\ exit = 0 /\ Reports => answered = <<"succeeded">>
  /\ answered = <<"succeeded">> => problem = 0

\* The verdict on a restore: whole, fairly blamed, and a backup all or nothing.
RestoreVerdicts == GoodRestoresAreWhole /\ BlameIsFair /\ BackupIsAllOrNothing

\* A run ends, unless one end of the FIFO died before it was opened.
RunEnds == <>(~Alive \/ PipeIsStuck)
=============================================================================
