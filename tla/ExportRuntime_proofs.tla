-------------------------- MODULE ExportRuntime_proofs --------------------------
(***************************************************************************)
(* Proofs about ExportRuntime, for any objects, rows and bounds: verdicts  *)
(* on a restore are right, success is earned, "nothing was changed" is     *)
(* true, one outcome at most is acknowledged, and types are kept.          *)
(***************************************************************************)
EXTENDS ExportRuntime, FiniteSetTheorems, SequenceTheorems, TLAPS

(***************************************************************************)
(* The invariant of a restore.                                             *)
(***************************************************************************)

StageRank(stage) ==
  CASE stage = "discover" -> 1 [] stage = "privileges" -> 2 [] stage = "roles" -> 3
    [] stage = "prepare" -> 4 [] stage = "extensions" -> 5 [] stage = "dump" -> 6
    [] stage = "restore" -> 7 [] stage = "replica" -> 8 [] stage = "pipe" -> 9
    [] stage = "data" -> 10 [] stage = "managed" -> 11 [] stage = "verify" -> 12

\* Stages come in one order, whichever road is taken.
StagesSorted(s) ==
  \A i, j \in DOMAIN s : i < j => StageRank(s[i]) < StageRank(s[j])

ToCome(stage) == stage \in ToSet(stages)

RestoreTypes ==
  /\ road \in {"none", "clone", "backup"}
  /\ stages \in Seq(Stages) /\ StagesSorted(stages)
  /\ dump \in {"idle", "starting", "opening", "writing"} \cup Ended
  /\ load \in {"idle", "starting", "opening", "reading", "committing"} \cup Ended
  /\ noise \in BOOLEAN
  /\ sent \in 0..NumRows /\ rows \in 0..NumRows
  /\ schema \in {"untouched", "prepared", "restored"}
  /\ code \in Codes
  /\ stages # <<>> => code = 0

NotBegun ==
  road = "none" => /\ stages = <<>> /\ code = 0 /\ dump = "idle" /\ load = "idle"
                   /\ rows = 0 /\ sent = 0 /\ schema = "untouched"

\* What is not to come any more has been done, as long as nothing has failed.
StagesDone ==
  /\ road # "none" /\ code = 0 =>
       /\ ToCome("restore") \/ schema = "restored"
       /\ ToCome("data") \/ (dump = "done" /\ load = "done")
  /\ schema = "restored" => ~ToCome("prepare")
  /\ \A stage \in ToSet(stages) : StageRank(stage) < StageRank("data") => ToCome("data")

\* The two processes run during the data stage only.
DataStage ==
  /\ Stage # "data" /\ ToCome("data") => dump = "idle"
  /\ Stage = "data" \/ code = 64 \/ (dump \in Ended \cup {"idle"} /\ load \in Ended \cup {"idle"})

\* What psql has committed is what was sent to it, or nothing.
Processed ==
  /\ dump = "idle" <=> load = "idle"
  /\ road = "backup" => {dump, load} \cap {"starting", "opening"} = {}
  /\ dump = "done" => sent = NumRows
  /\ load \in {"committing", "done"} => dump \in Ended
  /\ load = "committing" /\ road = "backup" => dump = "done"
  /\ load # "done" => rows = 0
  /\ load = "done" => rows = sent \/ (road = "backup" /\ dump = "failed" /\ rows = 0)
  /\ load = "done" /\ dump = "failed" /\ road = "backup" => rows = 0

RInv ==
  /\ RestoreTypes
  /\ NotBegun
  /\ StagesDone
  /\ DataStage
  /\ Processed
  /\ BlameIsFair

(***************************************************************************)
(* The invariant of a run.                                                 *)
(***************************************************************************)

Rank(step) ==
  CASE step = "config" -> 1 [] step = "inspectTarget" -> 2 [] step = "connectTarget" -> 3
    [] step = "resolveSource" -> 4 [] step = "connectSource" -> 5 [] step = "countTables" -> 6
    [] step = "clone" -> 7 [] step = "warn" -> 8 [] step = "rls" -> 9 [] step = "users" -> 10
    [] step = "compare" -> 11 [] step = "fetchBackup" -> 12 [] step = "inspectBackup" -> 13
    [] step = "fitCheck" -> 14 [] step = "restore" -> 15 [] step = "rowsMatch" -> 16
    [] step = "adminKey" -> 17 [] step = "noHelper" -> 18 [] step = "listFiles" -> 19
    [] step = "copyFiles" -> 20 [] step = "owners" -> 21 [] step = "ownersPost" -> 22
    [] step = "fileOutcome" -> 23 [] step = "tally" -> 24 [] step = "outcome" -> 25

Names ==
  {"config", "inspectTarget", "connectTarget", "resolveSource", "connectSource", "countTables",
   "clone", "warn", "rls", "users", "compare", "fetchBackup", "inspectBackup", "fitCheck",
   "restore", "rowsMatch", "adminKey", "noHelper", "listFiles", "copyFiles", "owners",
   "ownersPost", "fileOutcome", "tally", "outcome"}

\* Apart from the posts, the steps of every mode come in one order.
Sorted(s) ==
  \A i, j \in DOMAIN s : i < j /\ s[i] # "post" /\ s[j] # "post" => Rank(s[i]) < Rank(s[j])

\* The owners of the files are restored and then posted.
OwnersPosted(s) ==
  \A i \in DOMAIN s : s[i] = "owners" => i + 1 \in DOMAIN s /\ s[i + 1] = "ownersPost"

\* Nothing follows the outcome.
OutcomeLast(s) == \A i \in DOMAIN s : s[i] = "outcome" => i = Len(s)

\* A list of steps that keeps their order.
Orderly(s) == s \in Seq(Names \cup {"post"}) /\ Sorted(s) /\ OwnersPosted(s) /\ OutcomeLast(s)

StepsOf(m) == ToSet(Plan(m)) \ {"post"}

\* The steps to go are a tail of the plan, and those before it have passed.
OnPlan ==
  /\ mode \in Modes
  /\ Orderly(todo)
  /\ \A a \in passed, b \in ToSet(todo) : a # "post" /\ b # "post" => Rank(a) < Rank(b)
  /\ passed \cup ToSet(todo) \subseteq StepsOf(mode) \cup {"post"}
  /\ problem = 0 => StepsOf(mode) \ {"owners", "ownersPost"} \subseteq passed \cup ToSet(todo)
  /\ problem # 0 => todo = <<>>
  /\ report \in {"none", "due", "made"} /\ (report = "none" <=> problem = 0)
  /\ exit = 0 => problem = 0 /\ todo = <<>>

\* A callback is waited for in the step that posts it, or reports a failure.
CallRight ==
  /\ call \in [says : {"none", "running"} \cup Outcomes, try : Nat]
  /\ call # NoCall =>
       \/ problem # 0 /\ call.says = "failed" /\ report = "made"
       \/ problem = 0 /\ Step \in Posting /\ call.says = Says(Step)
       \/ problem = 0 /\ Step = "restore" /\ call.says = "running" /\ road = "backup" /\ stages # <<>>

\* An acknowledged outcome is the end of the flow.
AnsweredRight ==
  /\ answered \in {<<>>, <<"succeeded">>, <<"failed">>}
  /\ answered = <<"failed">> => problem # 0 /\ report = "made" /\ call = NoCall
  /\ answered = <<"succeeded">> <=> "outcome" \in passed
  /\ "outcome" \in passed => problem = 0 /\ todo = <<>> /\ call = NoCall

\* The restore belongs to its step and comes after the checks.
RestoreRight ==
  /\ road # "none" =>
       /\ Step \in {"clone", "restore"} \/ passed \cap {"clone", "restore"} # {} \/ todo = <<>>
       /\ mode # "db_clone" => "inspectTarget" \in passed
       /\ HasBackup => {"fetchBackup", "fitCheck"} \subseteq passed
  /\ road = "clone" => "clone" \in StepsOf(mode)
  /\ road = "backup" => "restore" \in StepsOf(mode)
  /\ passed \cap {"clone", "restore"} # {} => RestoreIsOver /\ code = 0
  /\ code = 64 => todo = <<>> /\ road = "backup"
  /\ "fetchBackup" \in passed => archive # "none"
  /\ road = "backup" /\ dump = "done" => archive # "cut"

\* What became of the files, and what the run found incomplete.
FilesRight ==
  /\ files \in {"none", "some", "failed", "missing", "all"}
  /\ archive \in {"none", "cut", "whole"}
  /\ files # "none" => "copyFiles" \in passed \/ problem # 0
  /\ files # "none" /\ HasBackup => "restore" \in passed
  /\ "copyFiles" \in passed => files \in {"failed", "missing", "all"}
  /\ "copyFiles" \in passed /\ mode \in {"backup", "storage_helper"} /\ "files" \notin missed =>
       files = "all"
  /\ "fileOutcome" \in passed => files # "failed"
  /\ missed # {} => mode \in {"backup", "backup_only", "storage_helper"}
  /\ "tally" \in passed /\ missed = {} => skipped = {}

\* An early error leaves the target as it was.
EarlyErrors ==
  problem \in {65, 70, 71} \/ (problem = 72 /\ HasBackup) =>
    schema = "untouched" /\ rows = 0 /\ files = "none" /\ road = "none"

\* Success is recorded, posted or passed only of a run that earned it, and then
\* nothing is left to do that could spoil it.
SuccessRight ==
  /\ "outcome" \in passed => Earned
  /\ status = "succeeded" =>
       /\ Earned
       /\ Step = "outcome" \/ todo = <<>>
       /\ road = "none" \/ stages = <<>>

IInv ==
  /\ RInv
  /\ OnPlan
  /\ CallRight
  /\ AnsweredRight
  /\ RestoreRight
  /\ FilesRight
  /\ EarlyErrors
  /\ SuccessRight

-----------------------------------------------------------------------------
(***************************************************************************)
(* Stages and their order.                                                 *)
(***************************************************************************)

LEMMA StageRanks ==
  /\ StageRank("discover") = 1 /\ StageRank("privileges") = 2 /\ StageRank("roles") = 3
  /\ StageRank("prepare") = 4 /\ StageRank("extensions") = 5 /\ StageRank("dump") = 6
  /\ StageRank("restore") = 7 /\ StageRank("replica") = 8 /\ StageRank("pipe") = 9
  /\ StageRank("data") = 10 /\ StageRank("managed") = 11 /\ StageRank("verify") = 12
  /\ \A s \in Stages : StageRank(s) \in 1..12
BY DEF StageRank, Stages

\* Both roads pass their stages in order.
LEMMA RoadsAreSorted ==
  /\ CloneStages \in Seq(Stages) /\ CloneStages # <<>> /\ StagesSorted(CloneStages)
  /\ ToSet(CloneStages) = {"discover", "privileges", "roles", "prepare", "extensions", "dump",
                           "restore", "replica", "pipe", "data"}
  /\ Head(CloneStages) = "discover"
  /\ BackupStages \in Seq(Stages) /\ BackupStages # <<>> /\ StagesSorted(BackupStages)
  /\ ToSet(BackupStages) = {"prepare", "extensions", "restore", "data", "managed", "verify"}
  /\ Head(BackupStages) = "prepare"
<1>1. CloneStages \in Seq(Stages) /\ CloneStages # <<>> /\ Head(CloneStages) = "discover"
  BY DEF CloneStages, Stages
<1>2. BackupStages \in Seq(Stages) /\ BackupStages # <<>> /\ Head(BackupStages) = "prepare"
  BY DEF BackupStages, Stages
<1>3. DOMAIN CloneStages = 1..10 /\ DOMAIN BackupStages = 1..6
  BY DEF CloneStages, BackupStages
<1>4. \A i \in 1..10 : StageRank(CloneStages[i]) = i
  <2>1. SUFFICES ASSUME NEW i \in 1..10 PROVE StageRank(CloneStages[i]) = i
    OBVIOUS
  <2>2. i \in {1, 2, 3, 4, 5, 6, 7, 8, 9, 10}
    OBVIOUS
  <2>3. QED
    BY <2>2, StageRanks DEF CloneStages
<1>5. \A i \in 1..6 : StageRank(BackupStages[i]) =
                        (IF i = 1 THEN 4 ELSE IF i = 2 THEN 5 ELSE IF i = 3 THEN 7 ELSE i + 6)
  <2>1. SUFFICES ASSUME NEW i \in 1..6
                 PROVE  StageRank(BackupStages[i]) =
                          (IF i = 1 THEN 4 ELSE IF i = 2 THEN 5 ELSE IF i = 3 THEN 7 ELSE i + 6)
    OBVIOUS
  <2>2. i \in {1, 2, 3, 4, 5, 6}
    OBVIOUS
  <2>3. QED
    BY <2>2, StageRanks DEF BackupStages
<1>6. StagesSorted(CloneStages) /\ StagesSorted(BackupStages)
  BY <1>3, <1>4, <1>5 DEF StagesSorted
<1>7. ToSet(CloneStages) = {"discover", "privileges", "roles", "prepare", "extensions", "dump",
                            "restore", "replica", "pipe", "data"}
  BY <1>3 DEF ToSet, CloneStages
<1>8. ToSet(BackupStages) = {"prepare", "extensions", "restore", "data", "managed", "verify"}
  BY <1>3 DEF ToSet, BackupStages
<1>9. QED
  BY <1>1, <1>2, <1>6, <1>7, <1>8

\* Without its first stage a sorted list is sorted and has only later ones.
LEMMA NextStages ==
  ASSUME NEW s \in Seq(Stages), s # <<>>, StagesSorted(s)
  PROVE  /\ Tail(s) \in Seq(Stages) /\ StagesSorted(Tail(s))
         /\ Head(s) \in ToSet(s)
         /\ ToSet(Tail(s)) = ToSet(s) \ {Head(s)}
         /\ \A x \in ToSet(Tail(s)) : StageRank(Head(s)) < StageRank(x)
         /\ Tail(s) # <<>> => Head(Tail(s)) \in ToSet(Tail(s))
         /\ ToSet(s) \subseteq Stages
<1>1. /\ DOMAIN s = 1..Len(s) /\ Len(s) \in Nat \ {0} /\ Head(s) = s[1]
      /\ Tail(s) \in Seq(Stages) /\ Len(Tail(s)) = Len(s) - 1
      /\ DOMAIN Tail(s) = 1..(Len(s) - 1)
      /\ \A i \in 1..(Len(s) - 1) : Tail(s)[i] = s[i + 1]
  OBVIOUS
<1>2. \A i \in 1..Len(s) : s[i] \in Stages
  BY <1>1
<1>3. StagesSorted(Tail(s))
  BY <1>1 DEF StagesSorted
<1>4. Head(s) \in ToSet(s)
  BY <1>1 DEF ToSet
<1>5. \A x \in ToSet(Tail(s)) : x \in ToSet(s) /\ StageRank(Head(s)) < StageRank(x)
  <2>1. SUFFICES ASSUME NEW i \in DOMAIN Tail(s)
                 PROVE  Tail(s)[i] \in ToSet(s) /\ StageRank(Head(s)) < StageRank(Tail(s)[i])
    BY DEF ToSet
  <2>2. i + 1 \in DOMAIN s /\ Tail(s)[i] = s[i + 1] /\ 1 \in DOMAIN s /\ 1 < i + 1
    BY <1>1
  <2>3. QED
    BY <2>2, <1>1 DEF StagesSorted, ToSet
<1>6. \A x \in ToSet(s) \ {Head(s)} : x \in ToSet(Tail(s))
  <2>1. SUFFICES ASSUME NEW i \in DOMAIN s, s[i] # Head(s)
                 PROVE  s[i] \in ToSet(Tail(s))
    BY DEF ToSet
  <2>2. i - 1 \in DOMAIN Tail(s) /\ Tail(s)[i - 1] = s[i]
    BY <2>1, <1>1
  <2>3. QED
    BY <2>2 DEF ToSet
<1>7. ToSet(Tail(s)) = ToSet(s) \ {Head(s)}
  <2>1. Head(s) \in Stages
    BY <1>1, <1>2
  <2>2. StageRank(Head(s)) \in 1..12
    BY <2>1, StageRanks
  <2>3. Head(s) \notin ToSet(Tail(s))
    BY <2>2, <1>5
  <2>4. QED
    BY <2>3, <1>5, <1>6
<1>8. Tail(s) # <<>> => Head(Tail(s)) \in ToSet(Tail(s))
  BY <1>1 DEF ToSet
<1>9. ToSet(s) \subseteq Stages
  BY <1>2, <1>1 DEF ToSet
<1>10. QED
  BY <1>1, <1>3, <1>4, <1>5, <1>7, <1>8, <1>9

-----------------------------------------------------------------------------
(***************************************************************************)
(* The restore by itself.                                                  *)
(***************************************************************************)

LEMMA RestoreStarts ==
  ASSUME RestoreInit
  PROVE  RInv
<1>1. DOMAIN stages = {} /\ ToSet(stages) = {}
  BY DEF RestoreInit, ToSet
<1>2. 0 \in 0..NumRows
  BY RestoreConstants
<1>3. RestoreTypes
  <2>1. stages \in Seq(Stages) /\ stages = <<>>
    BY DEF RestoreInit
  <2>2. StagesSorted(stages)
    BY <1>1 DEF StagesSorted
  <2>3. QED
    BY <1>2, <2>1, <2>2 DEF RestoreInit, RestoreTypes, Codes
<1>4. NotBegun /\ StagesDone /\ BlameIsFair
  BY <1>1 DEF RestoreInit, NotBegun, StagesDone, BlameIsFair
<1>5. DataStage /\ Processed
  BY <1>1 DEF RestoreInit, DataStage, Processed, ToCome, Ended
<1>6. QED
  BY <1>3, <1>4, <1>5 DEF RInv

LEMMA RoadBegins ==
  ASSUME RInv, road = "none", NEW r \in {"clone", "backup"}, NewRoad(r)
  PROVE  RInv' /\ stages' # <<>>
<1> DEFINE next == IF r = "clone" THEN CloneStages ELSE BackupStages
<1>1. stages' = next /\ road' = r
  BY DEF NewRoad
<1>2. next \in Seq(Stages) /\ next # <<>> /\ StagesSorted(next)
      /\ {"data", "restore", "prepare"} \subseteq ToSet(next)
  BY RoadsAreSorted
<1>3. dump = "idle" /\ load = "idle" /\ rows = 0 /\ sent = 0 /\ schema = "untouched" /\ code = 0
  BY DEF RInv, NotBegun
<1>4. dump' = "idle" /\ load' = "idle" /\ rows' = 0 /\ sent' = 0 /\ schema' = "untouched" /\ code' = 0
      /\ noise' = noise
  BY <1>3 DEF NewRoad
<1> HIDE DEF next
<1>5. RestoreTypes'
  BY <1>1, <1>2, <1>4, RestoreConstants DEF RInv, RestoreTypes, Codes, StagesSorted
<1>6. NotBegun' /\ Processed' /\ BlameIsFair'
  BY <1>1, <1>4 DEF NotBegun, Processed, BlameIsFair
<1>7. DataStage' /\ StagesDone'
  BY <1>1, <1>2, <1>4 DEF DataStage, StagesDone, ToCome
<1>8. QED
  BY <1>1, <1>2, <1>5, <1>6, <1>7 DEF RInv

\* What the first stage to come says of the others.
LEMMA FirstStage ==
  ASSUME RInv, Stage # "over"
  PROVE  /\ stages \in Seq(Stages) /\ stages # <<>> /\ Head(stages) = Stage /\ StagesSorted(stages)
         /\ code = 0 /\ road # "none" /\ ToCome(Stage) /\ Stage \in Stages
         /\ StageRank(Stage) < 10 => ToCome("data") /\ dump = "idle" /\ load = "idle"
<1>1. stages \in Seq(Stages) /\ stages # <<>> /\ Head(stages) = Stage /\ StagesSorted(stages)
  BY DEF Stage, RInv, RestoreTypes
<1>2. code = 0 /\ road # "none"
  BY <1>1 DEF RInv, RestoreTypes, NotBegun
<1>3. Stage \in ToSet(stages) /\ Stage \in Stages
  BY <1>1, NextStages
<1>4. ASSUME StageRank(Stage) < 10 PROVE ToCome("data") /\ dump = "idle" /\ load = "idle"
  BY <1>3, <1>4, StageRanks DEF RInv, StagesDone, DataStage, Processed
<1>5. QED
  BY <1>1, <1>2, <1>3, <1>4 DEF ToCome

\* A stage goes well.
LEMMA StageGoesWell ==
  ASSUME RInv, Stage # "over", Proceed, UNCHANGED <<road, dump, noise, load, sent, rows>>,
         schema' \in {"untouched", "prepared", "restored"},
         Stage = "restore" => schema' = "restored",
         Stage = "prepare" => schema' = "prepared",
         Stage \notin {"restore", "prepare"} => schema' = schema,
         Stage = "data" => dump = "done" /\ load = "done"
  PROVE  RInv'
<1> DEFINE next == Tail(stages)
<1>1. stages' = next /\ code' = code
  BY DEF Proceed
<1>2. /\ stages \in Seq(Stages) /\ stages # <<>> /\ Head(stages) = Stage /\ StagesSorted(stages)
      /\ code = 0 /\ road # "none" /\ ToCome(Stage) /\ Stage \in Stages
  BY FirstStage
<1>3. /\ next \in Seq(Stages) /\ StagesSorted(next)
      /\ ToSet(next) = ToSet(stages) \ {Stage}
      /\ \A x \in ToSet(next) : StageRank(Stage) < StageRank(x)
      /\ next # <<>> => Head(next) \in ToSet(next)
      /\ ToSet(stages) \subseteq Stages
  BY <1>2, NextStages
<1> HIDE DEF next
<1>4. RestoreTypes'
  BY <1>1, <1>2, <1>3 DEF RInv, RestoreTypes, StagesSorted
<1>5. NotBegun' /\ Processed'
  BY <1>2 DEF RInv, NotBegun, Processed
<1>6. StagesDone'
  <2>1. ToCome("restore")' \/ schema' = "restored"
    BY <1>1, <1>2, <1>3 DEF RInv, StagesDone, ToCome
  <2>2. ToCome("data")' \/ (dump' = "done" /\ load' = "done")
    BY <1>1, <1>2, <1>3 DEF RInv, StagesDone, ToCome
  <2>3. schema' = "restored" => ~ToCome("prepare")'
    BY <1>1, <1>2, <1>3, StageRanks DEF RInv, StagesDone, ToCome
  <2>4. ASSUME NEW x \in ToSet(next), StageRank(x) < 10 PROVE ToCome("data")'
    <3>1. ToCome("data")
      BY <1>3, <2>4, StageRanks DEF RInv, StagesDone
    <3>2. StageRank(Stage) < StageRank(x) /\ StageRank(Stage) \in Nat /\ StageRank(x) \in Nat
      BY <1>2, <1>3, StageRanks
    <3>3. Stage # "data"
      BY <2>4, <3>2, StageRanks
    <3>4. QED
      BY <1>1, <1>3, <3>1, <3>3 DEF ToCome
  <2>5. QED
    BY <1>1, <2>1, <2>2, <2>3, <2>4, StageRanks DEF StagesDone
<1>7. DataStage'
  <2>1. CASE Stage = "data"
    BY <1>1, <1>3, <2>1 DEF DataStage, ToCome, Ended
  <2>2. CASE Stage # "data"
    BY <1>1, <1>2, <1>3, <2>2 DEF RInv, DataStage, ToCome
  <2>3. QED
    BY <2>1, <2>2
<1>8. BlameIsFair'
  BY <1>1, <1>2 DEF BlameIsFair
<1>9. QED
  BY <1>4, <1>5, <1>6, <1>7, <1>8 DEF RInv

\* A stage ends the restore.
LEMMA StageFails ==
  ASSUME RInv, Stage # "over", NEW c \in Codes \ {0}, Fail(c),
         UNCHANGED <<road, dump, noise, load, sent, rows>>,
         schema' \in {schema, "prepared"},
         Stage = "data" /\ c # 64 => {dump, load} \subseteq Ended \cup {"idle"},
         c = 42 => dump \in {"idle", "failed"},
         c = 44 => dump = "idle" \/ load = "failed" \/ (road = "backup" /\ dump = "failed")
  PROVE  RInv'
<1>1. stages' = <<>> /\ code' = c
  BY DEF Fail
<1>2. DOMAIN stages' = {} /\ ToSet(stages') = {} /\ stages' \in Seq(Stages)
  BY <1>1 DEF ToSet
<1>3. code = 0 /\ road # "none"
  BY FirstStage
<1>4. RestoreTypes'
  BY <1>1, <1>2 DEF RInv, RestoreTypes, StagesSorted
<1>5. NotBegun' /\ Processed' /\ StagesDone'
  BY <1>1, <1>2, <1>3 DEF RInv, NotBegun, Processed, StagesDone, ToCome
<1>6. DataStage'
  BY <1>1, <1>2, <1>3 DEF RInv, DataStage, ToCome
<1>7. BlameIsFair'
  BY <1>1 DEF BlameIsFair
<1>8. QED
  BY <1>4, <1>5, <1>6, <1>7 DEF RInv

\* A stage of which only its success or its code is known.
LEMMA RunsKeeps ==
  ASSUME RInv, NEW stage \in Stages \ {"restore", "prepare", "data"}, NEW on,
         NEW codes \in SUBSET (Codes \ {0, 64}), Runs(stage, on, codes),
         codes \cap {42, 44} # {} => StageRank(stage) < 10
  PROVE  RInv' /\ Stage # "over" /\ code' # 64
<1>1. /\ Stage = stage /\ Stage # "over"
      /\ UNCHANGED <<road, dump, noise, load, sent, rows, schema>>
      /\ Proceed \/ \E c \in codes : Fail(c)
  BY DEF Runs, Stages
<1>2. code = 0 /\ schema \in {"untouched", "prepared", "restored"}
  BY <1>1, FirstStage DEF RInv, RestoreTypes
<1>3. CASE Proceed
  <2>1. RInv'
    BY <1>1, <1>2, <1>3, StageGoesWell
  <2>2. code' # 64
    BY <1>2, <1>3 DEF Proceed
  <2>3. QED
    BY <1>1, <2>1, <2>2
<1>4. CASE \E c \in codes : Fail(c)
  <2>1. PICK c \in codes : Fail(c)
    BY <1>4
  <2>2. c \in Codes \ {0} /\ c # 64
    OBVIOUS
  <2>3. c \in {42, 44} => dump = "idle"
    BY <1>1, FirstStage
  <2>4. RInv'
    BY <1>1, <2>1, <2>2, <2>3, StageFails
  <2>5. QED
    BY <1>1, <2>1, <2>2, <2>4 DEF Fail
<1>5. QED
  BY <1>1, <1>3, <1>4

LEMMA SimpleKeeps ==
  ASSUME RInv, Simple
  PROVE  RInv' /\ Stage # "over" /\ code' # 64
<1>1. CASE DiscoverSourceAppSchemas
  BY <1>1, RunsKeeps, StageRanks DEF DiscoverSourceAppSchemas, Stages, Codes
<1>2. CASE CheckPrivileges
  BY <1>2, RunsKeeps, StageRanks DEF CheckPrivileges, Stages, Codes
<1>3. CASE EnsureTargetPolicyRoles
  BY <1>3, RunsKeeps, StageRanks DEF EnsureTargetPolicyRoles, Stages, Codes
<1>4. CASE PrepareSchemas
  <2>1. Stage = "prepare" /\ Stage # "over" /\ UNCHANGED <<road, dump, noise, load, sent, rows>>
    BY <1>4 DEF PrepareSchemas
  <2>2. code = 0 /\ schema \in {"untouched", "prepared", "restored"} /\ dump = "idle"
    BY <2>1, FirstStage, StageRanks DEF RInv, RestoreTypes
  <2>3. CASE Proceed /\ schema' = "prepared"
    BY <2>1, <2>2, <2>3, StageGoesWell DEF Proceed
  <2>4. CASE Fail(43) /\ schema' \in {schema, "prepared"}
    <3>1. 43 \in Codes \ {0}
      BY DEF Codes
    <3>2. RInv'
      BY <2>1, <2>4, <3>1, StageFails
    <3>3. QED
      BY <2>1, <2>4, <3>2 DEF Fail
  <2>5. QED
    BY <1>4, <2>3, <2>4 DEF PrepareSchemas
<1>5. CASE PrepareTargetExtensionDependencies
  BY <1>5, RunsKeeps, StageRanks DEF PrepareTargetExtensionDependencies, Stages, Codes
<1>6. CASE PrepareExtensions
  BY <1>6, RunsKeeps, StageRanks DEF PrepareExtensions, Stages, Codes
<1>7. CASE DumpSchema
  BY <1>7, RunsKeeps, StageRanks DEF DumpSchema, Stages, Codes
<1>8. CASE CheckReplicaRole
  BY <1>8, RunsKeeps, StageRanks DEF CheckReplicaRole, Stages, Codes
<1>9. CASE MakePipe
  BY <1>9, RunsKeeps, StageRanks DEF MakePipe, Stages, Codes
<1>10. CASE RestoreManagedObjects
  BY <1>10, RunsKeeps, StageRanks DEF RestoreManagedObjects, Stages, Codes
<1>11. CASE CountRows
  BY <1>11, RunsKeeps, StageRanks DEF CountRows, Stages, Codes
<1>12. QED
  BY <1>1, <1>2, <1>3, <1>4, <1>5, <1>6, <1>7, <1>8, <1>9, <1>10, <1>11 DEF Simple

\* A pass over the schema.
LEMMA SchemaKeeps ==
  ASSUME RInv, RestorePasses \/ RestoreFails \/ \E o \in entries : RestoreFailsAt(o)
  PROVE  RInv' /\ Stage = "restore" /\ code' # 64
<1>1. Stage = "restore" /\ UNCHANGED <<road, dump, noise, load, sent, rows>>
  BY DEF RestorePasses, RestoreFails, RestoreFailsAt
<1>2. code = 0 /\ schema \in {"untouched", "prepared", "restored"} /\ 43 \in Codes \ {0}
  BY <1>1, FirstStage DEF RInv, RestoreTypes, Codes
<1>3. CASE RestorePasses
  BY <1>1, <1>2, <1>3, StageGoesWell DEF RestorePasses, Proceed
<1>4. CASE Fail(43) /\ UNCHANGED schema
  <2>1. RInv'
    BY <1>1, <1>2, <1>4, StageFails
  <2>2. QED
    BY <1>1, <1>4, <2>1 DEF Fail
<1>5. CASE UNCHANGED <<stages, code, schema>>
  <2>1. UNCHANGED <<road, stages, dump, noise, load, sent, rows, schema, code>>
    BY <1>1, <1>5
  <2>2. RInv'
    BY <2>1 DEF RInv, RestoreTypes, NotBegun, StagesDone, DataStage, Processed, BlameIsFair,
                RestoreIsOver, ToCome, Stage, StagesSorted
  <2>3. QED
    BY <1>1, <1>2, <1>5, <2>2
<1>6. QED
  BY <1>3, <1>4, <1>5 DEF RestoreFails, RestoreFailsAt

\* The processes of the data stage move, and their results agree.
LEMMA DataMoves ==
  ASSUME RInv, Stage = "data", UNCHANGED <<road, stages, schema, code>>,
         dump' \in {"idle", "starting", "opening", "writing"} \cup Ended,
         load' \in {"idle", "starting", "opening", "reading", "committing"} \cup Ended,
         noise' \in BOOLEAN, sent' \in 0..NumRows, rows' \in 0..NumRows, Processed'
  PROVE  RInv'
<1>1. stages # <<>> /\ code = 0 /\ road # "none" /\ ToCome("data")
  BY FirstStage
<1>2. RestoreTypes'
  BY <1>1 DEF RInv, RestoreTypes, StagesSorted
<1>3. NotBegun' /\ BlameIsFair' /\ ToCome("data")' /\ Stage' = "data"
  BY <1>1 DEF NotBegun, BlameIsFair, RestoreIsOver, ToCome, Stage
<1>4. StagesDone'
  BY <1>1, <1>3 DEF RInv, StagesDone, ToCome
<1>5. DataStage'
  BY <1>3 DEF DataStage
<1>6. QED
  BY <1>2, <1>3, <1>4, <1>5 DEF RInv

\* While a process is under way the data stage is, unless a callback has cut it off.
LEMMA ProcessesRun ==
  ASSUME RInv, code # 64,
         dump \notin Ended \cup {"idle"} \/ load \notin Ended \cup {"idle"}
  PROVE  Stage = "data"
BY DEF RInv, DataStage

LEMMA DataKeeps ==
  ASSUME RInv, code # 64, NEW whole \in BOOLEAN,
         \/ StartData \/ PipeOpens \/ Write
         \/ \E alive \in BOOLEAN : DumpConnects(alive) \/ LoadConnects(alive)
         \/ DumpEnds(whole) \/ DumpBreaks \/ DumpFails \/ LoadFails
         \/ InputEnds \/ InputBreaks \/ Commit
  PROVE  /\ RInv' /\ Stage = "data" /\ UNCHANGED <<stages, code, road>>
         /\ dump' = "done" => dump = "done" \/ whole
<1>1. /\ Stage = "data"
      /\ UNCHANGED <<road, stages, schema, code>>
  <2>1. StartData => Stage = "data"
    BY DEF StartData
  <2>2. ~StartData => dump \notin Ended \cup {"idle"} \/ load \notin Ended \cup {"idle"}
    BY DEF PipeOpens, Write, DumpConnects, LoadConnects, DumpEnds, DumpBreaks, DumpFails, LoadFails,
           InputEnds, InputBreaks, Commit, Ended
  <2>3. UNCHANGED <<road, stages, schema, code>>
    BY DEF StartData, PipeOpens, Write, DumpConnects, LoadConnects, DumpEnds, DumpBreaks, DumpFails,
           LoadFails, InputEnds, InputBreaks, Commit
  <2>4. QED
    BY <2>1, <2>2, <2>3, ProcessesRun
<1>2. /\ road \in {"clone", "backup"} /\ noise \in BOOLEAN /\ NumRows \in Nat
      /\ sent \in 0..NumRows /\ rows \in 0..NumRows
      /\ dump \in {"idle", "starting", "opening", "writing"} \cup Ended
      /\ load \in {"idle", "starting", "opening", "reading", "committing"} \cup Ended
      /\ Processed
  BY <1>1, FirstStage, RestoreConstants DEF RInv, RestoreTypes
<1> DEFINE Fine == /\ dump' \in {"idle", "starting", "opening", "writing"} \cup Ended
                   /\ load' \in {"idle", "starting", "opening", "reading", "committing"} \cup Ended
                   /\ noise' \in BOOLEAN /\ sent' \in 0..NumRows /\ rows' \in 0..NumRows /\ Processed'
                   /\ dump' = "done" => dump = "done" \/ whole
<1>3. ASSUME StartData PROVE Fine
  BY <1>1, <1>2, <1>3 DEF StartData, Processes, Processed, Ended
<1>4. ASSUME PipeOpens PROVE Fine
  BY <1>1, <1>2, <1>4 DEF PipeOpens, Processes, Processed, Ended
<1>5. ASSUME Write PROVE Fine
  <2>1. sent' \in 0..NumRows /\ rows = 0
    BY <1>2, <1>5 DEF Write, Processed
  <2>2. QED
    BY <1>1, <1>2, <1>5, <2>1 DEF Write, Processed, Ended
<1>6. ASSUME \E alive \in BOOLEAN : DumpConnects(alive) PROVE Fine
  <2>1. PICK alive \in BOOLEAN : DumpConnects(alive)
    BY <1>6
  <2>2. QED
    BY <1>1, <1>2, <2>1 DEF DumpConnects, Processed, Ended
<1>7. ASSUME \E alive \in BOOLEAN : LoadConnects(alive) PROVE Fine
  <2>1. PICK alive \in BOOLEAN : LoadConnects(alive)
    BY <1>7
  <2>2. QED
    BY <1>1, <1>2, <2>1 DEF LoadConnects, Processed, Ended
<1>8. ASSUME DumpEnds(whole) PROVE Fine
  BY <1>1, <1>2, <1>8 DEF DumpEnds, Processed, Ended
<1>9. ASSUME DumpBreaks PROVE Fine
  BY <1>1, <1>2, <1>9 DEF DumpBreaks, Processed, Ended
<1>10. ASSUME DumpFails PROVE Fine
  BY <1>1, <1>2, <1>10 DEF DumpFails, Processed, Ended
<1>11. ASSUME LoadFails PROVE Fine
  BY <1>1, <1>2, <1>11 DEF LoadFails, Processed, Ended
<1>12. ASSUME InputEnds PROVE Fine
  BY <1>1, <1>2, <1>12 DEF InputEnds, ReadsToEnd, Processed, Ended
<1>13. ASSUME InputBreaks PROVE Fine
  BY <1>1, <1>2, <1>13 DEF InputBreaks, Processed, Ended
<1>14. ASSUME Commit PROVE Fine
  BY <1>1, <1>2, <1>14 DEF Commit, Processed, Ended
<1>15. Fine
  BY <1>3, <1>4, <1>5, <1>6, <1>7, <1>8, <1>9, <1>10, <1>11, <1>12, <1>13, <1>14
<1>16. QED
  BY <1>1, <1>15, DataMoves

\* The statuses of both processes give the verdict.
LEMMA DataEndsRight ==
  ASSUME RInv, DataEnds
  PROVE  RInv' /\ Stage = "data" /\ code' # 64 /\ UNCHANGED <<road, dump>>
<1>1. /\ Stage = "data" /\ dump \in Ended /\ load \in Ended
      /\ UNCHANGED <<road, dump, noise, load, sent, rows, schema>>
  BY DEF DataEnds
<1>2. road \in {"clone", "backup"} /\ code = 0
      /\ schema \in {"untouched", "prepared", "restored"}
  BY <1>1, FirstStage DEF RInv, RestoreTypes
<1>3. DataVerdict \in {0, 42, 44}
  BY <1>1, <1>2 DEF DataVerdict, Ended
<1>4. CASE DataVerdict = 0
  <2>1. dump = "done" /\ load = "done"
    BY <1>1, <1>2, <1>4 DEF DataVerdict, Ended
  <2>2. Proceed
    BY <1>4 DEF DataEnds
  <2>3. QED
    BY <1>1, <1>2, <2>1, <2>2, StageGoesWell DEF Proceed
<1>5. CASE DataVerdict # 0
  <2>1. Fail(DataVerdict) /\ DataVerdict \in Codes \ {0} /\ DataVerdict # 64
    BY <1>3, <1>5 DEF DataEnds, Codes
  <2>2. /\ DataVerdict = 42 => dump \in {"idle", "failed"}
        /\ DataVerdict = 44 => load = "failed" \/ (road = "backup" /\ dump = "failed")
    BY <1>1, <1>2, <1>5 DEF DataVerdict, Ended
  <2>3. RInv'
    BY <1>1, <2>1, <2>2, StageFails
  <2>4. QED
    BY <1>1, <2>1, <2>3 DEF Fail
<1>6. QED
  BY <1>4, <1>5

LEMMA RestoreKeeps ==
  ASSUME RInv, code # 64, NEW whole \in BOOLEAN, RestoreStep(whole) \/ RestoreMishap
  PROVE  /\ RInv' /\ code' # 64 /\ stages # <<>> /\ UNCHANGED road
         /\ dump' = "done" => dump = "done" \/ whole
<1>1. CASE Simple
  <2>1. UNCHANGED <<road, dump>>
    BY <1>1 DEF Simple, DiscoverSourceAppSchemas, CheckPrivileges, EnsureTargetPolicyRoles,
                PrepareSchemas, PrepareTargetExtensionDependencies, PrepareExtensions, DumpSchema,
                CheckReplicaRole, MakePipe, RestoreManagedObjects, CountRows, Runs
  <2>2. QED
    BY <1>1, <2>1, SimpleKeeps, FirstStage
<1>2. CASE RestorePasses \/ RestoreFails \/ \E o \in entries : RestoreFailsAt(o)
  <2>1. UNCHANGED <<road, dump>>
    BY <1>2 DEF RestorePasses, RestoreFails, RestoreFailsAt
  <2>2. QED
    BY <1>2, <2>1, SchemaKeeps, FirstStage
<1>3. CASE \/ StartData \/ PipeOpens \/ Write
           \/ \E alive \in BOOLEAN : DumpConnects(alive) \/ LoadConnects(alive)
           \/ DumpEnds(whole) \/ DumpBreaks \/ DumpFails \/ LoadFails
           \/ InputEnds \/ InputBreaks \/ Commit
  BY <1>3, DataKeeps, FirstStage
<1>4. CASE DataNeverStarts
  <2>1. /\ Stage = "data" /\ dump = "idle" /\ load = "idle" /\ Fail(44) /\ 44 \in Codes \ {0}
        /\ UNCHANGED <<road, dump, noise, load, sent, rows, schema>>
    BY <1>4 DEF DataNeverStarts, RInv, Processed, Codes
  <2>2. RInv'
    BY <2>1, StageFails
  <2>3. QED
    BY <2>1, <2>2, FirstStage DEF Fail
<1>5. CASE DataEnds
  BY <1>5, DataEndsRight, FirstStage
<1>6. QED
  BY <1>1, <1>2, <1>3, <1>4, <1>5 DEF RestoreStep, RestoreMishap

\* The post of a stage of the backup's restore was given up.
LEMMA RestoreIsCutOff ==
  ASSUME RInv, stages # <<>>, Fail(64), UNCHANGED <<road, dump, noise, load, sent, rows, schema>>
  PROVE  RInv'
<1>1. Stage # "over" /\ 64 \in Codes \ {0}
  <2>1. stages \in Seq(Stages)
    BY DEF RInv, RestoreTypes
  <2>2. Head(stages) \in Stages
    BY <2>1
  <2>3. QED
    BY <2>2 DEF Stage, Stages, Codes
<1>2. QED
  BY <1>1, StageFails

\* What the invariant says of the verdicts.
LEMMA VerdictsFollow ==
  ASSUME RInv
  PROVE  RestoreVerdicts
<1>1. GoodRestoresAreWhole
  <2>1. SUFFICES ASSUME RestoreIsOver, code = 0 PROVE rows = NumRows /\ schema = "restored"
    BY DEF GoodRestoresAreWhole
  <2>2. ToSet(stages) = {}
    BY <2>1 DEF RestoreIsOver, ToSet
  <2>3. schema = "restored" /\ dump = "done" /\ load = "done"
    BY <2>1, <2>2 DEF RInv, StagesDone, ToCome, RestoreIsOver
  <2>4. QED
    BY <2>3 DEF RInv, Processed
<1>2. BackupIsAllOrNothing
  BY RestoreConstants DEF BackupIsAllOrNothing, RInv, Processed, Ended
<1>3. QED
  BY <1>1, <1>2 DEF RestoreVerdicts, RInv

-----------------------------------------------------------------------------
(***************************************************************************)
(* Plans: their steps come in one order.                                   *)
(***************************************************************************)

LEMMA StepRanks ==
  /\ Rank("config") = 1 /\ Rank("inspectTarget") = 2 /\ Rank("connectTarget") = 3
  /\ Rank("resolveSource") = 4 /\ Rank("connectSource") = 5 /\ Rank("countTables") = 6
  /\ Rank("clone") = 7 /\ Rank("warn") = 8 /\ Rank("rls") = 9 /\ Rank("users") = 10
  /\ Rank("compare") = 11 /\ Rank("fetchBackup") = 12 /\ Rank("inspectBackup") = 13
  /\ Rank("fitCheck") = 14 /\ Rank("restore") = 15 /\ Rank("rowsMatch") = 16
  /\ Rank("adminKey") = 17 /\ Rank("noHelper") = 18 /\ Rank("listFiles") = 19
  /\ Rank("copyFiles") = 20 /\ Rank("owners") = 21 /\ Rank("ownersPost") = 22
  /\ Rank("fileOutcome") = 23 /\ Rank("tally") = 24 /\ Rank("outcome") = 25
  /\ \A x \in Names : Rank(x) \in 1..25
BY DEF Rank, Names

\* A part of a plan whose steps have ranks between lo and hi.
Part(s, lo, hi) ==
  /\ s \in Seq(Names \cup {"post"})
  /\ Sorted(s) /\ OwnersPosted(s) /\ OutcomeLast(s)
  /\ \A i \in DOMAIN s : s[i] # "post" => lo <= Rank(s[i]) /\ Rank(s[i]) <= hi

LEMMA Joined ==
  ASSUME NEW s, NEW t, NEW a \in 1..25, NEW b \in 1..25, NEW c \in 1..25, NEW d \in 1..25,
         Part(s, a, b), Part(t, c, d), a <= b, b < c, c <= d
  PROVE  Part(s \o t, a, d) /\ ToSet(s \o t) = ToSet(s) \cup ToSet(t)
<1> DEFINE u == s \o t
<1>1. /\ s \in Seq(Names \cup {"post"}) /\ t \in Seq(Names \cup {"post"})
      /\ Len(s) \in Nat /\ Len(t) \in Nat
      /\ DOMAIN s = 1..Len(s) /\ DOMAIN t = 1..Len(t)
  BY DEF Part
<1>2. /\ u \in Seq(Names \cup {"post"}) /\ Len(u) = Len(s) + Len(t)
      /\ DOMAIN u = 1..(Len(s) + Len(t))
      /\ \A i \in 1..Len(s) : u[i] = s[i]
      /\ \A i \in 1..Len(t) : u[Len(s) + i] = t[i]
  BY <1>1
<1>3. \A i \in DOMAIN u : \/ i \in DOMAIN s /\ u[i] = s[i]
                          \/ i - Len(s) \in DOMAIN t /\ u[i] = t[i - Len(s)]
  <2>1. SUFFICES ASSUME NEW i \in DOMAIN u, i \notin DOMAIN s
                 PROVE  i - Len(s) \in DOMAIN t /\ u[i] = t[i - Len(s)]
    BY <1>1, <1>2
  <2>2. i - Len(s) \in 1..Len(t) /\ i = Len(s) + (i - Len(s))
    BY <2>1, <1>1, <1>2
  <2>3. QED
    BY <2>2, <1>1, <1>2
<1>4. \A i \in DOMAIN s : s[i] # "post" => Rank(s[i]) \in 1..25 /\ a <= Rank(s[i]) /\ Rank(s[i]) <= b
  <2>1. \A i \in DOMAIN s : s[i] # "post" => s[i] \in Names
    BY <1>1
  <2>2. \A i \in DOMAIN s : s[i] # "post" => Rank(s[i]) \in 1..25
    BY <2>1, StepRanks
  <2>3. \A i \in DOMAIN s : s[i] # "post" => a <= Rank(s[i]) /\ Rank(s[i]) <= b
    BY DEF Part
  <2>4. QED
    BY <2>2, <2>3
<1>5. \A i \in DOMAIN t : t[i] # "post" => Rank(t[i]) \in 1..25 /\ c <= Rank(t[i]) /\ Rank(t[i]) <= d
  <2>1. \A i \in DOMAIN t : t[i] # "post" => t[i] \in Names
    BY <1>1
  <2>2. \A i \in DOMAIN t : t[i] # "post" => Rank(t[i]) \in 1..25
    BY <2>1, StepRanks
  <2>3. \A i \in DOMAIN t : t[i] # "post" => c <= Rank(t[i]) /\ Rank(t[i]) <= d
    BY DEF Part
  <2>4. QED
    BY <2>2, <2>3
<1> HIDE DEF u
<1>6. Sorted(u)
  <2>1. SUFFICES ASSUME NEW i \in DOMAIN u, NEW j \in DOMAIN u, i < j, u[i] # "post", u[j] # "post"
                 PROVE  Rank(u[i]) < Rank(u[j])
    BY DEF Sorted
  <2>2. CASE i \in DOMAIN s /\ j \in DOMAIN s
    BY <2>1, <2>2, <1>1, <1>2 DEF Part, Sorted
  <2>3. CASE i \in DOMAIN s /\ j \notin DOMAIN s
    <3>1. u[i] = s[i] /\ j - Len(s) \in DOMAIN t /\ u[j] = t[j - Len(s)]
      BY <2>3, <1>1, <1>2, <1>3
    <3>2. Rank(u[i]) \in 1..25 /\ Rank(u[i]) <= b
      BY <2>1, <2>3, <3>1, <1>4
    <3>3. Rank(u[j]) \in 1..25 /\ c <= Rank(u[j])
      BY <2>1, <3>1, <1>5
    <3>4. QED
      BY <3>2, <3>3
  <2>4. CASE i \notin DOMAIN s
    <3>1. i - Len(s) \in DOMAIN t /\ j - Len(s) \in DOMAIN t /\ i - Len(s) < j - Len(s)
          /\ u[i] = t[i - Len(s)] /\ u[j] = t[j - Len(s)]
      BY <2>1, <2>4, <1>1, <1>2, <1>3
    <3>2. QED
      BY <2>1, <3>1 DEF Part, Sorted
  <2>5. QED
    BY <2>2, <2>3, <2>4
<1>7. OwnersPosted(u)
  <2>1. SUFFICES ASSUME NEW i \in DOMAIN u, u[i] = "owners"
                 PROVE  i + 1 \in DOMAIN u /\ u[i + 1] = "ownersPost"
    BY DEF OwnersPosted
  <2>2. CASE i \in DOMAIN s
    <3>1. i + 1 \in DOMAIN s /\ s[i + 1] = "ownersPost"
      BY <2>1, <2>2, <1>1, <1>2 DEF Part, OwnersPosted
    <3>2. QED
      BY <3>1, <1>1, <1>2
  <2>3. CASE i \notin DOMAIN s
    <3>1. i - Len(s) \in DOMAIN t /\ t[i - Len(s)] = "owners"
      BY <2>1, <2>3, <1>3
    <3>2. (i - Len(s)) + 1 \in DOMAIN t /\ t[(i - Len(s)) + 1] = "ownersPost"
      BY <3>1 DEF Part, OwnersPosted
    <3>3. i + 1 = Len(s) + ((i - Len(s)) + 1) /\ i + 1 \in DOMAIN u
      BY <3>2, <1>1, <1>2
    <3>4. QED
      BY <3>2, <3>3, <1>1, <1>2
  <2>4. QED
    BY <2>2, <2>3
<1>8. OutcomeLast(u)
  <2>1. SUFFICES ASSUME NEW i \in DOMAIN u, u[i] = "outcome" PROVE i = Len(u)
    BY DEF OutcomeLast
  <2>2. i \notin DOMAIN s
    <3>1. SUFFICES ASSUME i \in DOMAIN s PROVE FALSE
      OBVIOUS
    <3>2. s[i] = "outcome"
      BY <2>1, <3>1, <1>1, <1>2
    <3>3. Rank("outcome") <= b
      BY <3>1, <3>2, <1>4
    <3>4. QED
      BY <3>3, StepRanks
  <2>3. i - Len(s) = Len(t)
    BY <2>1, <2>2, <1>3 DEF Part, OutcomeLast
  <2>4. QED
    BY <2>2, <2>3, <1>1, <1>2
<1>9. \A i \in DOMAIN u : u[i] # "post" => a <= Rank(u[i]) /\ Rank(u[i]) <= d
  <2>1. SUFFICES ASSUME NEW i \in DOMAIN u, u[i] # "post" PROVE a <= Rank(u[i]) /\ Rank(u[i]) <= d
    OBVIOUS
  <2>2. CASE i \in DOMAIN s
    <3>1. u[i] = s[i]
      BY <2>2, <1>1, <1>2
    <3>2. Rank(u[i]) \in 1..25 /\ a <= Rank(u[i]) /\ Rank(u[i]) <= b
      BY <2>1, <2>2, <3>1, <1>4
    <3>3. QED
      BY <3>2
  <2>3. CASE i \notin DOMAIN s
    <3>1. i - Len(s) \in DOMAIN t /\ u[i] = t[i - Len(s)]
      BY <2>3, <1>3
    <3>2. Rank(u[i]) \in 1..25 /\ c <= Rank(u[i]) /\ Rank(u[i]) <= d
      BY <2>1, <3>1, <1>5
    <3>3. QED
      BY <3>2
  <2>4. QED
    BY <2>2, <2>3
<1>10. ToSet(u) = ToSet(s) \cup ToSet(t)
  <2>1. \A i \in DOMAIN s : i \in DOMAIN u /\ u[i] = s[i]
    BY <1>1, <1>2
  <2>2. \A i \in DOMAIN t : Len(s) + i \in DOMAIN u /\ u[Len(s) + i] = t[i]
    BY <1>1, <1>2
  <2>3. QED
    BY <2>1, <2>2, <1>3 DEF ToSet
<1>11. QED
  BY <1>2, <1>6, <1>7, <1>8, <1>9, <1>10 DEF Part, u

\* The parts that plans are made of.
LEMMA Parts ==
  /\ Part(Validated, 1, 2) /\ ToSet(Validated) = {"config", "post", "inspectTarget"}
  /\ Part(Cloned, 7, 11) /\ ToSet(Cloned) = {"clone", "warn", "post", "rls", "users", "compare"}
  /\ Part(EdgeFiles, 17, 25)
  /\ ToSet(EdgeFiles) = {"adminKey", "post", "listFiles", "copyFiles", "fileOutcome", "outcome"}
  /\ Part(BackupOpened, 12, 13) /\ ToSet(BackupOpened) = {"post", "fetchBackup", "inspectBackup"}
  /\ Part(Restored, 14, 15) /\ ToSet(Restored) = {"fitCheck", "restore"}
  /\ Part(BackupChecked, 16, 16) /\ ToSet(BackupChecked) = {"post", "rowsMatch"}
  /\ Part(HelperFiles, 19, 22)
  /\ ToSet(HelperFiles) = {"post", "listFiles", "copyFiles", "owners", "ownersPost"}
  /\ Part(StorageFlow, 1, 25)
  /\ ToSet(StorageFlow) = {"config", "resolveSource", "countTables", "post", "adminKey", "listFiles",
                           "copyFiles", "outcome"}
  /\ Part(DirectDbCloneFlow, 1, 11)
  /\ ToSet(DirectDbCloneFlow) = {"config", "resolveSource", "clone", "rls", "users", "compare"}
  /\ Part(TargetDbTestFlow, 1, 25)
  /\ ToSet(TargetDbTestFlow) = {"config", "post", "connectTarget", "outcome"}
  /\ Part(SourceInspectFlow, 1, 25)
  /\ ToSet(SourceInspectFlow) = {"config", "post", "resolveSource", "connectSource", "outcome"}
<1>1. Part(Validated, 1, 2) /\ ToSet(Validated) = {"config", "post", "inspectTarget"}
  BY StepRanks DEF Part, Sorted, OwnersPosted, OutcomeLast, ToSet, Names, Validated
<1>2. Part(Cloned, 7, 11) /\ ToSet(Cloned) = {"clone", "warn", "post", "rls", "users", "compare"}
  BY StepRanks DEF Part, Sorted, OwnersPosted, OutcomeLast, ToSet, Names, Cloned
<1>3. /\ Part(EdgeFiles, 17, 25)
      /\ ToSet(EdgeFiles) = {"adminKey", "post", "listFiles", "copyFiles", "fileOutcome", "outcome"}
  BY StepRanks DEF Part, Sorted, OwnersPosted, OutcomeLast, ToSet, Names, EdgeFiles
<1>4. Part(BackupOpened, 12, 13) /\ ToSet(BackupOpened) = {"post", "fetchBackup", "inspectBackup"}
  BY StepRanks DEF Part, Sorted, OwnersPosted, OutcomeLast, ToSet, Names, BackupOpened
<1>5. Part(Restored, 14, 15) /\ ToSet(Restored) = {"fitCheck", "restore"}
  BY StepRanks DEF Part, Sorted, OwnersPosted, OutcomeLast, ToSet, Names, Restored
<1>6. Part(BackupChecked, 16, 16) /\ ToSet(BackupChecked) = {"post", "rowsMatch"}
  BY StepRanks DEF Part, Sorted, OwnersPosted, OutcomeLast, ToSet, Names, BackupChecked
<1>7. /\ Part(HelperFiles, 19, 22)
      /\ ToSet(HelperFiles) = {"post", "listFiles", "copyFiles", "owners", "ownersPost"}
  BY StepRanks DEF Part, Sorted, OwnersPosted, OutcomeLast, ToSet, Names, HelperFiles
<1>8. /\ Part(StorageFlow, 1, 25)
      /\ ToSet(StorageFlow) = {"config", "resolveSource", "countTables", "post", "adminKey",
                               "listFiles", "copyFiles", "outcome"}
  BY StepRanks DEF Part, Sorted, OwnersPosted, OutcomeLast, ToSet, Names, StorageFlow
<1>9. /\ Part(DirectDbCloneFlow, 1, 11)
      /\ ToSet(DirectDbCloneFlow) = {"config", "resolveSource", "clone", "rls", "users", "compare"}
  BY StepRanks DEF Part, Sorted, OwnersPosted, OutcomeLast, ToSet, Names, DirectDbCloneFlow
<1>10. /\ Part(TargetDbTestFlow, 1, 25)
       /\ ToSet(TargetDbTestFlow) = {"config", "post", "connectTarget", "outcome"}
  BY StepRanks DEF Part, Sorted, OwnersPosted, OutcomeLast, ToSet, Names, TargetDbTestFlow
<1>11. /\ Part(SourceInspectFlow, 1, 25)
       /\ ToSet(SourceInspectFlow) = {"config", "post", "resolveSource", "connectSource", "outcome"}
  BY StepRanks DEF Part, Sorted, OwnersPosted, OutcomeLast, ToSet, Names, SourceInspectFlow
<1>12. QED
  BY <1>1, <1>2, <1>3, <1>4, <1>5, <1>6, <1>7, <1>8, <1>9, <1>10, <1>11

\* The short lists that plans are completed with.
LEMMA Fillers ==
  /\ Part(<<"resolveSource", "post", "countTables", "post">>, 4, 6)
  /\ ToSet(<<"resolveSource", "post", "countTables", "post">>) = {"resolveSource", "post", "countTables"}
  /\ Part(<<"outcome">>, 25, 25) /\ ToSet(<<"outcome">>) = {"outcome"}
  /\ Part(<<"config">>, 1, 1) /\ ToSet(<<"config">>) = {"config"}
  /\ Part(<<"tally", "outcome">>, 24, 25) /\ ToSet(<<"tally", "outcome">>) = {"tally", "outcome"}
  /\ Part(<<"noHelper", "post", "tally", "outcome">>, 18, 25)
  /\ ToSet(<<"noHelper", "post", "tally", "outcome">>) = {"noHelper", "post", "tally", "outcome"}
<1>1. /\ Part(<<"resolveSource", "post", "countTables", "post">>, 4, 6)
      /\ ToSet(<<"resolveSource", "post", "countTables", "post">>)
           = {"resolveSource", "post", "countTables"}
  BY StepRanks DEF Part, Sorted, OwnersPosted, OutcomeLast, ToSet, Names
<1>2. Part(<<"outcome">>, 25, 25) /\ ToSet(<<"outcome">>) = {"outcome"}
  BY StepRanks DEF Part, Sorted, OwnersPosted, OutcomeLast, ToSet, Names
<1>3. Part(<<"config">>, 1, 1) /\ ToSet(<<"config">>) = {"config"}
  BY StepRanks DEF Part, Sorted, OwnersPosted, OutcomeLast, ToSet, Names
<1>4. Part(<<"tally", "outcome">>, 24, 25) /\ ToSet(<<"tally", "outcome">>) = {"tally", "outcome"}
  BY StepRanks DEF Part, Sorted, OwnersPosted, OutcomeLast, ToSet, Names
<1>5. /\ Part(<<"noHelper", "post", "tally", "outcome">>, 18, 25)
      /\ ToSet(<<"noHelper", "post", "tally", "outcome">>) = {"noHelper", "post", "tally", "outcome"}
  BY StepRanks DEF Part, Sorted, OwnersPosted, OutcomeLast, ToSet, Names
<1>6. QED
  BY <1>1, <1>2, <1>3, <1>4, <1>5

\* The parts of several plans, joined.
LEMMA LongerParts ==
  /\ Part(EdgeSource \o Cloned, 1, 11)
  /\ ToSet(EdgeSource \o Cloned) =
       {"config", "post", "inspectTarget", "resolveSource", "countTables", "clone", "warn", "rls",
        "users", "compare"}
  /\ Part(BackupFlow, 1, 16)
  /\ ToSet(BackupFlow) = {"config", "post", "inspectTarget", "fetchBackup", "inspectBackup",
                          "fitCheck", "restore", "rowsMatch"}
<1> DEFINE sourced == <<"resolveSource", "post", "countTables", "post">>
<1>0. /\ {1, 2, 4, 6, 7, 11, 12, 13, 14, 15, 16} \subseteq 1..25
      /\ 1 <= 2 /\ 2 < 4 /\ 4 <= 6 /\ 1 <= 6 /\ 6 < 7 /\ 7 <= 11
      /\ 2 < 12 /\ 12 <= 13 /\ 1 <= 13 /\ 13 < 14 /\ 14 <= 15 /\ 1 <= 15 /\ 15 < 16 /\ 16 <= 16
  OBVIOUS
<1>1. Part(EdgeSource, 1, 6) /\ ToSet(EdgeSource) = ToSet(Validated) \cup ToSet(sourced)
  <2>1. EdgeSource = Validated \o sourced
    BY DEF EdgeSource
  <2>2. Part(sourced, 4, 6)
    BY Fillers
  <2> HIDE DEF sourced
  <2>3. QED
    BY <1>0, <2>1, <2>2, Parts, Joined, Zenon
<1>2. /\ Part(EdgeSource \o Cloned, 1, 11)
      /\ ToSet(EdgeSource \o Cloned) = ToSet(EdgeSource) \cup ToSet(Cloned)
  BY <1>0, <1>1, Parts, Joined, Zenon
<1>3. ToSet(EdgeSource \o Cloned) =
        {"config", "post", "inspectTarget", "resolveSource", "countTables", "clone", "warn", "rls",
         "users", "compare"}
  <2>1. ToSet(sourced) = {"resolveSource", "post", "countTables"}
    BY Fillers
  <2> HIDE DEF sourced
  <2>2. QED
    BY <1>1, <1>2, <2>1, Parts
<1>4. /\ Part(Validated \o BackupOpened, 1, 13)
      /\ ToSet(Validated \o BackupOpened) = ToSet(Validated) \cup ToSet(BackupOpened)
  BY <1>0, Parts, Joined, Zenon
<1>5. /\ Part(Validated \o BackupOpened \o Restored, 1, 15)
      /\ ToSet(Validated \o BackupOpened \o Restored)
           = ToSet(Validated \o BackupOpened) \cup ToSet(Restored)
  BY <1>0, <1>4, Parts, Joined, Zenon
<1>6. /\ Part(BackupFlow, 1, 16)
      /\ ToSet(BackupFlow) = ToSet(Validated \o BackupOpened \o Restored) \cup ToSet(BackupChecked)
  <2>1. 1 \in 1..25 /\ 15 \in 1..25 /\ 16 \in 1..25 /\ 1 <= 15 /\ 15 < 16 /\ 16 <= 16
    BY <1>0
  <2>2. Part(BackupChecked, 16, 16)
    BY Parts
  <2>3. /\ Part((Validated \o BackupOpened \o Restored) \o BackupChecked, 1, 16)
        /\ ToSet((Validated \o BackupOpened \o Restored) \o BackupChecked)
             = ToSet(Validated \o BackupOpened \o Restored) \cup ToSet(BackupChecked)
    BY <1>5, <2>1, <2>2, Joined, Zenon
  <2>4. QED
    BY <2>3 DEF BackupFlow
<1>7. ToSet(BackupFlow) = {"config", "post", "inspectTarget", "fetchBackup", "inspectBackup",
                           "fitCheck", "restore", "rowsMatch"}
  BY <1>4, <1>5, <1>6, Parts
<1>8. QED
  BY <1>2, <1>3, <1>6, <1>7

LEMMA PlansAreOrderly ==
  /\ \A m \in AllModes : Orderly(Plan(m))
  /\ StepsOf("edge") = {"config", "inspectTarget", "resolveSource", "countTables", "clone", "warn",
       "rls", "users", "compare", "adminKey", "listFiles", "copyFiles", "fileOutcome", "outcome"}
  /\ StepsOf("postgres") = {"config", "inspectTarget", "resolveSource", "countTables", "clone",
       "warn", "rls", "users", "compare", "outcome"}
  /\ StepsOf("backup") = {"config", "inspectTarget", "fetchBackup", "inspectBackup", "fitCheck",
       "restore", "rowsMatch", "listFiles", "copyFiles", "owners", "ownersPost", "tally", "outcome"}
  /\ StepsOf("backup_only") = {"config", "inspectTarget", "fetchBackup", "inspectBackup", "fitCheck",
       "restore", "rowsMatch", "noHelper", "tally", "outcome"}
  /\ StepsOf("storage") = {"config", "resolveSource", "countTables", "adminKey", "listFiles",
       "copyFiles", "outcome"}
  /\ StepsOf("storage_helper") = {"config", "listFiles", "copyFiles", "owners", "ownersPost", "outcome"}
  /\ StepsOf("db_clone") = {"config", "resolveSource", "clone", "rls", "users", "compare"}
  /\ StepsOf("probe") = {"config", "connectTarget", "outcome"}
  /\ StepsOf("inspect") = {"config", "resolveSource", "connectSource", "outcome"}
<1> DEFINE cloned == EdgeSource \o Cloned
           last == <<"outcome">>
           tallied == <<"tally", "outcome">>
           alone == <<"noHelper", "post", "tally", "outcome">>
           first == <<"config">>
<1>0. /\ 1 \in 1..25 /\ 11 \in 1..25 /\ 16 \in 1..25 /\ 17 \in 1..25 /\ 18 \in 1..25 /\ 19 \in 1..25
      /\ 22 \in 1..25 /\ 24 \in 1..25 /\ 25 \in 1..25
      /\ 1 <= 1 /\ 1 <= 11 /\ 11 < 17 /\ 17 <= 25 /\ 11 < 25 /\ 25 <= 25
      /\ 1 <= 16 /\ 16 < 19 /\ 19 <= 22 /\ 1 <= 22 /\ 22 < 24 /\ 24 <= 25 /\ 16 < 18 /\ 18 <= 25
      /\ 1 < 19 /\ 22 < 25
  OBVIOUS
<1>1. /\ Plan("edge") = cloned \o EdgeFiles
      /\ Plan("postgres") = cloned \o last
      /\ Plan("backup") = (BackupFlow \o HelperFiles) \o tallied
      /\ Plan("backup_only") = BackupFlow \o alone
      /\ Plan("storage") = StorageFlow
      /\ Plan("storage_helper") = (first \o HelperFiles) \o last
      /\ Plan("db_clone") = DirectDbCloneFlow
      /\ Plan("probe") = TargetDbTestFlow
      /\ Plan("inspect") = SourceInspectFlow
  BY DEF Plan, HelperStorageFlow
<1>2. Part(cloned, 1, 11) /\ Part(BackupFlow, 1, 16)
  BY LongerParts
<1>3. /\ Part(last, 25, 25) /\ Part(tallied, 24, 25) /\ Part(alone, 18, 25) /\ Part(first, 1, 1)
  BY Fillers
<1>4. /\ ToSet(last) = {"outcome"} /\ ToSet(tallied) = {"tally", "outcome"} /\ ToSet(first) = {"config"}
      /\ ToSet(alone) = {"noHelper", "post", "tally", "outcome"}
      /\ ToSet(cloned) = {"config", "post", "inspectTarget", "resolveSource", "countTables", "clone",
                          "warn", "rls", "users", "compare"}
  BY Fillers, LongerParts
<1> HIDE DEF cloned, last, tallied, alone, first
<1>5. Part(EdgeFiles, 17, 25) /\ Part(HelperFiles, 19, 22)
  BY Parts
<1>6. Part(cloned \o EdgeFiles, 1, 25) /\ ToSet(cloned \o EdgeFiles) = ToSet(cloned) \cup ToSet(EdgeFiles)
  BY <1>0, <1>2, <1>5, Joined, Zenon
<1>7. Part(cloned \o last, 1, 25) /\ ToSet(cloned \o last) = ToSet(cloned) \cup ToSet(last)
  BY <1>0, <1>2, <1>3, Joined, Zenon
<1>8. /\ Part(BackupFlow \o HelperFiles, 1, 22)
      /\ ToSet(BackupFlow \o HelperFiles) = ToSet(BackupFlow) \cup ToSet(HelperFiles)
  BY <1>0, <1>2, <1>5, Joined, Zenon
<1>9. /\ Part((BackupFlow \o HelperFiles) \o tallied, 1, 25)
      /\ ToSet((BackupFlow \o HelperFiles) \o tallied) = ToSet(BackupFlow \o HelperFiles) \cup ToSet(tallied)
  BY <1>0, <1>3, <1>8, Joined, Zenon
<1>10. Part(BackupFlow \o alone, 1, 25) /\ ToSet(BackupFlow \o alone) = ToSet(BackupFlow) \cup ToSet(alone)
  BY <1>0, <1>2, <1>3, Joined, Zenon
<1>11. Part(first \o HelperFiles, 1, 22) /\ ToSet(first \o HelperFiles) = ToSet(first) \cup ToSet(HelperFiles)
  BY <1>0, <1>3, <1>5, Joined, Zenon
<1>12. /\ Part((first \o HelperFiles) \o last, 1, 25)
       /\ ToSet((first \o HelperFiles) \o last) = ToSet(first \o HelperFiles) \cup ToSet(last)
  BY <1>0, <1>3, <1>11, Joined, Zenon
<1>13. \A m \in AllModes : Orderly(Plan(m))
  <2>1. \A s : \A lo, hi : Part(s, lo, hi) => Orderly(s)
    BY DEF Part, Orderly
  <2>2. /\ Orderly(Plan("edge")) /\ Orderly(Plan("postgres")) /\ Orderly(Plan("backup"))
        /\ Orderly(Plan("backup_only")) /\ Orderly(Plan("storage_helper"))
    BY <1>1, <1>6, <1>7, <1>9, <1>10, <1>12, <2>1, Zenon
  <2>3. /\ Orderly(Plan("storage")) /\ Orderly(Plan("db_clone")) /\ Orderly(Plan("probe"))
        /\ Orderly(Plan("inspect"))
    BY <1>1, <2>1, Parts, Zenon
  <2>4. QED
    BY <2>2, <2>3 DEF AllModes
<1>14. /\ StepsOf("edge") = {"config", "inspectTarget", "resolveSource", "countTables", "clone", "warn",
            "rls", "users", "compare", "adminKey", "listFiles", "copyFiles", "fileOutcome", "outcome"}
       /\ StepsOf("postgres") = {"config", "inspectTarget", "resolveSource", "countTables", "clone",
            "warn", "rls", "users", "compare", "outcome"}
  <2>1. /\ StepsOf("edge") = ToSet(cloned \o EdgeFiles) \ {"post"}
        /\ StepsOf("postgres") = ToSet(cloned \o last) \ {"post"}
    BY <1>1 DEF StepsOf
  <2>2. ToSet(EdgeFiles) = {"adminKey", "post", "listFiles", "copyFiles", "fileOutcome", "outcome"}
    BY Parts
  <2>3. QED
    BY <1>4, <1>6, <1>7, <2>1, <2>2
<1>15. /\ StepsOf("backup") = {"config", "inspectTarget", "fetchBackup", "inspectBackup", "fitCheck",
            "restore", "rowsMatch", "listFiles", "copyFiles", "owners", "ownersPost", "tally", "outcome"}
       /\ StepsOf("backup_only") = {"config", "inspectTarget", "fetchBackup", "inspectBackup",
            "fitCheck", "restore", "rowsMatch", "noHelper", "tally", "outcome"}
  <2>1. /\ StepsOf("backup") = ToSet((BackupFlow \o HelperFiles) \o tallied) \ {"post"}
        /\ StepsOf("backup_only") = ToSet(BackupFlow \o alone) \ {"post"}
    BY <1>1 DEF StepsOf
  <2>2. ToSet(HelperFiles) = {"post", "listFiles", "copyFiles", "owners", "ownersPost"}
    BY Parts
  <2>3. ToSet(BackupFlow) = {"config", "post", "inspectTarget", "fetchBackup", "inspectBackup",
                             "fitCheck", "restore", "rowsMatch"}
    BY LongerParts
  <2>4. QED
    BY <1>4, <1>8, <1>9, <1>10, <2>1, <2>2, <2>3
<1>16. StepsOf("storage_helper") = {"config", "listFiles", "copyFiles", "owners", "ownersPost", "outcome"}
  <2>1. ToSet(HelperFiles) = {"post", "listFiles", "copyFiles", "owners", "ownersPost"}
    BY Parts
  <2>2. StepsOf("storage_helper") = ToSet((first \o HelperFiles) \o last) \ {"post"}
    BY <1>1 DEF StepsOf
  <2>3. QED
    BY <1>4, <1>11, <1>12, <2>1, <2>2
<1>17. /\ StepsOf("storage") = {"config", "resolveSource", "countTables", "adminKey", "listFiles",
            "copyFiles", "outcome"}
       /\ StepsOf("db_clone") = {"config", "resolveSource", "clone", "rls", "users", "compare"}
       /\ StepsOf("probe") = {"config", "connectTarget", "outcome"}
       /\ StepsOf("inspect") = {"config", "resolveSource", "connectSource", "outcome"}
  <2>1. /\ StepsOf("storage") = ToSet(StorageFlow) \ {"post"}
        /\ StepsOf("db_clone") = ToSet(DirectDbCloneFlow) \ {"post"}
        /\ StepsOf("probe") = ToSet(TargetDbTestFlow) \ {"post"}
        /\ StepsOf("inspect") = ToSet(SourceInspectFlow) \ {"post"}
    BY <1>1 DEF StepsOf
  <2>2. QED
    BY <2>1, Parts
<1>18. QED
  BY <1>13, <1>14, <1>15, <1>16, <1>17

\* Which steps come with which others, and in which modes.
LEMMA StepsTogether ==
  ASSUME NEW m \in AllModes
  PROVE  /\ StepsOf(m) \subseteq Names
         /\ "clone" \in StepsOf(m) => m \in {"edge", "postgres", "db_clone"}
         /\ "restore" \in StepsOf(m) => m \in {"backup", "backup_only"}
         /\ m \in DatabaseModes => "clone" \in StepsOf(m) \/ "restore" \in StepsOf(m)
         /\ m \in DatabaseModes \ {"db_clone"} => "inspectTarget" \in StepsOf(m)
         /\ m \in {"backup", "backup_only"} =>
              {"fetchBackup", "fitCheck", "restore", "rowsMatch", "tally"} \subseteq StepsOf(m)
         /\ m \in {"backup", "backup_only"} => "users" \notin StepsOf(m)
         /\ {"fetchBackup", "inspectBackup", "fitCheck", "restore", "rowsMatch", "noHelper", "tally"}
              \cap StepsOf(m) # {} => m \in {"backup", "backup_only"}
         /\ {"owners", "ownersPost", "noHelper", "tally"} \cap StepsOf(m) # {} =>
              m \in {"backup", "backup_only", "storage_helper"}
         /\ m \in {"edge", "storage", "backup", "storage_helper"} => "copyFiles" \in StepsOf(m)
         /\ m = "edge" => "fileOutcome" \in StepsOf(m)
         /\ m = "probe" => "connectTarget" \in StepsOf(m)
         /\ m = "inspect" => "connectSource" \in StepsOf(m)
         /\ m # "db_clone" <=> "outcome" \in StepsOf(m)
<1>1. CASE m \in {"edge", "postgres", "storage"}
  BY <1>1, PlansAreOrderly DEF Names, DatabaseModes
<1>2. CASE m \in {"backup", "backup_only", "storage_helper"}
  BY <1>2, PlansAreOrderly DEF Names, DatabaseModes
<1>3. CASE m \in {"db_clone", "probe", "inspect"}
  BY <1>3, PlansAreOrderly DEF Names, DatabaseModes
<1>4. QED
  BY <1>1, <1>2, <1>3 DEF AllModes

-----------------------------------------------------------------------------
(***************************************************************************)
(* Steps that are taken, and steps that throw.                             *)
(***************************************************************************)

LEMMA NextStep ==
  ASSUME NEW s, Orderly(s), s # <<>>
  PROVE  /\ Orderly(Tail(s))
         /\ ToSet(s) \subseteq Names \cup {"post"} /\ ToSet(s) = {Head(s)} \cup ToSet(Tail(s))
         /\ \A x \in ToSet(Tail(s)) : Head(s) # "post" /\ x # "post" => Rank(Head(s)) < Rank(x)
         /\ Head(s) = "outcome" => Tail(s) = <<>>
         /\ Head(s) = "owners" => Tail(s) # <<>> /\ Head(Tail(s)) = "ownersPost"
<1> DEFINE t == Tail(s)
<1>1. /\ s \in Seq(Names \cup {"post"}) /\ Len(s) \in Nat \ {0} /\ DOMAIN s = 1..Len(s)
      /\ Head(s) = s[1] /\ t \in Seq(Names \cup {"post"}) /\ Len(t) = Len(s) - 1
      /\ DOMAIN t = 1..(Len(s) - 1)
      /\ \A i \in 1..(Len(s) - 1) : t[i] = s[i + 1]
  BY DEF Orderly
<1>2. \A i \in DOMAIN t : i + 1 \in DOMAIN s /\ t[i] = s[i + 1] /\ 1 \in DOMAIN s /\ 1 < i + 1
  BY <1>1
<1>3. (1 \in DOMAIN s) /\ \A i \in DOMAIN s : i = 1 \/ (i - 1 \in DOMAIN t /\ t[i - 1] = s[i])
  BY <1>1
<1> HIDE DEF t
<1>4. Sorted(t)
  <2>1. SUFFICES ASSUME NEW i \in DOMAIN t, NEW j \in DOMAIN t, i < j, t[i] # "post", t[j] # "post"
                 PROVE  Rank(t[i]) < Rank(t[j])
    BY DEF Sorted
  <2>2. i + 1 \in DOMAIN s /\ j + 1 \in DOMAIN s /\ i + 1 < j + 1
    BY <2>1, <1>1, <1>2
  <2>3. QED
    BY <2>1, <2>2, <1>2 DEF Orderly, Sorted
<1>5. OwnersPosted(t)
  <2>1. SUFFICES ASSUME NEW i \in DOMAIN t, t[i] = "owners"
                 PROVE  i + 1 \in DOMAIN t /\ t[i + 1] = "ownersPost"
    BY DEF OwnersPosted
  <2>2. (i + 1) + 1 \in DOMAIN s /\ s[(i + 1) + 1] = "ownersPost"
    BY <2>1, <1>2 DEF Orderly, OwnersPosted
  <2>3. i + 1 \in DOMAIN t
    BY <2>1, <2>2, <1>1
  <2>4. QED
    BY <2>2, <2>3, <1>1
<1>6. OutcomeLast(t)
  <2>1. SUFFICES ASSUME NEW i \in DOMAIN t, t[i] = "outcome" PROVE i = Len(t)
    BY DEF OutcomeLast
  <2>2. i + 1 = Len(s)
    BY <2>1, <1>2 DEF Orderly, OutcomeLast
  <2>3. QED
    BY <2>2, <1>1
<1>7. ToSet(s) \subseteq Names \cup {"post"} /\ ToSet(s) = {Head(s)} \cup ToSet(t)
  BY <1>1, <1>2, <1>3 DEF ToSet
<1>8. \A x \in ToSet(t) : Head(s) # "post" /\ x # "post" => Rank(Head(s)) < Rank(x)
  <2>1. SUFFICES ASSUME NEW i \in DOMAIN t, Head(s) # "post", t[i] # "post"
                 PROVE  Rank(Head(s)) < Rank(t[i])
    BY DEF ToSet
  <2>2. QED
    BY <2>1, <1>1, <1>2 DEF Orderly, Sorted
<1>9. ASSUME Head(s) = "outcome" PROVE t = <<>>
  <2>1. 1 = Len(s)
    BY <1>1, <1>3, <1>9 DEF Orderly, OutcomeLast
  <2>2. QED
    BY <2>1, <1>1
<1>10. ASSUME Head(s) = "owners" PROVE t # <<>> /\ Head(t) = "ownersPost"
  <2>1. 1 + 1 \in DOMAIN s /\ s[1 + 1] = "ownersPost"
    BY <1>1, <1>3, <1>10 DEF Orderly, OwnersPosted
  <2>2. Len(t) # 0 /\ t[1] = "ownersPost"
    BY <2>1, <1>1
  <2>3. QED
    BY <2>2, <1>1
<1>11. QED
  BY <1>1, <1>4, <1>5, <1>6, <1>7, <1>8, <1>9, <1>10 DEF Orderly, t

\* What the plan says of a step that is to be taken.
LEMMA StepFacts ==
  ASSUME OnPlan, todo # <<>>
  PROVE  /\ Step = Head(todo) /\ Step \in Names \cup {"post"} /\ Step \in ToSet(todo)
         /\ problem = 0 /\ report = "none" /\ exit # 0 /\ mode \in AllModes
         /\ Step # "post" => Step \in StepsOf(mode)
         /\ \A a \in passed : a # "post" /\ Step # "post" => Rank(a) < Rank(Step)
         /\ \A x \in StepsOf(mode) \ {"owners", "ownersPost"} :
              Step # "post" /\ Rank(x) < Rank(Step) => x \in passed
<1>1. Step = Head(todo) /\ problem = 0 /\ report = "none" /\ exit # 0 /\ mode \in AllModes
  BY RuntimeConstants DEF Step, OnPlan
<1>2. /\ ToSet(todo) \subseteq Names \cup {"post"} /\ ToSet(todo) = {Step} \cup ToSet(Tail(todo))
      /\ \A x \in ToSet(Tail(todo)) : Step # "post" /\ x # "post" => Rank(Step) < Rank(x)
  BY <1>1, NextStep DEF OnPlan
<1>3. /\ Step # "post" => Step \in StepsOf(mode)
      /\ \A a \in passed : a # "post" /\ Step # "post" => Rank(a) < Rank(Step)
  BY <1>1, <1>2 DEF OnPlan
<1>4. ASSUME NEW x \in StepsOf(mode) \ {"owners", "ownersPost"}, Step # "post", Rank(x) < Rank(Step)
      PROVE  x \in passed
  <2>1. x # "post" /\ x \in Names
    BY <1>1, StepsTogether DEF StepsOf
  <2>2. Rank(x) \in 1..25 /\ Rank(Step) \in 1..25
    BY <1>2, <1>4, <2>1, StepRanks
  <2>3. x \in passed \/ x \in ToSet(todo)
    BY <1>1, <1>4 DEF OnPlan
  <2>4. x # Step
    BY <2>2, <1>4
  <2>5. x \notin ToSet(Tail(todo))
    <3>1. x \in ToSet(Tail(todo)) => Rank(Step) < Rank(x)
      BY <1>2, <1>4, <2>1, Zenon
    <3>2. ~(Rank(Step) < Rank(x))
      BY <1>4, <2>2
    <3>3. QED
      BY <3>1, <3>2
  <2>6. QED
    BY <2>3, <2>4, <2>5, <1>2
<1>5. QED
  BY <1>1, <1>2, <1>3, <1>4

LEMMA StepTaken ==
  ASSUME OnPlan, todo # <<>>, Advance, UNCHANGED <<mode, exit>>
  PROVE  OnPlan' /\ (Step = "outcome" => todo' = <<>>) /\ passed' = passed \cup {Step}
<1> DEFINE rest == Tail(todo)
<1>1. todo' = rest /\ passed' = passed \cup {Step} /\ UNCHANGED <<problem, report>>
  BY DEF Advance
<1>2. /\ Step = Head(todo) /\ Step \in ToSet(todo) /\ problem = 0 /\ report = "none" /\ exit # 0
      /\ \A a \in passed : a # "post" /\ Step # "post" => Rank(a) < Rank(Step)
  BY StepFacts
<1>3. /\ Orderly(rest) /\ ToSet(todo) = {Step} \cup ToSet(rest)
      /\ \A x \in ToSet(rest) : Step # "post" /\ x # "post" => Rank(Step) < Rank(x)
      /\ Step = "outcome" => rest = <<>>
  BY <1>2, NextStep DEF OnPlan
<1> HIDE DEF rest
<1>4. \A a \in passed', b \in ToSet(todo') : a # "post" /\ b # "post" => Rank(a) < Rank(b)
  BY <1>1, <1>3 DEF OnPlan
<1>5. passed' \cup ToSet(todo') = passed \cup ToSet(todo)
  BY <1>1, <1>3
<1>6. QED
  BY <1>1, <1>2, <1>3, <1>4, <1>5 DEF OnPlan

\* An error takes the rest of the plan away.
LEMMA StepThrown ==
  ASSUME OnPlan, todo # <<>>, todo' = <<>>, problem' # 0, report' \in {"due", "made"},
         UNCHANGED <<mode, passed, exit>>
  PROVE  OnPlan'
<1>1. Orderly(<<>>) /\ ToSet(<<>>) = {}
  BY DEF Orderly, Sorted, OwnersPosted, OutcomeLast, ToSet
<1>2. Orderly(todo)' /\ ToSet(todo') = {}
  BY <1>1
<1>3. exit' # 0
  BY StepFacts
<1>4. QED
  BY <1>2, <1>3 DEF OnPlan

\* Once the outcome is on record or passed, no other step is to be taken.
LEMMA BeforeTheOutcome ==
  ASSUME IInv, todo # <<>>, Step # "outcome"
  PROVE  /\ status # "succeeded" /\ "outcome" \notin passed /\ answered = <<>> /\ code # 64
         /\ road # "none" => Step \in {"clone", "restore"} \/ passed \cap {"clone", "restore"} # {}
<1>1. problem = 0
  BY StepFacts DEF IInv
<1>2. QED
  BY <1>1 DEF IInv, SuccessRight, AnsweredRight, RestoreRight

LEMMA EarnedStays ==
  ASSUME Earned, UNCHANGED <<mode, rows, schema, files, missed, skipped, archive>>, passed \subseteq passed'
  PROVE  Earned'
BY DEF Earned, HasBackup

\* The restore is over when a step behind it is to be taken.
LEMMA RestoreIsBehind ==
  ASSUME IInv, todo # <<>>, Step \notin {"clone", "restore"}, road # "none"
  PROVE  RestoreIsOver /\ code = 0 /\ stages = <<>>
<1>1. problem = 0
  BY StepFacts DEF IInv
<1>2. passed \cap {"clone", "restore"} # {}
  BY <1>1 DEF IInv, RestoreRight
<1>3. QED
  BY <1>2 DEF IInv, RestoreRight, RestoreIsOver

\* A run that has passed its steps, and found nothing incomplete, has done its work.
LEMMA WorkIsDone ==
  ASSUME IInv, mode \in AllModes,
         \A x \in StepsOf(mode) \ {"owners", "ownersPost", "outcome"} : x \in passed,
         mode \in {"edge", "storage"} => files # "failed", missed = {}
  PROVE  Earned
<1>1. mode \in DatabaseModes => rows = NumRows /\ schema = "restored" /\ RestoreIsOver /\ code = 0
  <2>1. SUFFICES ASSUME mode \in DatabaseModes
                 PROVE  rows = NumRows /\ schema = "restored" /\ RestoreIsOver /\ code = 0
    OBVIOUS
  <2>2. passed \cap {"clone", "restore"} # {}
    BY <2>1, StepsTogether
  <2>3. RestoreIsOver /\ code = 0
    BY <2>2 DEF IInv, RestoreRight
  <2>4. QED
    BY <2>3, VerdictsFollow DEF IInv, RestoreVerdicts, GoodRestoresAreWhole
<1>2. /\ mode \in {"edge", "storage"} => files \in {"all", "missing"}
      /\ mode \in {"backup", "storage_helper"} => files = "all"
  BY StepsTogether DEF IInv, FilesRight
<1>3. HasBackup => skipped = {} /\ archive = "whole" /\ "rowsMatch" \in passed
  <2>1. SUFFICES ASSUME HasBackup
                 PROVE  skipped = {} /\ archive = "whole" /\ "rowsMatch" \in passed
    OBVIOUS
  <2>2. {"fetchBackup", "restore", "rowsMatch", "tally"} \subseteq passed /\ mode \in DatabaseModes
    BY <2>1, StepsTogether DEF HasBackup, DatabaseModes
  <2>3. skipped = {}
    BY <2>2 DEF IInv, FilesRight
  <2>4. road # "none" /\ ToSet(stages) = {} /\ code = 0
    BY <1>1, <2>2 DEF RestoreIsOver, ToSet
  <2>5. dump = "done" /\ road = "backup"
    <3>1. dump = "done" /\ road \in {"clone", "backup"}
      BY <2>4 DEF IInv, RInv, RestoreTypes, StagesDone, ToCome
    <3>2. road # "clone"
      BY <2>1, StepsTogether DEF IInv, RestoreRight, HasBackup
    <3>3. QED
      BY <3>1, <3>2
  <2>6. archive = "whole"
    BY <2>2, <2>5 DEF IInv, RestoreRight, FilesRight
  <2>7. QED
    BY <2>2, <2>3, <2>6
<1>4. /\ mode = "probe" => "connectTarget" \in passed
      /\ mode = "inspect" => "connectSource" \in passed
  BY StepsTogether
<1>5. QED
  BY <1>1, <1>2, <1>3, <1>4 DEF Earned

\* A run whose outcome is about to be posted as a success has earned it.
LEMMA SuccessIsDue ==
  ASSUME IInv, todo # <<>>, Step = "outcome", Verdict = "succeeded"
  PROVE  Earned /\ (road = "none" \/ stages = <<>>)
<1>1. mode \in AllModes
  BY StepFacts DEF IInv
<1>2. \A x \in StepsOf(mode) \ {"owners", "ownersPost", "outcome"} : x \in passed
  <2>1. \A x \in Names \ {"outcome"} : Rank(x) < Rank("outcome")
    BY StepRanks DEF Names
  <2>2. StepsOf(mode) \subseteq Names
    BY <1>1, StepsTogether
  <2>3. QED
    BY <2>1, <2>2, StepFacts DEF IInv
<1>3. missed = {} /\ (mode \in {"edge", "storage"} => files # "failed")
  <2>1. mode \in {"backup", "backup_only", "storage_helper"} => missed = {}
    BY DEF Verdict
  <2>2. mode = "storage" => files # "failed"
    BY DEF Verdict
  <2>3. mode = "edge" => "fileOutcome" \in passed
    BY <1>1, <1>2, StepsTogether
  <2>4. QED
    BY <2>1, <2>2, <2>3 DEF IInv, FilesRight
<1>4. QED
  BY <1>1, <1>2, <1>3, WorkIsDone, RestoreIsBehind

\* A process that ends well has done its work.
LEMMA CleanExitsAreEarned ==
  ASSUME IInv, exit = 0
  PROVE  Earned /\ todo = <<>> /\ (road = "none" \/ stages = <<>>)
<1>1. problem = 0 /\ todo = <<>> /\ mode \in AllModes
  BY RuntimeConstants DEF IInv, OnPlan
<1>2. \A x \in StepsOf(mode) \ {"owners", "ownersPost"} : x \in passed
  BY <1>1 DEF IInv, OnPlan, ToSet
<1>3. Earned
  <2>1. CASE mode = "db_clone"
    BY <1>1, <1>2, <2>1, WorkIsDone DEF IInv, FilesRight
  <2>2. CASE mode # "db_clone"
    BY <1>1, <1>2, <2>2, StepsTogether DEF IInv, SuccessRight
  <2>3. QED
    BY <2>1, <2>2
<1>4. ASSUME road # "none" PROVE stages = <<>>
  <2>1. passed \cap {"clone", "restore"} # {}
    <3>1. "clone" \in StepsOf(mode) \/ "restore" \in StepsOf(mode)
      BY <1>4 DEF IInv, RestoreRight, RInv, RestoreTypes
    <3>2. QED
      BY <1>2, <3>1
  <2>2. QED
    BY <2>1 DEF IInv, RestoreRight, RestoreIsOver
<1>5. QED
  BY <1>1, <1>3, <1>4

-----------------------------------------------------------------------------
(***************************************************************************)
(* The ways in which a run moves.                                          *)
(***************************************************************************)

LEMMA RestoreStays ==
  ASSUME RInv, UNCHANGED restoreVars
  PROVE  RInv'
BY DEF restoreVars, RInv, RestoreTypes, NotBegun, StagesDone, DataStage, Processed, BlameIsFair,
       RestoreIsOver, ToCome, Stage, StagesSorted

LEMMA CallStays ==
  ASSUME CallRight, UNCHANGED <<restoreVars, call, todo, mode, files, missed, problem, report>>
  PROVE  CallRight'
BY DEF restoreVars, CallRight, Step, Says, Verdict

LEMMA CallIsOpen ==
  ASSUME IInv, call # NoCall
  PROVE  answered = <<>> /\ "outcome" \notin passed
BY DEF IInv, AnsweredRight

\* The plan, the restore and the work stay where they are.
LEMMA StaysInPlace ==
  ASSUME IInv,
         UNCHANGED <<restoreVars, mode, todo, passed, archive, files, problem>>,
         report' \in {report, "made"}, report = "none" => report' = "none",
         exit' = 0 => exit = 0 \/ (problem = 0 /\ todo = <<>>),
         CallRight', AnsweredRight', FilesRight',
         UNCHANGED missed \/ ("outcome" \notin passed /\ status' # "succeeded"),
         status' = "succeeded" =>
           status = "succeeded" \/ (Earned /\ (Step = "outcome" \/ todo = <<>>)
                                    /\ (road = "none" \/ stages = <<>>))
  PROVE  IInv'
<1>1. RInv'
  BY RestoreStays DEF IInv
<1>2. OnPlan'
  BY DEF IInv, OnPlan
<1>3. RestoreRight'
  BY DEF IInv, restoreVars, RestoreRight, RestoreIsOver, HasBackup, Step
<1>4. EarlyErrors'
  BY DEF IInv, restoreVars, EarlyErrors, HasBackup
<1>5. Earned /\ UNCHANGED missed => Earned'
  BY EarnedStays DEF restoreVars
<1>6. SuccessRight'
  BY <1>5 DEF IInv, restoreVars, SuccessRight, Step
<1>7. QED
  BY <1>1, <1>2, <1>3, <1>4, <1>6 DEF IInv

\* No outcome is acknowledged either.
LEMMA StandsStill ==
  ASSUME IInv,
         UNCHANGED <<restoreVars, mode, todo, passed, archive, files, missed, problem, answered>>,
         report' \in {report, "made"}, report = "none" => report' = "none",
         exit' = 0 => exit = 0 \/ (problem = 0 /\ todo = <<>>),
         CallRight', call' # NoCall => answered = <<>> /\ "outcome" \notin passed,
         status' = "succeeded" =>
           status = "succeeded" \/ (Earned /\ (Step = "outcome" \/ todo = <<>>)
                                    /\ (road = "none" \/ stages = <<>>))
  PROVE  IInv'
<1>1. AnsweredRight'
  BY DEF IInv, AnsweredRight
<1>2. FilesRight'
  BY DEF IInv, restoreVars, FilesRight, HasBackup
<1>3. QED
  BY <1>1, <1>2, StaysInPlace

\* An error is thrown.
LEMMA ThrowsKeep ==
  ASSUME IInv, todo # <<>>, todo' = <<>>, problem' # 0, report' \in {"due", "made"}, call' = NoCall,
         UNCHANGED <<mode, passed, exit, archive, missed, road, rows, schema, skipped, dump>>,
         RInv', FilesRight',
         UNCHANGED <<stages, code>> \/ (stages # <<>> /\ stages' = <<>> /\ (code' = 64 => road = "backup")),
         problem' \in {65, 70, 71} \/ (problem' = 72 /\ HasBackup) => road = "none" /\ files' = "none",
         answered' = answered \/ (answered' = <<"failed">> /\ report' = "made"),
         status' = "succeeded" =>
           (status = "succeeded" /\ files' = files)
           \/ (Earned /\ files' = files /\ (road = "none" \/ stages = <<>>)),
         "outcome" \notin passed
  PROVE  IInv'
<1>1. OnPlan'
  BY StepThrown DEF IInv
<1>2. CallRight'
  BY DEF CallRight, NoCall
<1>3. problem = 0 /\ code # 64 /\ report = "none"
  BY StepFacts DEF IInv, RestoreRight
<1>4. AnsweredRight'
  BY <1>3 DEF IInv, AnsweredRight
<1>5. RestoreRight'
  <2>1. UNCHANGED <<stages, code>> \/ passed \cap {"clone", "restore"} = {}
    BY DEF IInv, RestoreRight, RestoreIsOver
  <2>2. passed' \cap {"clone", "restore"} # {} => RestoreIsOver' /\ code' = 0
    BY <2>1 DEF IInv, RestoreRight, RestoreIsOver
  <2>3. code' = 64 => todo' = <<>> /\ road' = "backup"
    BY <1>3
  <2>4. QED
    BY <2>2, <2>3 DEF IInv, RestoreRight, HasBackup, Step
<1>6. EarlyErrors'
  BY DEF IInv, RInv, NotBegun, EarlyErrors, HasBackup
<1>7. SuccessRight'
  <2>1. ASSUME status' = "succeeded"
        PROVE  Earned' /\ todo' = <<>> /\ (road' = "none" \/ stages' = <<>>)
    <3>1. Earned /\ files' = files /\ (road = "none" \/ stages = <<>>)
      BY <2>1 DEF IInv, SuccessRight
    <3>2. Earned'
      BY <3>1, EarnedStays
    <3>3. QED
      BY <3>1, <3>2
  <2>2. QED
    BY <2>1 DEF SuccessRight
<1>8. QED
  BY <1>1, <1>2, <1>4, <1>5, <1>6, <1>7 DEF IInv

\* A step is taken.
LEMMA StepsKeep ==
  ASSUME IInv, todo # <<>>, Advance, call' = NoCall,
         UNCHANGED <<restoreVars, mode, exit>>,
         Step \in {"clone", "restore"} => RestoreIsOver /\ code = 0,
         FilesRight', "fetchBackup" \in passed' => archive' # "none",
         road = "backup" /\ dump = "done" => archive' # "cut",
         answered' = (IF Step = "outcome" THEN <<"succeeded">> ELSE answered),
         Step = "outcome" => Earned /\ UNCHANGED <<files, missed, archive>>,
         status' = "succeeded" => status = "succeeded" \/ Step = "outcome"
  PROVE  IInv'
<1>1. OnPlan' /\ (Step = "outcome" => todo' = <<>>) /\ passed' = passed \cup {Step}
  BY StepTaken DEF IInv
<1>2. /\ problem = 0 /\ code # 64 /\ report = "none" /\ UNCHANGED <<problem, report>>
      /\ "outcome" \notin passed /\ mode \in AllModes
  <2>1. problem = 0 /\ code # 64 /\ report = "none" /\ mode \in AllModes
    BY StepFacts DEF IInv, RestoreRight
  <2>2. QED
    BY <2>1 DEF IInv, AnsweredRight, Advance
<1>3. RInv'
  BY RestoreStays DEF IInv
<1>4. CallRight'
  BY DEF CallRight, NoCall
<1>5. AnsweredRight'
  <2>1. answered = <<>>
    BY <1>2 DEF IInv, AnsweredRight
  <2>2. QED
    BY <1>1, <1>2, <2>1 DEF AnsweredRight
<1>6. RestoreRight'
  <2>1. RestoreIsOver' = RestoreIsOver /\ code' = code /\ road' = road /\ dump' = dump
    BY DEF restoreVars, RestoreIsOver
  <2>2. road # "none" =>
          /\ passed' \cap {"clone", "restore"} # {}
          /\ mode # "db_clone" => "inspectTarget" \in passed
          /\ HasBackup => {"fetchBackup", "fitCheck"} \subseteq passed
    BY <1>1, <1>2 DEF IInv, RestoreRight
  <2>3. passed' \cap {"clone", "restore"} # {} => RestoreIsOver /\ code = 0
    BY <1>1 DEF IInv, RestoreRight
  <2>4. QED
    BY <1>1, <1>2, <2>1, <2>2, <2>3 DEF IInv, RestoreRight, HasBackup
<1>7. EarlyErrors'
  BY <1>2 DEF EarlyErrors
<1>8. SuccessRight'
  <2>1. CASE Step = "outcome"
    <3>1. Earned'
      BY <1>1, <2>1, EarnedStays DEF restoreVars
    <3>2. road' = "none" \/ stages' = <<>>
      BY <2>1, RestoreIsBehind DEF restoreVars
    <3>3. QED
      BY <1>1, <2>1, <3>1, <3>2 DEF SuccessRight
  <2>2. CASE Step # "outcome"
    <3>1. status' # "succeeded" /\ "outcome" \notin passed'
      BY <1>1, <1>2, <2>2, BeforeTheOutcome
    <3>2. QED
      BY <3>1 DEF SuccessRight
  <2>3. QED
    BY <2>1, <2>2
<1>9. QED
  BY <1>1, <1>3, <1>4, <1>5, <1>6, <1>7, <1>8 DEF IInv

-----------------------------------------------------------------------------
(***************************************************************************)
(* The steps of main.                                                      *)
(***************************************************************************)

Early == {"config", "resolveSource", "fetchBackup", "inspectBackup", "fitCheck"}

\* Nothing has been written when an early step is to be taken.
LEMMA EarlySteps ==
  ASSUME IInv, todo # <<>>, Step \in Early
  PROVE  road = "none" /\ files = "none"
<1>1. /\ problem = 0 /\ mode \in AllModes /\ Step \in StepsOf(mode) /\ Step # "post"
      /\ \A a \in passed : a # "post" => Rank(a) < Rank(Step)
      /\ passed \subseteq StepsOf(mode) \cup {"post"}
  BY StepFacts DEF IInv, OnPlan, Early
<1>2. "restore" \notin passed /\ "copyFiles" \notin passed
  BY <1>1, StepRanks DEF Early
<1>3. "clone" \notin passed
  <2>1. CASE Step \in {"config", "resolveSource"}
    BY <1>1, <2>1, StepRanks
  <2>2. CASE Step \in {"fetchBackup", "inspectBackup", "fitCheck"}
    BY <1>1, <2>2, StepsTogether
  <2>3. QED
    BY <2>1, <2>2 DEF Early
<1>4. QED
  BY <1>1, <1>2, <1>3, BeforeTheOutcome DEF IInv, FilesRight, Early

LEMMA DoesKeeps ==
  ASSUME IInv, NEW step \in Names \ {"clone", "restore", "fetchBackup", "copyFiles", "fileOutcome",
                                     "tally", "outcome"},
         NEW codes, 0 \notin codes, Does(step, codes),
         codes \cap {65, 70, 71} # {} => step \in Early,
         72 \in codes /\ HasBackup => step \in Early
  PROVE  IInv'
<1>1. /\ Step = step /\ todo # <<>> /\ call' = NoCall
      /\ UNCHANGED <<restoreVars, mode, exit, status, answered, archive, files, missed>>
  <2>1. todo = <<>> => Step = "none"
    BY DEF Step
  <2>2. "none" \notin Names
    BY DEF Names
  <2>3. QED
    BY <2>1, <2>2 DEF Does, Doing, Aside
<1>2. problem = 0
  BY <1>1, StepFacts DEF IInv
<1>3. CASE Advance
  <2>1. passed' = passed \cup {Step} /\ problem' = problem
    BY <1>3 DEF Advance
  <2>2. FilesRight'
    BY <1>1, <2>1 DEF IInv, FilesRight, restoreVars, HasBackup
  <2>3. "fetchBackup" \in passed' => archive' # "none"
    BY <1>1, <2>1 DEF IInv, RestoreRight
  <2>4. road = "backup" /\ dump = "done" => archive' # "cut"
    BY <1>1 DEF IInv, RestoreRight
  <2>5. QED
    BY <1>1, <1>3, <2>2, <2>3, <2>4, StepsKeep
<1>4. CASE \E c \in codes : Throw(c)
  <2>1. PICK c \in codes : Throw(c)
    BY <1>4
  <2>2. /\ problem' = c /\ problem' # 0 /\ report' \in {"due", "made"} /\ todo' = <<>>
        /\ passed' = passed
    BY <2>1 DEF Throw
  <2>3. FilesRight'
    BY <1>1, <2>2 DEF IInv, FilesRight, restoreVars, HasBackup
  <2>4. RInv'
    BY <1>1, RestoreStays DEF IInv
  <2>5. problem' \in {65, 70, 71} \/ (problem' = 72 /\ HasBackup) => road = "none" /\ files' = "none"
    BY <1>1, <2>2, EarlySteps
  <2>6. "outcome" \notin passed /\ status' # "succeeded"
    BY <1>1, BeforeTheOutcome
  <2>7. UNCHANGED <<stages, code, road, rows, schema, skipped, dump>>
    BY <1>1 DEF restoreVars
  <2>8. QED
    BY <1>1, <2>2, <2>3, <2>4, <2>5, <2>6, <2>7, ThrowsKeep
<1>5. QED
  BY <1>3, <1>4 DEF Does

LEMMA ReadKeeps ==
  ASSUME IInv, Read
  PROVE  IInv'
<1>1. CASE ReadConfig
  BY <1>1, DoesKeeps DEF ReadConfig, Names, Early
<1>2. CASE AssertTargetDbConnection
  BY <1>2, DoesKeeps DEF AssertTargetDbConnection, Names, Early
<1>3. CASE InspectTargetDb
  BY <1>3, DoesKeeps DEF InspectTargetDb, Names, Early
<1>4. CASE ResolveSource
  BY <1>4, DoesKeeps DEF ResolveSource, Names, Early
<1>5. CASE ConnectSource
  BY <1>5, DoesKeeps DEF ConnectSource, Names, Early
<1>6. CASE InspectSourceCloneTableCount
  BY <1>6, DoesKeeps DEF InspectSourceCloneTableCount, Names, Early
<1>7. CASE RequireAdminKey
  BY <1>7, DoesKeeps DEF RequireAdminKey, Names, Early
<1>8. CASE ListSourceObjects
  BY <1>8, DoesKeeps DEF ListSourceObjects, Names, Early
<1>9. CASE InspectBackup
  BY <1>9, DoesKeeps DEF InspectBackup, Names, Early
<1>10. CASE CheckManagedDataFits
  BY <1>10, DoesKeeps DEF CheckManagedDataFits, Names, Early
<1>11. CASE CompareRestoredRows
  BY <1>11, DoesKeeps DEF CompareRestoredRows, Names, Early
<1>12. CASE EnableRls
  BY <1>12, DoesKeeps DEF EnableRls, Names, Early
<1>13. CASE RunAuthUserMigration
  <2>1. Step = "users" /\ todo # <<>>
    BY <1>13 DEF RunAuthUserMigration, Does, Doing, Step
  <2>2. "users" \in StepsOf(mode) /\ mode \in AllModes
    BY <2>1, StepFacts DEF IInv
  <2>3. ~HasBackup
    BY <2>2, StepsTogether DEF HasBackup
  <2>4. QED
    BY <1>13, <2>3, DoesKeeps DEF RunAuthUserMigration, Names, Early
<1>14. CASE VerifyRestoredRowCounts
  BY <1>14, DoesKeeps DEF VerifyRestoredRowCounts, Names, Early
<1>15. QED
  BY <1>1, <1>2, <1>3, <1>4, <1>5, <1>6, <1>7, <1>8, <1>9, <1>10, <1>11, <1>12, <1>13, <1>14 DEF Read

LEMMA FetchKeeps ==
  ASSUME IInv, Fetch
  PROVE  IInv'
<1>1. /\ Step = "fetchBackup" /\ todo # <<>> /\ call' = NoCall /\ call = NoCall
      /\ UNCHANGED <<restoreVars, mode, exit, status, answered, files, missed>>
  BY DEF Fetch, Doing, Aside, Step
<1>2. problem = 0 /\ road = "none" /\ files = "none"
  BY <1>1, StepFacts, EarlySteps DEF IInv, Early
<1>3. "outcome" \notin passed /\ status' # "succeeded"
  BY <1>1, BeforeTheOutcome
<1>4. CASE Advance /\ archive' \in {"whole", "cut"}
  <2>1. passed' = passed \cup {Step} /\ problem' = problem
    BY <1>4 DEF Advance
  <2>2. FilesRight'
    BY <1>1, <1>4, <2>1 DEF IInv, FilesRight, restoreVars, HasBackup
  <2>3. QED
    BY <1>1, <1>2, <1>3, <1>4, <2>2, StepsKeep
<1>5. CASE Throw(70) /\ UNCHANGED archive
  <2>1. problem' = 70 /\ report' \in {"due", "made"} /\ todo' = <<>> /\ passed' = passed
    BY <1>5 DEF Throw
  <2>2. FilesRight'
    BY <1>1, <1>5, <2>1 DEF IInv, FilesRight, restoreVars, HasBackup
  <2>3. RInv'
    BY <1>1, RestoreStays DEF IInv
  <2>4. UNCHANGED <<stages, code, road, rows, schema, skipped, dump>>
    BY <1>1 DEF restoreVars
  <2>5. QED
    BY <1>1, <1>2, <1>3, <1>5, <2>1, <2>2, <2>3, <2>4, ThrowsKeep
<1>6. CASE UNCHANGED <<todo, passed, problem, report, archive>>
  <2>1. CallRight'
    BY <1>1 DEF CallRight, NoCall
  <2>2. QED
    BY <1>1, <1>3, <1>6, <2>1, StandsStill
<1>7. QED
  BY <1>4, <1>5, <1>6 DEF Fetch

LEMMA CopyFilesKeeps ==
  ASSUME IInv, CopyFiles
  PROVE  IInv'
<1>1. /\ Step = "copyFiles" /\ todo # <<>> /\ call' = NoCall
      /\ UNCHANGED <<restoreVars, mode, exit, status, answered, archive>>
  BY DEF CopyFiles, Doing, Aside, Step
<1>2. /\ problem = 0 /\ mode \in AllModes /\ "fileOutcome" \notin passed /\ "tally" \notin passed
      /\ "copyFiles" \notin passed /\ (HasBackup => "restore" \in passed)
  <2>1. problem = 0 /\ mode \in AllModes
    BY <1>1, StepFacts DEF IInv
  <2>2. \A a \in passed : a # "post" => Rank(a) < 20
    BY <1>1, StepFacts, StepRanks DEF IInv
  <2>3. HasBackup => "restore" \in StepsOf(mode)
    BY <2>1, StepsTogether DEF HasBackup
  <2>4. HasBackup => "restore" \in passed
    BY <1>1, <2>3, StepFacts, StepRanks DEF IInv
  <2>5. QED
    BY <2>1, <2>2, <2>4, StepRanks
<1>3. "outcome" \notin passed /\ status' # "succeeded"
  BY <1>1, BeforeTheOutcome
<1>4. CASE Throw(63) /\ files' = "some" /\ UNCHANGED missed
  <2>1. problem' = 63 /\ report' \in {"due", "made"} /\ todo' = <<>> /\ passed' = passed
    BY <1>4 DEF Throw
  <2>2. FilesRight'
    BY <1>1, <1>2, <1>4, <2>1 DEF IInv, FilesRight, restoreVars, HasBackup
  <2>3. RInv'
    BY <1>1, RestoreStays DEF IInv
  <2>4. UNCHANGED <<stages, code, road, rows, schema, skipped, dump>>
    BY <1>1 DEF restoreVars
  <2>5. QED
    BY <1>1, <1>3, <1>4, <2>1, <2>2, <2>3, <2>4, ThrowsKeep
<1>5. CASE /\ Advance
           /\ files' \in {"all", "failed", "missing"}
           /\ missed' = missed \cup (IF mode \in {"backup", "storage_helper"} /\ files' # "all"
                                     THEN {"files"} ELSE {})
  <2>1. passed' = passed \cup {Step} /\ problem' = problem
    BY <1>5 DEF Advance
  <2>2. FilesRight'
    BY <1>1, <1>2, <1>5, <2>1 DEF IInv, FilesRight, restoreVars, HasBackup
  <2>3. "fetchBackup" \in passed' => archive' # "none"
    BY <1>1, <2>1 DEF IInv, RestoreRight
  <2>4. road = "backup" /\ dump = "done" => archive' # "cut"
    BY <1>1 DEF IInv, RestoreRight
  <2>5. QED
    BY <1>1, <1>3, <1>5, <2>2, <2>3, <2>4, StepsKeep
<1>6. QED
  BY <1>4, <1>5 DEF CopyFiles

\* A step that can only find the run incomplete.
LEMMA CountsKeep ==
  ASSUME IInv, todo # <<>>, Step \in {"owners", "noHelper", "tally"}, Advance,
         UNCHANGED <<Aside, archive, tries, files>>, call = NoCall,
         missed \subseteq missed', Step = "tally" /\ missed' = {} => skipped = {}
  PROVE  IInv'
<1>1. /\ call' = NoCall /\ UNCHANGED <<restoreVars, mode, exit, status, answered, archive, files>>
  BY DEF Aside
<1>2. problem = 0 /\ mode \in {"backup", "backup_only", "storage_helper"}
  BY StepFacts, StepsTogether DEF IInv
<1>3. "outcome" \notin passed /\ status' # "succeeded"
  BY <1>1, BeforeTheOutcome
<1>4. passed' = passed \cup {Step} /\ problem' = problem
  BY DEF Advance
<1>5. FilesRight'
  BY <1>1, <1>2, <1>4 DEF IInv, FilesRight, restoreVars, HasBackup
<1>6. "fetchBackup" \in passed' => archive' # "none"
  BY <1>1, <1>4 DEF IInv, RestoreRight
<1>7. road = "backup" /\ dump = "done" => archive' # "cut"
  BY <1>1 DEF IInv, RestoreRight
<1>8. QED
  BY <1>1, <1>3, <1>5, <1>6, <1>7, StepsKeep

LEMMA NoHelperKeeps ==
  ASSUME IInv, NoHelper
  PROVE  IInv'
BY CountsKeep DEF NoHelper, Doing, Step

LEMMA TallyKeeps ==
  ASSUME IInv, Tally
  PROVE  IInv'
<1>1. /\ Step = "tally" /\ todo # <<>> /\ Advance /\ call = NoCall
      /\ UNCHANGED <<Aside, archive, tries, files>>
      /\ missed \subseteq missed' /\ NotRestored \subseteq missed'
  BY DEF Tally, Doing, Step
<1>2. missed' = {} => skipped = {}
  BY <1>1 DEF NotRestored
<1>3. QED
  BY <1>1, <1>2, CountsKeep

\* Owners are not restored where nothing was copied or nothing tells them, nor posted.
LEMMA OwnersKeep ==
  ASSUME IInv, Owners
  PROVE  IInv'
<1>1. /\ Step = "owners" /\ todo # <<>> /\ call' = NoCall /\ call = NoCall
      /\ UNCHANGED <<Aside, archive, tries, files>>
  BY DEF Owners, Doing, Aside, Step
<1>2. CASE Advance /\ missed' \in {missed, missed \cup {"owners"}}
  BY <1>1, <1>2, CountsKeep
<1>3. CASE /\ todo' = Tail(Tail(todo)) /\ UNCHANGED <<passed, problem, report>>
           /\ missed \subseteq missed' /\ (missed' = missed \/ mode = "storage_helper")
  <2> DEFINE rest == Tail(Tail(todo))
  <2>1. UNCHANGED <<restoreVars, mode, exit, status, answered, files, archive>>
    BY <1>1 DEF Aside
  <2>2. problem = 0 /\ exit # 0 /\ Step = Head(todo) /\ report = "none"
    BY <1>1, StepFacts DEF IInv
  <2>3. /\ Orderly(Tail(todo)) /\ ToSet(todo) = {"owners"} \cup ToSet(Tail(todo))
        /\ Tail(todo) # <<>> /\ Head(Tail(todo)) = "ownersPost"
    BY <1>1, <2>2, NextStep DEF IInv, OnPlan
  <2>4. Orderly(rest) /\ ToSet(Tail(todo)) = {"ownersPost"} \cup ToSet(rest)
    BY <2>3, NextStep
  <2> HIDE DEF rest
  <2>5. todo' = rest
    BY <1>3 DEF rest
  <2>6. OnPlan'
    <3>1. ToSet(todo) = {"owners", "ownersPost"} \cup ToSet(rest)
      BY <2>3, <2>4
    <3>2. UNCHANGED <<passed, problem, report, mode, exit>>
      BY <1>3, <2>1
    <3>3. QED
      BY <2>2, <2>4, <2>5, <3>1, <3>2 DEF IInv, OnPlan
  <2>7. /\ "outcome" \notin passed /\ status # "succeeded" /\ answered = <<>> /\ code # 64
        /\ road # "none" => passed \cap {"clone", "restore"} # {}
    BY <1>1, BeforeTheOutcome
  <2>8. RInv'
    BY <2>1, RestoreStays DEF IInv
  <2>9. CallRight' /\ AnsweredRight'
    BY <1>1, <1>3, <2>1, <2>7 DEF CallRight, AnsweredRight, NoCall
  <2>10. RestoreRight'
    BY <1>3, <2>1, <2>7 DEF IInv, restoreVars, RestoreRight, RestoreIsOver, HasBackup
  <2>11. FilesRight'
    BY <1>3, <2>1 DEF IInv, restoreVars, FilesRight, HasBackup
  <2>12. EarlyErrors' /\ SuccessRight'
    BY <1>3, <2>1, <2>2, <2>7 DEF EarlyErrors, SuccessRight
  <2>13. QED
    BY <2>6, <2>8, <2>9, <2>10, <2>11, <2>12 DEF IInv
<1>4. \/ Advance /\ missed' \in {missed, missed \cup {"owners"}}
      \/ /\ todo' = Tail(Tail(todo)) /\ UNCHANGED <<passed, problem, report>>
         /\ missed' = missed \/ (mode = "storage_helper" /\ missed' = missed \cup {"owners"})
  BY DEF Owners
<1>5. QED
  BY <1>2, <1>3, <1>4

-----------------------------------------------------------------------------
(***************************************************************************)
(* Callbacks.                                                              *)
(***************************************************************************)

\* A step that posts is a step to be taken.
LEMMA PostingSteps ==
  ASSUME IInv, Step \in Posting \cup {"restore"}
  PROVE  /\ todo # <<>> /\ problem = 0 /\ report = "none" /\ code # 64
         /\ "outcome" \notin passed /\ answered = <<>>
<1>1. todo # <<>>
  BY DEF Step, Posting
<1>2. problem = 0 /\ report = "none"
  BY <1>1, StepFacts DEF IInv
<1>3. QED
  BY <1>1, <1>2 DEF IInv, AnsweredRight, RestoreRight

LEMMA PostKeeps ==
  ASSUME IInv, Post
  PROVE  IInv'
<1>1. /\ Step \in Posting /\ call' = [says |-> Says(Step), try |-> 1]
      /\ UNCHANGED <<restoreVars, mode, files, archive, exit, todo, passed, missed, problem, report,
                     status, answered>>
  BY DEF Post, Waiting, Work
<1>2. /\ problem = 0 /\ report = "none" /\ "outcome" \notin passed /\ answered = <<>>
  BY <1>1, PostingSteps
<1>3. Says(Step) \in {"none", "running"} \cup Outcomes
  BY DEF Says, Verdict, Outcomes
<1>4. call'.says = Says(Step)' /\ Step' = Step
  BY <1>1 DEF Says, Verdict, Step
<1>5. CallRight'
  BY <1>1, <1>2, <1>3, <1>4 DEF CallRight
<1>6. QED
  BY <1>1, <1>2, <1>5, StandsStill

LEMMA ReportFailureKeeps ==
  ASSUME IInv, ReportFailure
  PROVE  IInv'
<1>1. /\ call' = [says |-> "failed", try |-> 1] /\ report = "due" /\ report' = "made"
      /\ UNCHANGED <<restoreVars, mode, files, archive, exit, todo, passed, missed, problem,
                     status, answered>>
  BY DEF ReportFailure, Waiting, Work
<1>2. problem # 0 /\ "outcome" \notin passed /\ answered = <<>>
  BY <1>1 DEF IInv, OnPlan, AnsweredRight
<1>3. CallRight'
  BY <1>1, <1>2 DEF CallRight, Outcomes
<1>4. QED
  BY <1>1, <1>2, <1>3, StandsStill

\* What an arrived attempt leaves on record is earned if it is a success.
LEMMA ArrivalIsEarned ==
  ASSUME IInv, call # NoCall, NEW arrives \in BOOLEAN,
         status' = IF arrives THEN call.says ELSE status, status' = "succeeded"
  PROVE  status = "succeeded" \/ (Earned /\ Step = "outcome" /\ (road = "none" \/ stages = <<>>))
<1>1. CASE status' = status
  BY <1>1
<1>2. CASE call.says = "succeeded"
  <2>1. Step \in Posting /\ Says(Step) = "succeeded"
    BY <1>2 DEF IInv, CallRight
  <2>2. Step = "outcome" /\ Verdict = "succeeded" /\ todo # <<>>
    BY <2>1, PostingSteps DEF Says
  <2>3. QED
    BY <2>2, SuccessIsDue
<1>3. QED
  BY <1>1, <1>2

\* The answer to a callback came.
LEMMA AnsweredKeeps ==
  ASSUME IInv, call # NoCall, Answered, call' = NoCall, status' = call.says,
         answered' = (IF call.says \in Outcomes THEN Append(answered, call.says) ELSE answered),
         UNCHANGED <<restoreVars, missed, mode, archive, files, exit>>
  PROVE  IInv'
<1>1. answered = <<>> /\ "outcome" \notin passed
  BY CallIsOpen
<1>2. status' = "succeeded" =>
        status = "succeeded" \/ (Earned /\ Step = "outcome" /\ (road = "none" \/ stages = <<>>))
  BY ArrivalIsEarned
<1>3. CallRight'
  BY DEF CallRight, NoCall
<1>4. /\ call.says = "failed" => answered' = <<"failed">>
      /\ call.says = "succeeded" => answered' = <<"succeeded">>
      /\ call.says = "running" => answered' = <<>>
  BY <1>1 DEF Outcomes
<1>5. FilesRight => \/ FilesRight'
                    \/ passed' # passed \/ problem' # problem
  BY DEF restoreVars, FilesRight, HasBackup
<1>6. CASE problem # 0
  <2>1. UNCHANGED <<todo, passed, problem, report>> /\ call.says = "failed" /\ report = "made"
    BY <1>6 DEF Answered, IInv, OnPlan, CallRight, Step, Posting
  <2>2. AnsweredRight'
    BY <1>1, <1>4, <1>6, <2>1 DEF AnsweredRight
  <2>3. FilesRight'
    BY <1>5, <2>1 DEF IInv
  <2>4. QED
    BY <1>2, <1>3, <2>1, <2>2, <2>3, StaysInPlace
<1>7. CASE problem = 0 /\ call.says = "failed"
  <2>1. Step \in Posting /\ todo # <<>> /\ ThrowReported(63)
    <3>1. Step \in Posting /\ Step # "restore"
      BY <1>7 DEF IInv, CallRight, Posting
    <3>2. ThrowReported(63)
      BY <1>7, <3>1 DEF Answered
    <3>3. QED
      BY <3>1, <3>2, PostingSteps
  <2>2. problem' = 63 /\ report' = "made" /\ todo' = <<>> /\ passed' = passed
    BY <2>1 DEF ThrowReported
  <2>3. FilesRight'
    BY <1>7, <2>2 DEF IInv, FilesRight, restoreVars, HasBackup
  <2>4. RInv'
    BY RestoreStays DEF IInv
  <2>5. UNCHANGED <<stages, code, road, rows, schema, skipped, dump>>
    BY DEF restoreVars
  <2>6. QED
    BY <1>1, <1>4, <1>7, <2>1, <2>2, <2>3, <2>4, <2>5, ThrowsKeep
<1>8. CASE problem = 0 /\ call.says # "failed" /\ Step = "restore"
  <2>1. UNCHANGED <<todo, passed, problem, report>> /\ call.says = "running"
    BY <1>8 DEF Answered, IInv, CallRight, Posting
  <2>2. answered' = answered
    BY <1>1, <1>4, <2>1
  <2>3. QED
    BY <1>2, <1>3, <2>1, <2>2, StandsStill
<1>9. CASE problem = 0 /\ call.says # "failed" /\ Step # "restore"
  <2>1. Step \in Posting /\ todo # <<>> /\ Advance /\ call.says = Says(Step)
    BY <1>9, PostingSteps DEF Answered, IInv, CallRight
  <2>2. passed' = passed \cup {Step} /\ problem' = problem
    BY <2>1 DEF Advance
  <2>3. Step = "fileOutcome" => files # "failed"
    BY <1>9, <2>1 DEF Says
  <2>4. FilesRight'
    BY <2>1, <2>2, <2>3 DEF IInv, FilesRight, restoreVars, HasBackup, Posting
  <2>5. IF Step = "outcome" THEN call.says = "succeeded" /\ Verdict = "succeeded"
                            ELSE call.says = "running"
    BY <1>9, <2>1 DEF Says, Verdict
  <2>6. answered' = (IF Step = "outcome" THEN <<"succeeded">> ELSE answered)
    BY <1>1, <1>4, <2>5
  <2>7. Step = "outcome" => Earned
    BY <2>1, <2>5, SuccessIsDue
  <2>8. /\ "fetchBackup" \in passed' => archive' # "none"
        /\ road = "backup" /\ dump = "done" => archive' # "cut"
    BY <2>1, <2>2 DEF IInv, RestoreRight, Posting
  <2>9. Step \notin {"clone", "restore"} /\ (status' = "succeeded" => Step = "outcome")
    BY <2>1, <2>5 DEF Posting
  <2>10. QED
    BY <2>1, <2>4, <2>6, <2>7, <2>8, <2>9, StepsKeep
<1>10. QED
  BY <1>6, <1>7, <1>8, <1>9

\* The last attempt failed.
LEMMA GiveUpKeeps ==
  ASSUME IInv, call # NoCall, GiveUp, call' = NoCall, NEW arrives \in BOOLEAN,
         status' = IF arrives THEN call.says ELSE status,
         UNCHANGED <<answered, mode, archive, files, exit>>
  PROVE  IInv'
<1>1. answered = <<>> /\ "outcome" \notin passed /\ CallRight'
  BY CallIsOpen DEF CallRight, NoCall
<1>2. status' = "succeeded" =>
        status = "succeeded" \/ (Earned /\ Step = "outcome" /\ (road = "none" \/ stages = <<>>))
  BY ArrivalIsEarned
<1>3. CASE problem # 0
  <2>1. Step = "none"
    BY <1>3 DEF IInv, OnPlan, Step
  <2>2. UNCHANGED <<todo, passed, problem, report, missed, restoreVars>>
    BY <1>3, <2>1 DEF GiveUp
  <2>3. QED
    BY <1>1, <1>2, <2>2, StandsStill
<1>4. CASE problem = 0
  <2>1. /\ Step \in Posting \cup {"restore"} /\ todo # <<>>
        /\ Step = "restore" => road = "backup" /\ stages # <<>>
    BY <1>4, PostingSteps DEF IInv, CallRight, Posting
  <2>2. Step # "outcome" => status # "succeeded" /\ status' # "succeeded"
    BY <1>2, <2>1, BeforeTheOutcome
  <2>3. CASE Step \in {"warn", "ownersPost"} /\ Advance /\ UNCHANGED <<missed, restoreVars>>
    <3>1. passed' = passed \cup {Step} /\ problem' = problem
      BY <2>3 DEF Advance
    <3>2. FilesRight'
      BY <2>3, <3>1 DEF IInv, FilesRight, restoreVars, HasBackup
    <3>3. /\ "fetchBackup" \in passed' => archive' # "none"
          /\ road = "backup" /\ dump = "done" => archive' # "cut"
      BY <2>3, <3>1 DEF IInv, RestoreRight
    <3>4. QED
      BY <2>1, <2>2, <2>3, <3>2, <3>3, StepsKeep
  <2>4. CASE /\ Step = "ownersPost" /\ missed' = missed \cup {"owners"}
             /\ UNCHANGED <<todo, passed, problem, report, restoreVars>>
    <3>1. mode \in {"backup", "backup_only", "storage_helper"}
      BY <2>1, <2>4, StepFacts, StepsTogether DEF IInv
    <3>2. FilesRight'
      BY <2>4, <3>1 DEF IInv, FilesRight, restoreVars, HasBackup
    <3>3. AnsweredRight'
      BY <1>1, <2>4 DEF AnsweredRight
    <3>4. QED
      BY <1>1, <2>2, <2>4, <3>2, <3>3, StaysInPlace
  <2>5. CASE Throw(64) /\ UNCHANGED missed
    <3>1. problem' = 64 /\ report' \in {"due", "made"} /\ todo' = <<>> /\ passed' = passed
      BY <2>5 DEF Throw
    <3>2. /\ UNCHANGED <<road, rows, schema, skipped, dump>>
          /\ UNCHANGED <<stages, code>> \/ (stages # <<>> /\ stages' = <<>> /\ code' = 64 /\ road = "backup")
          /\ RInv'
      <4>1. CASE Step = "restore"
        <5>1. Fail(64) /\ UNCHANGED <<road, entries, skipped, dump, noise, load, sent, rows, schema>>
          BY <4>1 DEF GiveUp
        <5>2. RInv'
          BY <2>1, <4>1, <5>1, RestoreIsCutOff DEF IInv
        <5>3. QED
          BY <2>1, <4>1, <5>1, <5>2 DEF Fail
      <4>2. CASE Step # "restore"
        <5>1. UNCHANGED restoreVars
          BY <4>2 DEF GiveUp
        <5>2. QED
          BY <5>1, RestoreStays DEF IInv, restoreVars
      <4>3. QED
        BY <4>1, <4>2
    <3>3. FilesRight'
      BY <2>5, <3>1, <3>2 DEF IInv, FilesRight, HasBackup
    <3>4. QED
      BY <1>1, <1>2, <2>1, <2>5, <3>1, <3>2, <3>3, ThrowsKeep
  <2>6. \/ Step \in {"warn", "ownersPost"} /\ Advance /\ UNCHANGED <<missed, restoreVars>>
        \/ /\ Step = "ownersPost" /\ missed' = missed \cup {"owners"}
           /\ UNCHANGED <<todo, passed, problem, report, restoreVars>>
        \/ Throw(64) /\ UNCHANGED missed
    BY <1>4 DEF GiveUp
  <2>7. QED
    BY <2>3, <2>4, <2>5, <2>6
<1>5. QED
  BY <1>3, <1>4

LEMMA AttemptKeeps ==
  ASSUME IInv, NEW arrives \in BOOLEAN, NEW known \in BOOLEAN, Attempt(arrives, known)
  PROVE  IInv'
<1>1. call # NoCall /\ (known => arrives)
  BY DEF Attempt
<1>2. /\ status' = IF arrives THEN call.says ELSE status
      /\ UNCHANGED <<mode, archive, files, exit>>
  BY DEF Attempt, Work
<1>3. CASE /\ known /\ Answered /\ call' = NoCall
           /\ answered' = IF call.says \in Outcomes THEN Append(answered, call.says) ELSE answered
           /\ UNCHANGED <<restoreVars, missed>>
  BY <1>1, <1>2, <1>3, AnsweredKeeps
<1>4. CASE /\ call' = [call EXCEPT !.try = @ + 1]
           /\ UNCHANGED <<restoreVars, todo, passed, problem, report, answered, missed>>
  <2>1. call'.says = call.says /\ call' \in [says : {"none", "running"} \cup Outcomes, try : Nat]
    BY <1>4 DEF IInv, CallRight
  <2>2. CallRight'
    BY <1>1, <1>2, <1>4, <2>1 DEF IInv, restoreVars, CallRight, Step, Says, Verdict
  <2>3. QED
    BY <1>1, <1>2, <1>4, <2>2, CallIsOpen, ArrivalIsEarned, StandsStill
<1>5. CASE GiveUp /\ call' = NoCall /\ UNCHANGED answered
  BY <1>1, <1>2, <1>5, GiveUpKeeps
<1>6. QED
  BY <1>3, <1>4, <1>5 DEF Attempt

\* Posts that nobody waits for say that the run is running.
LEMMA ProgressKeeps ==
  ASSUME IInv, Progress
  PROVE  IInv'
<1>1. /\ UNCHANGED <<restoreVars, mode, todo, passed, archive, files, missed, problem, report,
                     answered, exit, call>>
      /\ status' \in {status, "running"}
  BY DEF Progress, Emit, Work
<1>2. CallRight'
  BY <1>1, CallStays DEF IInv
<1>3. QED
  BY <1>1, <1>2, CallIsOpen, StandsStill

LEMMA LateArrivesKeeps ==
  ASSUME IInv, NEW i \in DOMAIN late, LateArrives(i)
  PROVE  IInv'
<1>1. /\ UNCHANGED <<restoreVars, mode, todo, passed, archive, files, missed, problem, report,
                     answered, exit, call>>
      /\ status' \in {status, "running"}
  BY DEF LateArrives, Work
<1>2. CallRight'
  BY <1>1, CallStays DEF IInv
<1>3. QED
  BY <1>1, <1>2, CallIsOpen, StandsStill

LEMMA LateAttemptKeeps ==
  ASSUME IInv, NEW i \in DOMAIN late, NEW arrives \in BOOLEAN, NEW known \in BOOLEAN,
         LateAttempt(i, arrives, known)
  PROVE  IInv'
<1>1. /\ UNCHANGED <<restoreVars, mode, archive, files, missed, answered, exit, call>>
      /\ status' \in {status, "running"}
  BY DEF LateAttempt, Work
<1>2. CASE UNCHANGED <<todo, passed, problem, report>>
  <2>1. CallRight'
    BY <1>1, <1>2, CallStays DEF IInv
  <2>2. QED
    BY <1>1, <1>2, <2>1, CallIsOpen, StandsStill
<1>3. CASE Step = "clone" /\ Throw(64)
  <2>1. problem' = 64 /\ report' = "due" /\ todo' = <<>> /\ UNCHANGED passed /\ todo # <<>>
    BY <1>3 DEF Throw, Step
  <2>2. problem = 0 /\ "outcome" \notin passed
    BY <1>3, <2>1, StepFacts, BeforeTheOutcome DEF IInv
  <2>3. call' = NoCall
    BY <1>1, <1>3, <2>2 DEF IInv, CallRight, Posting
  <2>4. RInv'
    BY <1>1, RestoreStays DEF IInv
  <2>5. UNCHANGED <<stages, code, road, rows, schema, skipped, dump>>
    BY <1>1 DEF restoreVars
  <2>6. FilesRight'
    BY <1>1, <2>1, <2>2, <2>5 DEF IInv, FilesRight, HasBackup
  <2>7. status' = "succeeded" => status = "succeeded" /\ files' = files
    BY <1>1
  <2>8. QED
    BY <1>1, <2>1, <2>2, <2>3, <2>4, <2>5, <2>6, <2>7, ThrowsKeep
<1>4. QED
  BY <1>2, <1>3 DEF LateAttempt

-----------------------------------------------------------------------------
(***************************************************************************)
(* The restore inside the run.                                             *)
(***************************************************************************)

\* It begins behind the checks.
LEMMA BeginRestoreKeeps ==
  ASSUME IInv, BeginRestore
  PROVE  IInv'
<1> DEFINE r == IF Step = "clone" THEN "clone" ELSE "backup"
<1>1. /\ Step \in {"clone", "restore"} /\ road = "none" /\ NewRoad(r) /\ UNCHANGED runtimeVars
      /\ call = NoCall /\ todo # <<>>
  BY DEF BeginRestore, Doing, Step
<1>2. /\ road' = r /\ r \in {"clone", "backup"}
      /\ UNCHANGED <<entries, skipped, dump, noise, load, sent, rows, schema, code>>
      /\ UNCHANGED <<mode, todo, passed, call, archive, files, missed, problem, report, exit, status,
                     answered>>
  BY <1>1 DEF NewRoad, runtimeVars
<1>3. RInv' /\ stages' # <<>>
  BY <1>1, <1>2, RoadBegins DEF IInv
<1>4. /\ problem = 0 /\ mode \in AllModes /\ Step \in StepsOf(mode) /\ exit # 0
      /\ \A x \in StepsOf(mode) \ {"owners", "ownersPost"} : Rank(x) < Rank(Step) => x \in passed
      /\ code = 0 /\ dump = "idle"
  BY <1>1, StepFacts DEF IInv, RInv, NotBegun
<1>5. status # "succeeded" /\ "outcome" \notin passed /\ answered = <<>>
  BY <1>1, BeforeTheOutcome
<1>6. OnPlan'
  BY <1>2 DEF IInv, OnPlan
<1>7. CallRight' /\ AnsweredRight'
  BY <1>1, <1>2, <1>5 DEF CallRight, NoCall, IInv, AnsweredRight
<1>8. RestoreRight'
  <2>1. passed \cap {"clone", "restore"} = {}
    BY <1>1 DEF IInv, RestoreRight, RestoreIsOver
  <2>2. mode # "db_clone" => "inspectTarget" \in passed
    <3>1. mode \in DatabaseModes
      BY <1>1, <1>4, StepsTogether DEF DatabaseModes
    <3>2. QED
      BY <1>1, <1>4, <3>1, StepsTogether, StepRanks
  <2>3. HasBackup => {"fetchBackup", "fitCheck"} \subseteq passed
    <3>1. HasBackup => Step = "restore"
      BY <1>1, <1>4, StepsTogether DEF HasBackup
    <3>2. QED
      BY <1>4, <3>1, StepsTogether, StepRanks DEF HasBackup
  <2>4. Step' = Step /\ HasBackup' = HasBackup
    BY <1>2 DEF Step, HasBackup
  <2>5. QED
    BY <1>1, <1>2, <1>4, <2>1, <2>2, <2>3, <2>4 DEF IInv, RestoreRight
<1>9. FilesRight'
  BY <1>2 DEF IInv, FilesRight, HasBackup
<1>10. EarlyErrors' /\ SuccessRight'
  BY <1>2, <1>4, <1>5 DEF EarlyErrors, SuccessRight
<1>11. QED
  BY <1>3, <1>6, <1>7, <1>8, <1>9, <1>10 DEF IInv

LEMMA AnnounceKeeps ==
  ASSUME IInv, Announce
  PROVE  IInv'
<1>1. UNCHANGED <<restoreVars, mode, todo, passed, archive, files, missed, problem, report, answered, exit>>
  BY DEF Announce, Work
<1>2. CASE road = "clone"
  <2>1. UNCHANGED call /\ status' \in {status, "running"}
    BY <1>2 DEF Announce, Emit
  <2>2. CallRight'
    BY <1>1, <2>1, CallStays DEF IInv
  <2>3. QED
    BY <1>1, <2>1, <2>2, CallIsOpen, StandsStill
<1>3. CASE road # "clone"
  <2>1. /\ call' = [says |-> "running", try |-> 1] /\ UNCHANGED status
        /\ Restoring /\ Stage \in Stages
    BY <1>3 DEF Announce, Waiting, ToAnnounce, Announces
  <2>2. road = "backup" /\ Step \in {"clone", "restore"} /\ stages # <<>>
    BY <1>3, <2>1 DEF Restoring, IInv, RInv, RestoreTypes, Stage, Stages
  <2>3. todo # <<>>
    BY <2>2 DEF Step
  <2>4. Step = "restore"
    <3>1. mode \in AllModes /\ Step \in StepsOf(mode) /\ "restore" \in StepsOf(mode)
      BY <2>2, <2>3, StepFacts DEF IInv, RestoreRight
    <3>2. QED
      BY <2>2, <3>1, StepsTogether
  <2>5. problem = 0 /\ answered = <<>> /\ "outcome" \notin passed
    BY <2>4, PostingSteps
  <2>6. Step' = Step /\ road' = road /\ stages' = stages
    BY <1>1 DEF Step, restoreVars
  <2>7. CallRight'
    BY <1>1, <2>1, <2>2, <2>4, <2>5, <2>6 DEF CallRight
  <2>8. QED
    BY <1>1, <2>1, <2>5, <2>7, StandsStill
<1>4. QED
  BY <1>2, <1>3

\* It goes on while nothing behind it has passed.
LEMMA RestoringFacts ==
  ASSUME IInv, Restoring, stages # <<>>
  PROVE  /\ code # 64 /\ passed \cap {"clone", "restore", "tally", "outcome"} = {}
         /\ status # "succeeded"
<1>1. road \in {"clone", "backup"} /\ mode \in AllModes
  BY RuntimeConstants DEF Restoring, IInv, RInv, RestoreTypes, OnPlan
<1>2. /\ "clone" \notin passed /\ "restore" \notin passed /\ status # "succeeded"
  BY <1>1 DEF IInv, RestoreRight, RestoreIsOver, SuccessRight
<1>3. code # 64
  BY DEF Restoring, IInv, RestoreRight, Step
<1>4. "outcome" \notin passed
  <2>1. SUFFICES ASSUME "outcome" \in passed PROVE FALSE
    OBVIOUS
  <2>2. problem = 0 /\ todo = <<>>
    BY <2>1 DEF IInv, AnsweredRight
  <2>3. StepsOf(mode) \ {"owners", "ownersPost"} \subseteq passed
    BY <2>2 DEF IInv, OnPlan, ToSet
  <2>4. "clone" \in StepsOf(mode) \/ "restore" \in StepsOf(mode)
    BY <1>1 DEF IInv, RestoreRight
  <2>5. QED
    BY <1>2, <2>3, <2>4
<1>5. "tally" \notin passed
  <2>1. SUFFICES ASSUME "tally" \in passed PROVE FALSE
    OBVIOUS
  <2>2. "tally" \in StepsOf(mode)
    BY <2>1 DEF IInv, OnPlan
  <2>3. mode \in {"backup", "backup_only"} /\ road = "backup"
    BY <1>1, <2>2, StepsTogether DEF IInv, RestoreRight
  <2>4. Step \in {"clone", "restore"} /\ todo # <<>>
    BY <2>3 DEF Restoring, Step
  <2>5. Rank("tally") < Rank(Step)
    BY <2>1, <2>4, StepFacts DEF IInv
  <2>6. QED
    BY <2>4, <2>5, StepRanks
<1>6. QED
  BY <1>2, <1>3, <1>4, <1>5

LEMMA RestoreMovesKeep ==
  ASSUME IInv, RestoreIsRunning, NEW whole \in BOOLEAN, whole => archive # "cut",
         RestoreStep(whole) \/ RestoreMishap, UNCHANGED runtimeVars
  PROVE  IInv'
<1>1. Restoring /\ road # "none" /\ (road = "backup" => call = NoCall)
  BY DEF RestoreIsRunning, Restoring
<1>2. code # 64
  BY <1>1 DEF Restoring, IInv, RestoreRight, Step
<1>3. /\ RInv' /\ code' # 64 /\ stages # <<>> /\ UNCHANGED road
      /\ dump' = "done" => dump = "done" \/ whole
  BY <1>2, RestoreKeeps DEF IInv
<1>4. /\ UNCHANGED <<mode, todo, passed, call, archive, files, missed, problem, report, exit, status,
                     answered>>
  BY DEF runtimeVars
<1>5. passed \cap {"clone", "restore", "tally", "outcome"} = {} /\ status # "succeeded"
  BY <1>1, <1>3, RestoringFacts
<1>6. Step' = Step /\ Says(Step)' = Says(Step) /\ HasBackup' = HasBackup
  BY <1>4 DEF Step, Says, Verdict, HasBackup
<1>7. OnPlan' /\ AnsweredRight'
  BY <1>4 DEF IInv, OnPlan, AnsweredRight
<1>8. CallRight'
  BY <1>1, <1>4, <1>6 DEF IInv, CallRight
<1>9. RestoreRight'
  BY <1>3, <1>4, <1>5, <1>6 DEF IInv, RestoreRight
<1>10. FilesRight'
  BY <1>4, <1>5, <1>6 DEF IInv, FilesRight
<1>11. EarlyErrors' /\ SuccessRight'
  BY <1>1, <1>4, <1>5, <1>6 DEF IInv, EarlyErrors, SuccessRight
<1>12. QED
  BY <1>3, <1>7, <1>8, <1>9, <1>10, <1>11 DEF IInv

LEMMA RestoreRunsKeep ==
  ASSUME IInv, RestoreRuns \/ RestoreStumbles
  PROVE  IInv'
<1>1. CASE RestoreRuns
  <2>1. RestoreStep(archive # "cut") /\ RestoreIsRunning /\ UNCHANGED runtimeVars
    BY <1>1 DEF RestoreRuns
  <2>2. CASE archive # "cut"
    <3>1. RestoreStep(TRUE)
      BY <2>1, <2>2
    <3>2. QED
      BY <2>1, <2>2, <3>1, RestoreMovesKeep
  <2>3. CASE archive = "cut"
    <3>1. RestoreStep(FALSE)
      BY <2>1, <2>3
    <3>2. QED
      BY <2>1, <3>1, RestoreMovesKeep
  <2>4. QED
    BY <2>2, <2>3
<1>2. CASE RestoreStumbles
  <2>1. RestoreMishap /\ RestoreIsRunning /\ UNCHANGED runtimeVars
    BY <1>2 DEF RestoreStumbles
  <2>2. QED
    BY <2>1, RestoreMovesKeep
<1>3. QED
  BY <1>1, <1>2

\* What has been restored is kept, and what has not is thrown.
LEMMA EndRestoreKeeps ==
  ASSUME IInv, EndRestore
  PROVE  IInv'
<1>1. /\ Step \in {"clone", "restore"} /\ todo # <<>> /\ RestoreIsOver /\ call' = NoCall
      /\ UNCHANGED <<Aside, archive, tries, files, missed>>
      /\ road # "none"
  BY DEF EndRestore, Doing, Aside, Step, RestoreIsOver
<1>2. UNCHANGED <<restoreVars, mode, exit, status, answered>>
  BY <1>1 DEF Aside
<1>3. code # 64 /\ code \in Codes /\ "outcome" \notin passed /\ status' # "succeeded" /\ problem = 0
  BY <1>1, <1>2, StepFacts, BeforeTheOutcome DEF IInv, RInv, RestoreTypes
<1>4. UNCHANGED <<stages, code, road, rows, schema, skipped, dump>>
  BY <1>2 DEF restoreVars
<1>5. CASE code = 0
  <2>1. Advance
    BY <1>5 DEF EndRestore
  <2>2. passed' = passed \cup {Step} /\ problem' = problem
    BY <2>1 DEF Advance
  <2>3. FilesRight'
    BY <1>1, <1>2, <1>4, <2>2 DEF IInv, FilesRight, HasBackup
  <2>4. /\ "fetchBackup" \in passed' => archive' # "none"
        /\ road = "backup" /\ dump = "done" => archive' # "cut"
    BY <1>1, <2>2 DEF IInv, RestoreRight
  <2>5. QED
    BY <1>1, <1>2, <1>3, <1>5, <2>1, <2>3, <2>4, StepsKeep
<1>6. CASE code # 0
  <2>1. Throw(code)
    BY <1>6 DEF EndRestore
  <2>2. problem' = code /\ report' = "due" /\ todo' = <<>> /\ UNCHANGED passed
    BY <2>1 DEF Throw
  <2>3. problem' \notin {65, 70, 71, 72}
    BY <1>3, <2>2 DEF Codes
  <2>4. FilesRight'
    BY <1>1, <1>2, <1>3, <1>4, <1>6, <2>2 DEF IInv, FilesRight, HasBackup
  <2>5. RInv'
    BY <1>2, RestoreStays DEF IInv
  <2>6. QED
    BY <1>1, <1>2, <1>3, <1>4, <1>6, <2>2, <2>3, <2>4, <2>5, ThrowsKeep
<1>7. QED
  BY <1>5, <1>6

-----------------------------------------------------------------------------
(***************************************************************************)
(* The end of the process.                                                 *)
(***************************************************************************)

LEMMA EndsKeep ==
  ASSUME IInv, Exits \/ Monitor \/ TimeOut
  PROVE  IInv'
<1>1. UNCHANGED <<restoreVars, mode, todo, passed, archive, files, missed, problem, report, answered>>
  BY DEF Exits, ExitClean, ExitFailed, Monitor, TimeOut
<1>2. call' = call \/ call' = NoCall
  BY DEF Exits, ExitClean, ExitFailed, Monitor, TimeOut
<1>3. CallRight' /\ (call' # NoCall => answered = <<>> /\ "outcome" \notin passed)
  <2>1. CASE call' = call
    BY <1>1, <2>1, CallStays, CallIsOpen DEF IInv
  <2>2. CASE call' = NoCall
    BY <2>2 DEF CallRight, NoCall
  <2>3. QED
    BY <1>2, <2>1, <2>2
<1>4. exit' = 0 => exit = 0 \/ (problem = 0 /\ todo = <<>>)
  BY DEF Exits, ExitClean, ExitFailed, Monitor, TimeOut, Killed
<1>5. status' = "succeeded" =>
        status = "succeeded" \/ (Earned /\ todo = <<>> /\ (road = "none" \/ stages = <<>>))
  <2>1. CASE status' = status
    BY <2>1
  <2>2. CASE Monitor /\ status' # status
    <3>1. status' = "succeeded" => exit = 0
      BY <2>2 DEF Monitor
    <3>2. QED
      BY <3>1, CleanExitsAreEarned
  <2>3. CASE TimeOut /\ status' # status
    BY <2>3 DEF TimeOut
  <2>4. QED
    BY <2>1, <2>2, <2>3 DEF Exits, ExitClean, ExitFailed
<1>6. QED
  BY <1>1, <1>3, <1>4, <1>5, StandsStill

-----------------------------------------------------------------------------
(***************************************************************************)
(* The run as a whole.                                                     *)
(***************************************************************************)

LEMMA Starts ==
  ASSUME Init
  PROVE  IInv
<1>1. RInv
  BY RestoreStarts DEF Init
<1>2. /\ mode \in AllModes /\ Orderly(Plan(mode)) /\ todo = Plan(mode)
      /\ ToSet(todo) = ToSet(Plan(mode))
  BY PlansAreOrderly, RuntimeConstants DEF Init
<1>3. OnPlan
  BY <1>2 DEF Init, OnPlan, StepsOf, Running
<1>4. CallRight /\ AnsweredRight
  BY DEF Init, CallRight, AnsweredRight, NoCall
<1>5. RestoreRight
  BY DEF Init, RestoreInit, RestoreRight
<1>6. FilesRight /\ EarlyErrors /\ SuccessRight
  BY DEF Init, FilesRight, EarlyErrors, SuccessRight
<1>7. QED
  BY <1>1, <1>3, <1>4, <1>5, <1>6 DEF IInv

LEMMA Goes ==
  ASSUME IInv, [Next]_vars
  PROVE  IInv'
<1>1. CASE MainStep
  BY <1>1, ReadKeeps, FetchKeeps, CopyFilesKeeps, OwnersKeep, NoHelperKeeps, TallyKeeps DEF MainStep
<1>2. CASE Post \/ ReportFailure \/ Posted
  BY <1>2, PostKeeps, ReportFailureKeeps, AttemptKeeps DEF Posted
<1>3. CASE Progress \/ LateStep
  BY <1>3, ProgressKeeps, LateArrivesKeeps, LateAttemptKeeps DEF LateStep
<1>4. CASE RestorePart \/ RestoreStumbles
  BY <1>4, BeginRestoreKeeps, AnnounceKeeps, RestoreRunsKeep, EndRestoreKeeps DEF RestorePart
<1>5. CASE Exits \/ Monitor \/ TimeOut
  BY <1>5, EndsKeep
<1>6. CASE UNCHANGED vars
  <2>1. UNCHANGED <<restoreVars, mode, todo, passed, archive, files, missed, problem, report,
                    answered, call, exit, status>>
    BY <1>6 DEF vars, runtimeVars
  <2>2. CallRight'
    BY <2>1, CallStays DEF IInv
  <2>3. QED
    BY <2>1, <2>2, CallIsOpen, StandsStill
<1>7. QED
  BY <1>1, <1>2, <1>3, <1>4, <1>5, <1>6 DEF Next

\* What the plan still asks, what has passed, what was posted and answered, and what
\* the restore and the copy have left on the target agree, in every state of a run.
THEOREM RuntimeInvariant == Spec => []IInv
<1>1. Init => IInv
  BY Starts
<1>2. IInv /\ [Next]_vars => IInv'
  BY Goes
<1>3. QED
  BY <1>1, <1>2, PTL DEF Spec

\* The verdict on a restore is right whatever died or was cut: a restore that ends well
\* is whole, the side that is blamed did fail (clone-entrypoint.sh's and
\* restoreLovableBackup's codes), and a backup's rows are there all or none.
THEOREM VerdictsAreRight == Spec => []RestoreVerdicts
<1>1. IInv => RestoreVerdicts
  BY VerdictsFollow DEF IInv
<1>2. QED
  BY <1>1, RuntimeInvariant, PTL

\* The record says succeeded only of a run that did its work, whatever became of its
\* callbacks (postCallback) and however its process ended.
THEOREM SuccessIsAlwaysEarned == Spec => []SuccessIsEarned
<1>1. IInv => SuccessIsEarned
  BY DEF IInv, SuccessRight, SuccessIsEarned
<1>2. QED
  BY <1>1, RuntimeInvariant, PTL

\* A target is written behind the checks of its mode only, and errors that say that
\* nothing was changed are right (BackupExportError 70 to 72 of runBackupExportFlow).
THEOREM NothingChangedIsAlwaysTrue == Spec => []NothingChangedIsTrue
<1>1. ASSUME IInv PROVE NothingChangedIsTrue
  <2>1. schema # "untouched" \/ rows > 0 => road # "none"
    BY <1>1 DEF IInv, RInv, NotBegun
  <2>2. /\ (schema # "untouched" \/ rows > 0) /\ mode # "db_clone" => "inspectTarget" \in passed
        /\ (schema # "untouched" \/ rows > 0) /\ HasBackup => "fitCheck" \in passed
    BY <1>1, <2>1 DEF IInv, RestoreRight
  <2>3. files # "none" /\ HasBackup => RestoreIsOver /\ code = 0
    BY <1>1 DEF IInv, FilesRight, RestoreRight
  <2>4. problem \in {65, 70, 71} \/ (problem = 72 /\ HasBackup) =>
          schema = "untouched" /\ rows = 0 /\ files = "none"
    BY <1>1 DEF IInv, EarlyErrors
  <2>5. QED
    BY <2>2, <2>3, <2>4 DEF NothingChangedIsTrue
<1>2. QED
  BY <1>1, RuntimeInvariant, PTL

\* One outcome at most is acknowledged to a run, and a process that ends well is one
\* whose success was (postCallback and handleMainFailure).
THEOREM OneOutcomeIsAcknowledged == Spec => []OneAcknowledgedOutcome
<1>1. ASSUME IInv PROVE OneAcknowledgedOutcome
  <2>1. Len(answered) <= 1
    BY <1>1 DEF IInv, AnsweredRight
  <2>2. answered = <<"succeeded">> => problem = 0
    BY <1>1 DEF IInv, AnsweredRight
  <2>3. ASSUME exit = 0, Reports PROVE answered = <<"succeeded">>
    <3>1. problem = 0 /\ todo = <<>> /\ mode \in AllModes
      BY <1>1, <2>3, RuntimeConstants DEF IInv, OnPlan
    <3>2. StepsOf(mode) \ {"owners", "ownersPost"} \subseteq passed
      BY <1>1, <3>1 DEF IInv, OnPlan, ToSet
    <3>3. "outcome" \in StepsOf(mode)
      BY <2>3, <3>1, StepsTogether DEF Reports
    <3>4. QED
      BY <1>1, <3>2, <3>3 DEF IInv, AnsweredRight
  <2>4. QED
    BY <2>1, <2>2, <2>3 DEF OneAcknowledgedOutcome
<1>2. QED
  BY <1>1, RuntimeInvariant, PTL

-----------------------------------------------------------------------------
(***************************************************************************)
(* Types.                                                                  *)
(***************************************************************************)

\* The restore's lists: never longer than the longer road, and what was skipped is
\* what is missing, within the limit.
RestoreBounded ==
  /\ Len(stages) <= Len(CloneStages)
  /\ entries = Objects \ skipped /\ skipped \subseteq Skippable
  /\ Cardinality(skipped) <= SkipLimit

TailOfPlan(s) ==
  s = <<>> \/ \E n \in 1..Len(Plan(mode)) : s = SubSeq(Plan(mode), n, Len(Plan(mode)))

Posts == [try : Tries, ofClone : BOOLEAN]

\* Every post under way is at one of its attempts, and they are not too many.
PostsBounded ==
  /\ call = NoCall \/ call \in [says : {"running"} \cup Outcomes, try : Tries]
  /\ told \in 0..Len(CloneStages) + 1
  /\ late \in Seq(Posts) /\ Len(late) <= MaxLate

\* As long as the backup is to be fetched an attempt is left.
AttemptsLeft ==
  /\ tries \in 0..DownloadAttempts
  /\ "fetchBackup" \in ToSet(todo) => tries < DownloadAttempts

EndsTyped ==
  /\ missed \subseteq {"files", "owners", "objects", "gaps"}
  /\ problem \in Problems /\ watched \in BOOLEAN
  /\ exit \in {Running, Killed} \cup Problems
  /\ status \in {"running"} \cup Outcomes

TInv ==
  /\ RestoreBounded
  /\ TailOfPlan(todo)
  /\ PostsBounded
  /\ AttemptsLeft
  /\ EndsTyped

-----------------------------------------------------------------------------
\* A tail of the plan without its first step is a tail of the plan.
LEMMA TailsOfPlan ==
  ASSUME mode \in AllModes
  PROVE  /\ TailOfPlan(<<>>) /\ TailOfPlan(Plan(mode))
         /\ \A s : TailOfPlan(s) /\ s # <<>> => TailOfPlan(Tail(s))
<1> DEFINE S == Names \cup {"post"}
<1>1. Plan(mode) \in Seq(S)
  BY PlansAreOrderly DEF Orderly
<1> DEFINE p == Plan(mode)
<1> HIDE DEF S, p
<1>2. p \in Seq(S) /\ Len(p) \in Nat /\ (Len(p) = 0 => p = <<>>)
  BY <1>1 DEF p
<1>3. TailOfPlan(<<>>)
  BY DEF TailOfPlan
<1>4. TailOfPlan(p)
  <2>1. p = SubSeq(p, 1, Len(p))
    BY <1>2, SubSeqFull
  <2>2. Len(p) > 0 => 1 \in 1..Len(p)
    BY <1>2
  <2>3. QED
    BY <1>2, <2>1, <2>2 DEF TailOfPlan, p
<1>5. ASSUME NEW s, TailOfPlan(s), s # <<>> PROVE TailOfPlan(Tail(s))
  <2>1. PICK n \in 1..Len(p) : s = SubSeq(p, n, Len(p))
    BY <1>5 DEF TailOfPlan, p
  <2>2. Len(p) \in n..Len(p)
    BY <1>2
  <2>3. Tail(s) = SubSeq(p, n + 1, Len(p))
    BY <1>2, <2>1, <2>2, HeadTailOfSubSeq
  <2>4. n + 1 \in 1..Len(p) \/ (n + 1 \in Int /\ Len(p) \in Int /\ Len(p) < n + 1)
    BY <1>2
  <2>5. CASE n + 1 \in 1..Len(p)
    BY <2>3, <2>5 DEF TailOfPlan, p
  <2>6. CASE n + 1 \in Int /\ Len(p) \in Int /\ Len(p) < n + 1
    <3>1. Tail(s) = <<>>
      BY <2>3, <2>6, SubSeqEmpty
    <3>2. QED
      BY <3>1, <1>3
  <2>7. QED
    BY <2>4, <2>5, <2>6
<1>6. QED
  BY <1>3, <1>4, <1>5 DEF p

\* What any step does to the steps that are to go.
TodoGoesOn ==
  \/ todo' = todo \/ todo' = <<>>
  \/ todo # <<>> /\ todo' = Tail(todo)
  \/ Step = "owners" /\ todo' = Tail(Tail(todo))

LEMMA TodoMoves ==
  ASSUME IInv, [Next]_vars
  PROVE  TodoGoesOn
<1>1. CASE MainStep
  <2>1. CASE Read
    BY <2>1 DEF Read, ReadConfig, AssertTargetDbConnection, InspectTargetDb, ResolveSource,
       ConnectSource, InspectSourceCloneTableCount, RequireAdminKey, ListSourceObjects,
       InspectBackup, CheckManagedDataFits, CompareRestoredRows, EnableRls, RunAuthUserMigration,
       VerifyRestoredRowCounts, Does, Doing, Advance, Throw, Step, TodoGoesOn
  <2>2. CASE Fetch \/ CopyFiles
    BY <2>2 DEF Fetch, CopyFiles, Doing, Advance, Throw, Step, TodoGoesOn
  <2>3. CASE Owners
    BY <2>3 DEF Owners, Doing, Advance, Step, TodoGoesOn
  <2>4. CASE NoHelper \/ Tally
    BY <2>4 DEF NoHelper, Tally, Doing, Advance, Step, TodoGoesOn
  <2>5. QED
    BY <1>1, <2>1, <2>2, <2>3, <2>4 DEF MainStep
<1>2. CASE Post \/ ReportFailure
  BY <1>2 DEF Post, ReportFailure, TodoGoesOn
<1>3. CASE Posted
  <2>1. PICK arrives \in BOOLEAN, known \in BOOLEAN : Attempt(arrives, known)
    BY <1>3 DEF Posted
  <2>2. problem # 0 \/ Step = "restore" \/ todo # <<>>
    BY <2>1, PostingSteps DEF Attempt, IInv, CallRight, Step, Posting
  <2>3. CASE Answered
    BY <2>2, <2>3 DEF Answered, ThrowReported, Advance, TodoGoesOn
  <2>4. CASE GiveUp
    BY <2>2, <2>4 DEF GiveUp, Throw, Advance, TodoGoesOn, Step
  <2>5. CASE todo' = todo
    BY <2>5 DEF TodoGoesOn
  <2>6. QED
    BY <2>1, <2>3, <2>4, <2>5 DEF Attempt
<1>4. CASE Progress
  BY <1>4 DEF Progress, TodoGoesOn
<1>5. CASE LateStep
  BY <1>5 DEF LateStep, LateArrives, LateAttempt, Throw, TodoGoesOn
<1>6. CASE RestorePart \/ RestoreStumbles
  BY <1>6 DEF RestorePart, BeginRestore, Announce, RestoreRuns, EndRestore, RestoreStumbles,
     runtimeVars, Doing, Advance, Throw, Step, TodoGoesOn
<1>7. CASE Exits \/ Monitor \/ TimeOut
  BY <1>7 DEF Exits, ExitClean, ExitFailed, Monitor, TimeOut, TodoGoesOn
<1>8. CASE UNCHANGED vars
  BY <1>8 DEF vars, runtimeVars, TodoGoesOn
<1>9. QED
  BY <1>1, <1>2, <1>3, <1>4, <1>5, <1>6, <1>7, <1>8 DEF Next

\* The steps to go stay a tail of the plan, and get no step they had not.
LEMMA TodoKeeps ==
  ASSUME IInv, TailOfPlan(todo), TodoGoesOn, mode' = mode
  PROVE  /\ TailOfPlan(todo)'
         /\ ToSet(todo') \subseteq ToSet(todo)
         /\ Step = "fetchBackup" /\ todo' = Tail(todo) => "fetchBackup" \notin ToSet(todo')
<1>1. mode \in AllModes /\ Orderly(todo)
  BY RuntimeConstants DEF IInv, OnPlan
<1>2. TailOfPlan(todo')
  <2>1. Step = "owners" => todo # <<>> /\ Tail(todo) # <<>>
    BY <1>1, NextStep DEF Step
  <2>2. QED
    BY <1>1, <2>1, TailsOfPlan DEF TodoGoesOn
<1>3. todo # <<>> => ToSet(Tail(todo)) \subseteq ToSet(todo)
  BY <1>1, NextStep
<1>4. Step = "owners" => ToSet(Tail(Tail(todo))) \subseteq ToSet(todo)
  <2>1. SUFFICES ASSUME Step = "owners" PROVE ToSet(Tail(Tail(todo))) \subseteq ToSet(todo)
    OBVIOUS
  <2>2. Orderly(Tail(todo)) /\ Tail(todo) # <<>>
    BY <1>1, <2>1, NextStep DEF Step
  <2>3. ToSet(Tail(Tail(todo))) \subseteq ToSet(Tail(todo))
    BY <2>2, NextStep
  <2>4. QED
    BY <1>3, <2>1, <2>3 DEF Step
<1>5. ToSet(<<>>) = {}
  BY DEF ToSet
<1>6. ToSet(todo') \subseteq ToSet(todo)
  BY <1>3, <1>4, <1>5 DEF TodoGoesOn
<1>7. ASSUME Step = "fetchBackup", todo' = Tail(todo) PROVE "fetchBackup" \notin ToSet(todo')
  <2>1. todo # <<>> /\ Head(todo) = "fetchBackup"
    BY <1>7 DEF Step
  <2>2. "fetchBackup" \in ToSet(Tail(todo)) => Rank("fetchBackup") < Rank("fetchBackup")
    BY <1>1, <2>1, NextStep
  <2>3. Rank("fetchBackup") = 12
    BY StepRanks
  <2>4. QED
    BY <1>7, <2>2, <2>3
<1>8. TailOfPlan(todo)'
  BY <1>2 DEF TailOfPlan
<1>9. QED
  BY <1>6, <1>7, <1>8

-----------------------------------------------------------------------------
\* What any step does to the stages that are to go, and to what was skipped.
StagesGoOn ==
  \/ stages' = stages \/ stages' = <<>>
  \/ stages # <<>> /\ stages' = Tail(stages)
  \/ stages' \in {CloneStages, BackupStages}

SkipsGoOn ==
  \/ UNCHANGED <<entries, skipped>>
  \/ \E o \in entries : MaySkip(o) /\ entries' = entries \ {o} /\ skipped' = skipped \cup {o}

\* RestoreStep and RestoreMishap move the stages on and skip what they may.
LEMMA RestoreGoesOn ==
  ASSUME RestoreStep(archive # "cut") \/ RestoreMishap
  PROVE  StagesGoOn /\ SkipsGoOn
<1>1. CASE Simple
  BY <1>1 DEF Simple, DiscoverSourceAppSchemas, CheckPrivileges, EnsureTargetPolicyRoles,
     PrepareSchemas, PrepareTargetExtensionDependencies, PrepareExtensions, DumpSchema,
     CheckReplicaRole, MakePipe, RestoreManagedObjects, CountRows, Runs, Stage, Proceed, Fail,
     StagesGoOn, SkipsGoOn
<1>2. CASE RestorePasses \/ DataEnds
  BY <1>2 DEF RestorePasses, DataEnds, Stage, Proceed, Fail, StagesGoOn, SkipsGoOn
<1>3. CASE \/ StartData \/ PipeOpens \/ Write
           \/ \E alive \in BOOLEAN : DumpConnects(alive) \/ LoadConnects(alive)
           \/ DumpEnds(archive # "cut") \/ DumpBreaks \/ InputEnds \/ InputBreaks \/ Commit
  BY <1>3 DEF StartData, PipeOpens, Write, DumpConnects, LoadConnects, DumpEnds, DumpBreaks,
     InputEnds, InputBreaks, Commit, StagesGoOn, SkipsGoOn
<1>4. CASE RestoreMishap
  BY <1>4 DEF RestoreMishap, RestoreFailsAt, RestoreFails, DataNeverStarts, DumpFails, LoadFails,
     Fail, StagesGoOn, SkipsGoOn
<1>5. QED
  BY <1>1, <1>2, <1>3, <1>4 DEF RestoreStep

LEMMA StagesMove ==
  ASSUME [Next]_vars
  PROVE  StagesGoOn /\ SkipsGoOn
<1>1. UNCHANGED restoreVars => StagesGoOn /\ SkipsGoOn
  BY DEF restoreVars, StagesGoOn, SkipsGoOn
<1>2. CASE MainStep
  <2>1. CASE Read
    BY <2>1, <1>1 DEF Read, ReadConfig, AssertTargetDbConnection, InspectTargetDb, ResolveSource,
       ConnectSource, InspectSourceCloneTableCount, RequireAdminKey, ListSourceObjects,
       InspectBackup, CheckManagedDataFits, CompareRestoredRows, EnableRls, RunAuthUserMigration,
       VerifyRestoredRowCounts, Does, Aside
  <2>2. QED
    BY <1>1, <1>2, <2>1 DEF MainStep, Fetch, CopyFiles, Owners, NoHelper, Tally, Aside
<1>3. CASE Post \/ ReportFailure \/ Progress \/ LateStep
  BY <1>1, <1>3 DEF Post, ReportFailure, Progress, LateStep, LateArrives, LateAttempt
<1>4. CASE Posted
  <2>1. PICK arrives \in BOOLEAN, known \in BOOLEAN : Attempt(arrives, known)
    BY <1>4 DEF Posted
  <2>2. CASE GiveUp
    BY <2>2, <1>1 DEF GiveUp, Fail, StagesGoOn, SkipsGoOn
  <2>3. QED
    BY <1>1, <2>1, <2>2 DEF Attempt
<1>5. CASE RestorePart \/ RestoreStumbles
  <2>1. CASE BeginRestore
    BY <2>1 DEF BeginRestore, NewRoad, StagesGoOn, SkipsGoOn
  <2>2. CASE Announce \/ EndRestore
    BY <1>1, <2>2 DEF Announce, EndRestore, Aside
  <2>3. CASE RestoreRuns \/ RestoreStumbles
    BY <2>3, RestoreGoesOn DEF RestoreRuns, RestoreStumbles
  <2>4. QED
    BY <1>5, <2>1, <2>2, <2>3 DEF RestorePart
<1>6. CASE Exits \/ Monitor \/ TimeOut
  BY <1>1, <1>6 DEF Exits, ExitClean, ExitFailed, Monitor, TimeOut
<1>7. CASE UNCHANGED vars
  BY <1>1, <1>7 DEF vars
<1>8. QED
  BY <1>2, <1>3, <1>4, <1>5, <1>6, <1>7 DEF Next

\* An object is left out of the list only below the limit, so the limit is kept.
LEMMA RestoreBoundedKeeps ==
  ASSUME stages \in Seq(Stages), RestoreBounded, StagesGoOn, SkipsGoOn
  PROVE  RestoreBounded'
<1>1. Len(CloneStages) = 10 /\ Len(BackupStages) = 6 /\ Len(<<>>) = 0
  BY DEF CloneStages, BackupStages
<1>2. Len(stages) \in Nat /\ (stages # <<>> => Len(Tail(stages)) = Len(stages) - 1)
  OBVIOUS
<1>3. Len(stages') <= Len(CloneStages)
  <2>1. stages' = stages \/ (stages # <<>> /\ stages' = Tail(stages)) => Len(stages') <= Len(CloneStages)
    BY <1>1, <1>2 DEF RestoreBounded
  <2>2. stages' \in {<<>>, CloneStages, BackupStages} => Len(stages') <= Len(CloneStages)
    <3>1. /\ Len(<<>>) <= Len(CloneStages) /\ Len(CloneStages) <= Len(CloneStages)
          /\ Len(BackupStages) <= Len(CloneStages)
      BY <1>1
    <3>2. QED
      BY <3>1, Zenon
  <2>3. QED
    BY <2>1, <2>2 DEF StagesGoOn
<1>4. CASE UNCHANGED <<entries, skipped>>
  BY <1>3, <1>4 DEF RestoreBounded
<1>5. CASE \E o \in entries : MaySkip(o) /\ entries' = entries \ {o} /\ skipped' = skipped \cup {o}
  <2>1. PICK o \in entries : MaySkip(o) /\ entries' = entries \ {o} /\ skipped' = skipped \cup {o}
    BY <1>5
  <2>2. o \in Skippable /\ o \notin skipped /\ Cardinality(skipped) < SkipLimit
    BY <2>1 DEF MaySkip, RestoreBounded
  <2>3. IsFiniteSet(skipped)
    BY RestoreConstants, FS_Subset DEF RestoreBounded
  <2>4. Cardinality(skipped') = Cardinality(skipped) + 1 /\ Cardinality(skipped) \in Nat
    BY <2>1, <2>2, <2>3, FS_AddElement, FS_CardinalityType
  <2>5. Cardinality(skipped') <= SkipLimit
    BY <2>2, <2>4, RestoreConstants
  <2>6. entries' = Objects \ skipped' /\ skipped' \subseteq Skippable
    BY <2>1, <2>2 DEF RestoreBounded
  <2>7. QED
    BY <1>3, <2>5, <2>6 DEF RestoreBounded
<1>6. QED
  BY <1>4, <1>5 DEF SkipsGoOn

-----------------------------------------------------------------------------
\* What any step does to the callbacks.
CallGoesOn ==
  \/ call' = call \/ call' = NoCall
  \/ \E says \in {"running"} \cup Outcomes : call' = [says |-> says, try |-> 1]
  \/ call # NoCall /\ call.try < CallbackAttempts /\ call' = [call EXCEPT !.try = @ + 1]

LateGoesOn ==
  \/ late' = late
  \/ Len(late) < MaxLate /\ \E c \in BOOLEAN : late' = Append(late, [try |-> 1, ofClone |-> c])
  \/ \E i \in DOMAIN late : late' = RemoveAt(late, i)
  \/ \E i \in DOMAIN late :
       late[i].try < CallbackAttempts /\ late' = [late EXCEPT ![i].try = @ + 1]

LEMMA SaysAreTyped ==
  \A step : Says(step) \in {"running"} \cup Outcomes
BY DEF Says, Verdict, Outcomes

LEMMA CallsMove ==
  ASSUME [Next]_vars
  PROVE  CallGoesOn /\ LateGoesOn /\ told' \in {told, Len(stages)}
<1>1. UNCHANGED <<call, told, late>> => CallGoesOn /\ LateGoesOn /\ told' \in {told, Len(stages)}
  BY DEF CallGoesOn, LateGoesOn
<1>2. CASE MainStep
  <2>1. CASE Read
    BY <2>1, <1>1 DEF Read, ReadConfig, AssertTargetDbConnection, InspectTargetDb, ResolveSource,
       ConnectSource, InspectSourceCloneTableCount, RequireAdminKey, ListSourceObjects,
       InspectBackup, CheckManagedDataFits, CompareRestoredRows, EnableRls, RunAuthUserMigration,
       VerifyRestoredRowCounts, Does, Aside
  <2>2. QED
    BY <1>1, <1>2, <2>1 DEF MainStep, Fetch, CopyFiles, Owners, NoHelper, Tally, Aside
<1>3. CASE Post
  BY <1>3, SaysAreTyped DEF Post, Waiting, CallGoesOn, LateGoesOn
<1>4. CASE ReportFailure
  BY <1>4 DEF ReportFailure, Waiting, CallGoesOn, LateGoesOn, Outcomes
<1>5. CASE Posted
  BY <1>5 DEF Posted, Attempt, CallGoesOn, LateGoesOn
<1>6. CASE Progress
  BY <1>6 DEF Progress, Emit, CallGoesOn, LateGoesOn
<1>7. CASE LateStep
  BY <1>7 DEF LateStep, LateArrives, LateAttempt, CallGoesOn, LateGoesOn
<1>8. CASE RestorePart \/ RestoreStumbles
  <2>1. CASE Announce
    BY <2>1 DEF Announce, Emit, Waiting, CallGoesOn, LateGoesOn
  <2>2. QED
    BY <1>1, <1>8, <2>1 DEF RestorePart, BeginRestore, RestoreRuns, EndRestore, RestoreStumbles,
       runtimeVars, Aside
<1>9. CASE Exits \/ Monitor \/ TimeOut
  BY <1>9 DEF Exits, ExitClean, ExitFailed, Monitor, TimeOut, CallGoesOn, LateGoesOn
<1>10. CASE UNCHANGED vars
  BY <1>1, <1>10 DEF vars, runtimeVars
<1>11. QED
  BY <1>2, <1>3, <1>4, <1>5, <1>6, <1>7, <1>8, <1>9, <1>10 DEF Next

LEMMA RemovalShortens ==
  ASSUME NEW S, NEW s \in Seq(S), NEW i \in DOMAIN s
  PROVE  RemoveAt(s, i) \in Seq(S) /\ Len(RemoveAt(s, i)) = Len(s) - 1
BY DEF RemoveAt

LEMMA PostsBoundedKeeps ==
  ASSUME stages \in Seq(Stages), RestoreBounded, PostsBounded,
         CallGoesOn, LateGoesOn, told' \in {told, Len(stages)}
  PROVE  PostsBounded'
<1>1. CallbackAttempts \in Nat \ {0} /\ MaxLate \in Nat
  BY RuntimeConstants
<1>2. call' = NoCall \/ call' \in [says : {"running"} \cup Outcomes, try : Tries]
  <2>1. CASE call # NoCall /\ call.try < CallbackAttempts /\ call' = [call EXCEPT !.try = @ + 1]
    <3>1. call.try + 1 \in Tries /\ call.says \in {"running"} \cup Outcomes
      BY <1>1, <2>1 DEF PostsBounded, Tries
    <3>2. call' = [says |-> call.says, try |-> call.try + 1]
      BY <2>1 DEF PostsBounded
    <3>3. QED
      BY <3>1, <3>2
  <2>2. 1 \in Tries
    BY <1>1 DEF Tries
  <2>3. QED
    BY <2>1, <2>2 DEF CallGoesOn, PostsBounded
<1>3. told' \in 0..Len(CloneStages) + 1
  <2>1. Len(CloneStages) = 10
    BY DEF CloneStages
  <2>2. QED
    BY <2>1 DEF PostsBounded, RestoreBounded
<1>4. late' \in Seq(Posts) /\ Len(late') <= MaxLate
  <2>1. late \in Seq(Posts) /\ Len(late) \in Nat /\ Len(late) <= MaxLate
    BY DEF PostsBounded
  <2>2. ASSUME NEW c \in BOOLEAN, Len(late) < MaxLate,
               late' = Append(late, [try |-> 1, ofClone |-> c])
        PROVE  late' \in Seq(Posts) /\ Len(late') <= MaxLate
    <3>1. [try |-> 1, ofClone |-> c] \in Posts
      BY <1>1 DEF Posts, Tries
    <3>2. QED
      BY <1>1, <2>1, <2>2, <3>1
  <2>3. ASSUME NEW i \in DOMAIN late, late' = RemoveAt(late, i)
        PROVE  late' \in Seq(Posts) /\ Len(late') <= MaxLate
    BY <1>1, <2>1, <2>3, RemovalShortens
  <2>4. ASSUME NEW i \in DOMAIN late, late[i].try < CallbackAttempts,
               late' = [late EXCEPT ![i].try = @ + 1]
        PROVE  late' \in Seq(Posts) /\ Len(late') <= MaxLate
    <3> DEFINE next == [late[i] EXCEPT !.try = @ + 1]
    <3>1. late[i] \in Posts
      BY <2>1
    <3>2. next \in Posts
      BY <1>1, <2>4, <3>1 DEF Posts, Tries
    <3>3. late' = [late EXCEPT ![i] = next]
      BY <2>4
    <3> HIDE DEF next
    <3>4. QED
      BY <2>1, <3>2, <3>3
  <2>5. QED
    BY <2>1, <2>2, <2>3, <2>4 DEF LateGoesOn
<1>5. QED
  BY <1>2, <1>3, <1>4 DEF PostsBounded, Posts, Tries, NoCall

-----------------------------------------------------------------------------
\* What any step does to the attempts of the download.
TriesGoOn ==
  \/ tries' = tries
  \/ /\ Step = "fetchBackup" /\ todo # <<>> /\ tries' = tries + 1
     /\ todo' = Tail(todo) \/ todo' = <<>> \/ (todo' = todo /\ tries' < DownloadAttempts)

LEMMA TriesMove ==
  ASSUME [Next]_vars
  PROVE  TriesGoOn
<1>1. CASE MainStep
  <2>1. CASE Read
    BY <2>1 DEF Read, ReadConfig, AssertTargetDbConnection, InspectTargetDb, ResolveSource,
       ConnectSource, InspectSourceCloneTableCount, RequireAdminKey, ListSourceObjects,
       InspectBackup, CheckManagedDataFits, CompareRestoredRows, EnableRls, RunAuthUserMigration,
       VerifyRestoredRowCounts, Does, TriesGoOn
  <2>2. CASE Fetch
    BY <2>2 DEF Fetch, Doing, Advance, Throw, Step, TriesGoOn
  <2>3. QED
    BY <1>1, <2>1, <2>2 DEF MainStep, CopyFiles, Owners, NoHelper, Tally, TriesGoOn
<1>2. CASE Post \/ ReportFailure \/ Posted \/ Progress \/ LateStep
  BY <1>2 DEF Post, ReportFailure, Posted, Attempt, Progress, LateStep, LateArrives, LateAttempt,
     Work, TriesGoOn
<1>3. CASE RestorePart \/ RestoreStumbles
  BY <1>3 DEF RestorePart, BeginRestore, Announce, RestoreRuns, EndRestore, RestoreStumbles,
     runtimeVars, Work, TriesGoOn
<1>4. CASE Exits \/ Monitor \/ TimeOut
  BY <1>4 DEF Exits, ExitClean, ExitFailed, Monitor, TimeOut, TriesGoOn
<1>5. CASE UNCHANGED vars
  BY <1>5 DEF vars, runtimeVars, TriesGoOn
<1>6. QED
  BY <1>1, <1>2, <1>3, <1>4, <1>5 DEF Next

\* The last attempt is never followed by another: it goes well or it throws.
LEMMA AttemptsLeftKeep ==
  ASSUME AttemptsLeft, TriesGoOn,
         ToSet(todo') \subseteq ToSet(todo),
         Step = "fetchBackup" /\ todo' = Tail(todo) => "fetchBackup" \notin ToSet(todo'),
         Orderly(todo)
  PROVE  AttemptsLeft'
<1>1. DownloadAttempts \in Nat \ {0}
  BY RuntimeConstants
<1>2. CASE tries' = tries
  BY <1>2 DEF AttemptsLeft
<1>3. CASE /\ Step = "fetchBackup" /\ todo # <<>> /\ tries' = tries + 1
           /\ todo' = Tail(todo) \/ todo' = <<>> \/ (todo' = todo /\ tries' < DownloadAttempts)
  <2>1. "fetchBackup" \in ToSet(todo)
    BY <1>3, NextStep DEF Step
  <2>2. tries \in 0..DownloadAttempts /\ tries < DownloadAttempts
    BY <2>1 DEF AttemptsLeft
  <2>3. tries' \in 0..DownloadAttempts
    BY <1>1, <1>3, <2>2
  <2>4. ToSet(<<>>) = {}
    BY DEF ToSet
  <2>5. QED
    BY <1>3, <2>3, <2>4 DEF AttemptsLeft
<1>4. QED
  BY <1>2, <1>3 DEF TriesGoOn

-----------------------------------------------------------------------------
\* What any step does to what the run ends in.
EndsGoOn ==
  /\ missed' \in SUBSET (missed \cup {"files", "owners", "objects", "gaps"})
  /\ problem' \in {problem} \cup Problems
  /\ watched' \in {watched, FALSE}
  /\ exit' \in {exit, Killed, problem} \cup Problems
  /\ \/ status' \in {status, "running"} \cup Outcomes
     \/ call # NoCall /\ status' = call.says

LEMMA DoingEnds ==
  ASSUME NEW step, NEW codes \in SUBSET Problems, Does(step, codes)
  PROVE  EndsGoOn
BY DEF Does, Advance, Throw, Aside, EndsGoOn

LEMMA EndsMove ==
  ASSUME [Next]_vars, code \in Codes
  PROVE  EndsGoOn
<1>1. {0, 1, 41, 44, 61, 62, 63, 64, 65, 67, 68, 69, 70, 71, 72, 73} \cup Codes \subseteq Problems
  BY DEF Problems, Codes
<1>2. CASE MainStep
  <2>1. CASE Read
    <3>1. /\ {65} \in SUBSET Problems /\ {67} \in SUBSET Problems /\ {67, 68, 69} \in SUBSET Problems
          /\ {61, 65} \in SUBSET Problems /\ {41} \in SUBSET Problems /\ {} \in SUBSET Problems
          /\ {62} \in SUBSET Problems /\ {63} \in SUBSET Problems /\ {71} \in SUBSET Problems
          /\ {71, 72} \in SUBSET Problems /\ {44} \in SUBSET Problems /\ {1, 73} \in SUBSET Problems
          /\ {72} \in SUBSET Problems
          /\ (IF mode = "db_clone" THEN {1, 41} ELSE {}) \in SUBSET Problems
      BY <1>1
    <3>2. QED
      BY <2>1, <3>1, DoingEnds DEF Read, ReadConfig, AssertTargetDbConnection, InspectTargetDb,
         ResolveSource, ConnectSource, InspectSourceCloneTableCount, RequireAdminKey,
         ListSourceObjects, InspectBackup, CheckManagedDataFits, CompareRestoredRows, EnableRls,
         RunAuthUserMigration, VerifyRestoredRowCounts
  <2>2. CASE Fetch \/ CopyFiles
    BY <1>1, <2>2 DEF Fetch, CopyFiles, Advance, Throw, Aside, EndsGoOn
  <2>3. CASE Owners \/ NoHelper
    BY <2>3 DEF Owners, NoHelper, Advance, Aside, EndsGoOn
  <2>4. CASE Tally
    BY <2>4 DEF Tally, NotRestored, Advance, Aside, EndsGoOn
  <2>5. QED
    BY <1>2, <2>1, <2>2, <2>3, <2>4 DEF MainStep
<1>3. CASE Post \/ ReportFailure
  BY <1>3 DEF Post, ReportFailure, Work, EndsGoOn
<1>4. CASE Posted
  <2>1. PICK arrives \in BOOLEAN, known \in BOOLEAN : Attempt(arrives, known)
    BY <1>4 DEF Posted
  <2>2. /\ call # NoCall /\ UNCHANGED <<exit, watched>> /\ status' \in {status, call.says}
    BY <2>1 DEF Attempt, Work
  <2>3. /\ missed' \in {missed, missed \cup {"owners"}}
        /\ problem' \in {problem, 63, 64}
    BY <2>1 DEF Attempt, Answered, GiveUp, Advance, Throw, ThrowReported
  <2>4. QED
    BY <1>1, <2>2, <2>3 DEF EndsGoOn
<1>5. CASE Progress
  BY <1>5 DEF Progress, Emit, Work, EndsGoOn
<1>6. CASE LateStep
  BY <1>1, <1>6 DEF LateStep, LateArrives, LateAttempt, Throw, Work, EndsGoOn
<1>7. CASE RestorePart \/ RestoreStumbles
  <2>1. CASE Announce
    BY <2>1 DEF Announce, Emit, Work, EndsGoOn
  <2>2. CASE EndRestore
    BY <1>1, <2>2 DEF EndRestore, Advance, Throw, Aside, EndsGoOn
  <2>3. QED
    BY <1>7, <2>1, <2>2 DEF RestorePart, BeginRestore, RestoreRuns, RestoreStumbles,
       runtimeVars, EndsGoOn
<1>8. CASE Exits \/ Monitor
  BY <1>1, <1>8 DEF Exits, ExitClean, ExitFailed, Monitor, Outcomes, EndsGoOn
<1>9. CASE TimeOut
  BY <1>9 DEF TimeOut, Outcomes, EndsGoOn
<1>10. CASE UNCHANGED vars
  BY <1>10 DEF vars, runtimeVars, EndsGoOn
<1>11. QED
  BY <1>2, <1>3, <1>4, <1>5, <1>6, <1>7, <1>8, <1>9, <1>10 DEF Next

LEMMA EndsTypedKeeps ==
  ASSUME EndsTyped, PostsBounded, EndsGoOn
  PROVE  EndsTyped'
BY DEF EndsTyped, PostsBounded, EndsGoOn

-----------------------------------------------------------------------------
LEMMA ModeStays ==
  ASSUME [Next]_vars
  PROVE  mode' = mode
<1>1. CASE MainStep
  BY <1>1 DEF MainStep, Fetch, CopyFiles, Owners, NoHelper, Tally, Aside,
     Read, ReadConfig, AssertTargetDbConnection, InspectTargetDb, ResolveSource,
     ConnectSource, InspectSourceCloneTableCount, RequireAdminKey, ListSourceObjects,
     InspectBackup, CheckManagedDataFits, CompareRestoredRows, EnableRls, RunAuthUserMigration,
     VerifyRestoredRowCounts, Does
<1>2. CASE Post \/ ReportFailure \/ Posted \/ Progress \/ LateStep
  BY <1>2 DEF Post, ReportFailure, Posted, Attempt, Progress, LateStep, LateArrives, LateAttempt,
     Work
<1>3. CASE RestorePart \/ RestoreStumbles \/ UNCHANGED vars
  BY <1>3 DEF RestorePart, BeginRestore, Announce, RestoreRuns, EndRestore, RestoreStumbles,
     runtimeVars, vars, Work, Aside
<1>4. CASE Exits \/ Monitor \/ TimeOut
  BY <1>4 DEF Exits, ExitClean, ExitFailed, Monitor, TimeOut
<1>5. QED
  BY <1>1, <1>2, <1>3, <1>4 DEF Next

LEMMA StartsTyped ==
  ASSUME Init
  PROVE  TInv
<1>1. mode \in AllModes /\ CallbackAttempts \in Nat \ {0} /\ DownloadAttempts \in Nat \ {0}
      /\ MaxLate \in Nat /\ SkipLimit \in Nat
  BY RuntimeConstants, RestoreConstants DEF Init
<1>2. RestoreBounded
  <2>1. Len(CloneStages) = 10 /\ Len(<<>>) = 0 /\ Cardinality({}) = 0
    BY FS_EmptySet DEF CloneStages
  <2>2. QED
    BY <1>1, <2>1 DEF Init, RestoreInit, RestoreBounded
<1>3. TailOfPlan(todo)
  BY <1>1, TailsOfPlan DEF Init
<1>4. PostsBounded
  <2>1. Len(CloneStages) = 10 /\ Len(<<>>) = 0 /\ <<>> \in Seq(Posts)
    BY DEF CloneStages
  <2>2. QED
    BY <1>1, <2>1 DEF Init, PostsBounded
<1>5. AttemptsLeft
  BY <1>1 DEF Init, AttemptsLeft
<1>6. EndsTyped
  BY DEF Init, EndsTyped, Problems, Codes
<1>7. QED
  BY <1>2, <1>3, <1>4, <1>5, <1>6 DEF TInv

LEMMA StaysTyped ==
  ASSUME IInv, TInv, [Next]_vars
  PROVE  TInv'
<1>1. stages \in Seq(Stages) /\ code \in Codes /\ Orderly(todo)
  BY DEF IInv, RInv, RestoreTypes, OnPlan
<1>2. RestoreBounded' /\ PostsBounded'
  BY <1>1, StagesMove, CallsMove, RestoreBoundedKeeps, PostsBoundedKeeps DEF TInv
<1>3. /\ TailOfPlan(todo)' /\ ToSet(todo') \subseteq ToSet(todo)
      /\ Step = "fetchBackup" /\ todo' = Tail(todo) => "fetchBackup" \notin ToSet(todo')
  BY ModeStays, TodoMoves, TodoKeeps DEF TInv
<1>4. AttemptsLeft'
  BY <1>1, <1>3, TriesMove, AttemptsLeftKeep DEF TInv
<1>5. EndsTyped'
  BY <1>1, EndsMove, EndsTypedKeeps DEF TInv
<1>6. QED
  BY <1>2, <1>3, <1>4, <1>5 DEF TInv

\* The run's variables stay within their types: the steps to go are always a tail of
\* the mode's plan, a schema restore never skips beyond its limit, and neither
\* downloadBackup nor postCallback makes an attempt more than it may.
THEOREM RuntimeTypes == Spec => []RuntimeTypeOK
<1>1. Init => TInv
  BY StartsTyped
<1>2. IInv /\ TInv /\ [Next]_vars => TInv'
  BY StaysTyped
<1>3. ASSUME IInv, TInv PROVE RuntimeTypeOK
  <2>1. \E n \in 0..Len(CloneStages) : stages \in [1..n -> Stages]
    <3>1. stages \in Seq(Stages) /\ Len(stages) <= Len(CloneStages)
      BY <1>3 DEF IInv, RInv, RestoreTypes, TInv, RestoreBounded
    <3>2. Len(CloneStages) = 10
      BY DEF CloneStages
    <3>3. Len(stages) <= 10
      BY <3>1, <3>2, Zenon
    <3>4. Len(stages) \in Nat /\ stages \in [1..Len(stages) -> Stages]
      BY <3>1
    <3> DEFINE n == Len(stages)
    <3> HIDE DEF n
    <3>5. n \in Nat /\ n <= 10
      BY <3>3, <3>4, Zenon DEF n
    <3>6. n \in 0..10
      BY <3>5
    <3>7. QED
      BY <3>2, <3>4, <3>6, Zenon DEF n
  <2>2. RestoreTypeOK
    BY <1>3, <2>1 DEF IInv, RInv, RestoreTypes, TInv, RestoreBounded, RestoreTypeOK
  <2>3. \E n \in 0..MaxLate : late \in [1..n -> [try : Tries, ofClone : BOOLEAN]]
    <3>1. late \in Seq(Posts) /\ Len(late) <= MaxLate /\ MaxLate \in Nat
      BY <1>3, RuntimeConstants DEF TInv, PostsBounded
    <3>2. Len(late) \in 0..MaxLate /\ late \in [1..Len(late) -> Posts]
      BY <3>1
    <3>3. QED
      BY <3>2 DEF Posts
  <2>4. answered \in Seq(Outcomes)
    <3>1. <<>> \in Seq(Outcomes) /\ <<"succeeded">> \in Seq(Outcomes) /\ <<"failed">> \in Seq(Outcomes)
      BY DEF Outcomes
    <3>2. answered \in {<<>>, <<"succeeded">>, <<"failed">>}
      BY <1>3 DEF IInv, AnsweredRight
    <3>3. QED
      BY <3>1, <3>2, Zenon
  <2>5. mode \in Modes /\ archive \in {"none", "cut", "whole"}
        /\ files \in {"none", "some", "failed", "missing", "all"} /\ report \in {"none", "due", "made"}
    BY <1>3 DEF IInv, OnPlan, FilesRight
  <2>6. QED
    BY <1>3, <2>2, <2>3, <2>4, <2>5
       DEF TInv, TailOfPlan, PostsBounded, AttemptsLeft, EndsTyped, RuntimeTypeOK
<1>4. QED
  BY <1>1, <1>2, <1>3, RuntimeInvariant, PTL DEF Spec

===============================================================================
