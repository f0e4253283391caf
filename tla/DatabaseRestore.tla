--------------------------- MODULE DatabaseRestore ---------------------------
(***************************************************************************)
(* How the database reaches the target, by either of two roads.            *)
(*                                                                         *)
(* "clone" is run-clone.sh: checks, schemas, extensions, a schema dump, a  *)
(* schema restore that skips what it may, and a data stage in which pg_dump*)
(* writes a FIFO that psql reads.  Opening a FIFO waits for the other end, *)
(* and psql commits at the end of its input, whoever ended it.             *)
(*                                                                         *)
(* "backup" is restoreLovableBackup: pg_restore and psql joined by pipes   *)
(* inside the runner, which sends COMMIT only once pg_restore has read the *)
(* whole archive.                                                          *)
(***************************************************************************)
EXTENDS Naturals, Sequences, FiniteSets

CONSTANTS
  Objects,    \* entries of the dump's table of contents
  Skippable,  \* those of a type that never holds data
  SkipLimit,  \* schema_skip_limit, SCHEMA_SKIP_LIMIT
  NumRows     \* chunks of table data

ASSUME RestoreConstants ==
  /\ IsFiniteSet(Objects) /\ Skippable \subseteq Objects
  /\ SkipLimit \in Nat /\ NumRows \in Nat \ {0}

VARIABLES
  road,     \* "clone" or "backup"
  stages,   \* stages to go, the one under way first; none when it is over
  entries,  \* what the schema restore list still holds
  skipped,  \* what it has left out
  dump,     \* pg_dump, or pg_restore writing SQL
  noise,    \* its stderr says more than "broken pipe"
  load,     \* psql
  sent,     \* chunks that have gone from one to the other
  rows,     \* chunks committed on the target
  schema,   \* the target's schemas
  code      \* exit code of the restore, once it is over

restoreVars == <<road, stages, entries, skipped, dump, noise, load, sent, rows, schema, code>>

Stages == {"discover", "privileges", "roles", "prepare", "extensions", "dump",
           "restore", "replica", "pipe", "data", "managed", "verify"}

CloneStages == <<"discover", "privileges", "roles", "prepare", "extensions", "dump",
                 "restore", "replica", "pipe", "data">>
BackupStages == <<"prepare", "extensions", "restore", "data", "managed", "verify">>

Codes == {0, 1, 41, 42, 43, 44, 46, 64}

Ended == {"done", "failed"}

RestoreTypeOK ==
  /\ road \in {"none", "clone", "backup"}
  /\ \E n \in 0..Len(CloneStages) : stages \in [1..n -> Stages]
  /\ entries = Objects \ skipped /\ skipped \subseteq Skippable
  /\ Cardinality(skipped) <= SkipLimit
  /\ dump \in {"idle", "starting", "opening", "writing"} \cup Ended
  /\ load \in {"idle", "starting", "opening", "reading", "committing"} \cup Ended
  /\ noise \in BOOLEAN
  /\ sent \in 0..NumRows /\ rows \in 0..NumRows
  /\ schema \in {"untouched", "prepared", "restored"}
  /\ code \in Codes

RestoreInit ==
  /\ road = "none" /\ stages = <<>> /\ code = 0
  /\ entries = Objects /\ skipped = {}
  /\ dump = "idle" /\ load = "idle" /\ noise = FALSE
  /\ sent = 0 /\ rows = 0
  /\ schema = "untouched"

Stage == IF stages = <<>> THEN "over" ELSE Head(stages)

NewRoad(r) ==
  /\ road' = r
  /\ stages' = IF r = "clone" THEN CloneStages ELSE BackupStages
  /\ UNCHANGED <<entries, skipped, dump, noise, load, sent, rows, schema, code>>

Fail(c) == stages' = <<>> /\ code' = c
Proceed == stages' = Tail(stages) /\ UNCHANGED code

-----------------------------------------------------------------------------
(* Stages that are one query or one command *)

\* A stage that goes well or ends the restore with one of its codes, and whose
\* effects are not kept here.
Runs(stage, on, codes) ==
  /\ Stage = stage /\ road \in on
  /\ Proceed \/ \E c \in codes : Fail(c)
  /\ UNCHANGED <<road, entries, skipped, dump, noise, load, sent, rows, schema>>

DiscoverSourceAppSchemas == Runs("discover", {"clone"}, {41})

\* A query in a command substitution that fails ends the script with psql's own
\* code (set -e), which 1 stands for.
CheckPrivileges == Runs("privileges", {"clone"}, {1, 42, 44})

\* The target has every role that the source's policies name.
EnsureTargetPolicyRoles == Runs("roles", {"clone"}, {41, 43})

\* Schemas are created one by one: a failure may leave some of them.
PrepareSchemas ==
  /\ Stage = "prepare"
  /\ \/ Proceed /\ schema' = "prepared"
     \/ Fail(43) /\ schema' \in {schema, "prepared"}
  /\ UNCHANGED <<road, entries, skipped, dump, noise, load, sent, rows>>

\* Extensions that cannot be created are warned about, in either road; the schema
\* of one that is there is asked for in a command substitution.
PrepareTargetExtensionDependencies == Runs("extensions", {"clone"}, {1, 41})
PrepareExtensions == Runs("extensions", {"backup"}, {43})

DumpSchema == Runs("dump", {"clone"}, {41})
CheckReplicaRole == Runs("replica", {"clone"}, {46})
MakePipe == Runs("pipe", {"clone"}, {42})

\* Policies, triggers and views, one by one: what fails is listed.
RestoreManagedObjects == Runs("managed", {"backup"}, {43})

\* A count that cannot be had is null, but a pg_restore that cannot be started, or
\* whose output breaks, ends the restore with an error that has no code: 1.
CountRows == Runs("verify", {"backup"}, {1})

Simple ==
  \/ DiscoverSourceAppSchemas \/ CheckPrivileges \/ EnsureTargetPolicyRoles
  \/ PrepareSchemas \/ PrepareTargetExtensionDependencies \/ PrepareExtensions
  \/ DumpSchema \/ CheckReplicaRole \/ MakePipe
  \/ RestoreManagedObjects \/ CountRows

-----------------------------------------------------------------------------
(* The schema, in one transaction per pass *)

\* Slip: the limit is looked at one object too late.
MaySkip_OneMore(o) == o \in Skippable /\ Cardinality(skipped) <= SkipLimit

MaySkip(o) == o \in Skippable /\ Cardinality(skipped) < SkipLimit

\* An object fails: leave it out and try again, or give up.
RestoreFailsAt(o) ==
  /\ Stage = "restore"
  /\ IF MaySkip(o)
     THEN /\ entries' = entries \ {o} /\ skipped' = skipped \cup {o}
          /\ UNCHANGED <<stages, code>>
     ELSE Fail(43) /\ UNCHANGED <<entries, skipped>>
  /\ UNCHANGED <<road, dump, noise, load, sent, rows, schema>>

\* The failure names no entry.
RestoreFails ==
  /\ Stage = "restore"
  /\ Fail(43)
  /\ UNCHANGED <<road, entries, skipped, dump, noise, load, sent, rows, schema>>

RestorePasses ==
  /\ Stage = "restore"
  /\ Proceed
  /\ schema' = "restored"
  /\ UNCHANGED <<road, entries, skipped, dump, noise, load, sent, rows>>

-----------------------------------------------------------------------------
(* The data, from one process to another *)

Processes(d, l) == dump' = d /\ load' = l

\* psql goes to the background and pg_dump to the foreground; the runner's
\* pipes have both ends from the start.
StartData ==
  /\ Stage = "data" /\ dump = "idle"
  /\ IF road = "clone" THEN Processes("starting", "starting") ELSE Processes("writing", "reading")
  /\ UNCHANGED <<road, stages, entries, skipped, noise, sent, rows, schema, code>>

\* The auth tables of the target could not be read.
DataNeverStarts ==
  /\ Stage = "data" /\ dump = "idle" /\ road = "backup"
  /\ Fail(44)
  /\ UNCHANGED <<road, entries, skipped, dump, noise, load, sent, rows, schema>>

\* What a process does by itself: connect, then open the FIFO; or die first.
DumpConnects(alive) ==
  /\ dump = "starting"
  /\ dump' = (IF alive THEN "opening" ELSE "failed")
  /\ noise' = ~alive
  /\ UNCHANGED <<road, stages, entries, skipped, load, sent, rows, schema, code>>

LoadConnects(alive) ==
  /\ load = "starting"
  /\ load' = (IF alive THEN "opening" ELSE "failed")
  /\ UNCHANGED <<road, stages, entries, skipped, dump, noise, sent, rows, schema, code>>

PipeOpens ==
  /\ dump = "opening" /\ load = "opening"
  /\ Processes("writing", "reading")
  /\ UNCHANGED <<road, stages, entries, skipped, noise, sent, rows, schema, code>>

Write ==
  /\ dump = "writing" /\ load = "reading" /\ sent < NumRows
  /\ sent' = sent + 1
  /\ UNCHANGED <<road, stages, entries, skipped, dump, noise, load, rows, schema, code>>

\* A truncated archive is found out at its end.
DumpEnds(whole) ==
  /\ dump = "writing" /\ sent = NumRows
  /\ dump' = (IF whole THEN "done" ELSE "failed") /\ noise' = ~whole
  /\ UNCHANGED <<road, stages, entries, skipped, load, sent, rows, schema, code>>

\* An error of its own.
DumpFails ==
  /\ dump = "writing"
  /\ dump' = "failed" /\ noise' = TRUE
  /\ UNCHANGED <<road, stages, entries, skipped, load, sent, rows, schema, code>>

\* A write to a psql that is gone, which may be all that its stderr says, or not.
DumpBreaks ==
  /\ dump = "writing" /\ load = "failed"
  /\ dump' = "failed" /\ noise' \in BOOLEAN
  /\ UNCHANGED <<road, stages, entries, skipped, load, sent, rows, schema, code>>

LoadFails ==
  /\ load \in {"reading", "committing"}
  /\ load' = "failed"
  /\ UNCHANGED <<road, stages, entries, skipped, dump, noise, sent, rows, schema, code>>

\* Slip: COMMIT follows the last row whatever
\* pg_restore's exit code.
ReadsToEnd_AnyExit == dump \in Ended

\* Slip: the FIFO stays open when pg_dump fails.
ReadsToEnd_Succeeds == dump = "done"

\* The input of psql ends in a commit: a FIFO ends when its writer goes; the
\* runner's generator awaits pg_restore's exit and throws unless it is 0.
ReadsToEnd == IF road = "clone" THEN dump \in Ended ELSE dump = "done"

InputEnds ==
  /\ load = "reading" /\ ReadsToEnd
  /\ load' = "committing"
  /\ UNCHANGED <<road, stages, entries, skipped, dump, noise, sent, rows, schema, code>>

\* psql's input is closed inside the transaction, which rolls back; psql exits 0.
InputBreaks ==
  /\ road = "backup" /\ load = "reading" /\ dump = "failed"
  /\ load' = "done"
  /\ UNCHANGED <<road, stages, entries, skipped, dump, noise, sent, rows, schema, code>>

Commit ==
  /\ load = "committing"
  /\ load' = "done" /\ rows' = sent
  /\ UNCHANGED <<road, stages, entries, skipped, dump, noise, sent, schema, code>>

\* Slip: only psql's status is looked at.
DataVerdict_LoadOnly == IF load = "failed" THEN 44 ELSE 0

\* The exit statuses, read together.
DataVerdict ==
  IF road = "backup" THEN IF "failed" \in {dump, load} THEN 44 ELSE 0
  ELSE IF dump # "failed" THEN IF load = "failed" THEN 44 ELSE 0
  ELSE IF load = "failed" /\ ~noise THEN 44 ELSE 42

DataEnds ==
  /\ Stage = "data" /\ dump \in Ended /\ load \in Ended
  /\ IF DataVerdict = 0 THEN Proceed ELSE Fail(DataVerdict)
  /\ UNCHANGED <<road, entries, skipped, dump, noise, load, sent, rows, schema>>

\* What must happen some day, whether it goes well or not...
RestoreStep(whole) ==
  \/ Simple \/ RestorePasses
  \/ StartData \/ PipeOpens \/ Write
  \/ \E alive \in BOOLEAN : DumpConnects(alive) \/ LoadConnects(alive)
  \/ DumpEnds(whole) \/ DumpBreaks
  \/ InputEnds \/ InputBreaks \/ Commit
  \/ DataEnds

\* ...and what may.
RestoreMishap ==
  \/ \E o \in entries : RestoreFailsAt(o)
  \/ RestoreFails \/ DataNeverStarts \/ DumpFails \/ LoadFails

RestoreIsOver == road # "none" /\ stages = <<>>

-----------------------------------------------------------------------------

\* One end of the FIFO died before opening it, and the other opens it for ever.
PipeIsStuck ==
  \/ dump = "opening" /\ load = "failed"
  \/ load = "opening" /\ dump = "failed"

\* A restore that ends well has moved every row, and schemas and rows agree.
GoodRestoresAreWhole ==
  RestoreIsOver /\ code = 0 => rows = NumRows /\ schema = "restored"

\* The data stage blames the source only if pg_dump failed, the target only if
\* psql did (or, in a backup, the archive).
BlameIsFair ==
  dump # "idle" /\ RestoreIsOver /\ code # 64 =>
    /\ code = 42 => dump = "failed"
    /\ code = 44 => load = "failed" \/ (road = "backup" /\ dump = "failed")

\* Rows of a backup are committed all or none.
BackupIsAllOrNothing == road = "backup" => rows \in {0, NumRows}
=============================================================================
