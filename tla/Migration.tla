------------------------------- MODULE Migration -------------------------------
(***************************************************************************)
(* SQLite3Migration.c: processes that bring one database up to date.        *)
(*                                                                          *)
(* A migration is a file.  Its name is the sequence of its parts between     *)
(* dots: 001.init.undo.sql is <<"001", "init", "undo", "sql">>, of which      *)
(* "001" is the version, "init" only for people, and the rest the type.  The *)
(* SQL of an "up" file creates objects one statement at a time, that of its  *)
(* "undo" file drops them.  Every action is one call into sqlite, which is   *)
(* its own transaction: nothing in this code makes two of them one.  Between *)
(* any two calls other processes run, and the process can be killed.         *)
(***************************************************************************)
EXTENDS Integers, Sequences, FiniteSets

CONSTANTS
  Migrators,    \* processes, each with a connection of its own
  Versions,     \* words that are versions
  NoVersion,    \* what a name or a path without a version gives
  StoredAs,     \* what the column makes of a version, which has numeric affinity
  Names,        \* the names of the files in the directory
  Paths,        \* files the application executes one by one
  Parts,        \* number of SQL statements in a file
  EntryPoints,  \* which of the four entry points are called
  Strict,       \* plain create and drop, without "if not exists", "if exists"
  Fragile,      \* versions whose statements can fail for reasons of their own
  Others,       \* processes that are no migrators lock the database, too
  MaxCrashes,   \* bound: how often a process is killed
  MaxRows       \* bound: rows of one version (the column is not unique)

ASSUME ConstantsAssumption ==
  /\ NoVersion \notin Versions
  /\ StoredAs \in [Versions -> Versions]
  /\ \A v \in Versions : StoredAs[StoredAs[v]] = StoredAs[v]
  /\ IsFiniteSet(Names)
  /\ \A name \in Names \cup {path.name : path \in Paths} :
       name \in Seq(STRING) \ {<<>>} /\ Head(name) \in Versions \cup {""}
  /\ Parts \in Nat \ {0}
  /\ EntryPoints \subseteq {"directory", "file", "execute", "undo"}
  /\ Fragile \subseteq Versions
  /\ Strict \in BOOLEAN /\ Others \in BOOLEAN
  /\ MaxCrashes \in Nat /\ MaxRows \in Nat

VARIABLES
  table,      \* the table schema_migrations exists
  rows,       \* number of rows of schema_migrations, by what is stored
  objects,    \* what the migrations created: <<script, part>>
  mig,        \* each process: where it is, and its local variables
  crashes,    \* processes killed so far
  ran         \* history: the jobs whose SQL ran to the end

vars == <<table, rows, objects, mig, crashes, ran>>

-----------------------------------------------------------------------------
(* Names and paths.                                                          *)

EndsWith(name, suffix) ==
  /\ Len(name) > Len(suffix)
  /\ SubSeq(name, Len(name) - Len(suffix) + 1, Len(name)) = suffix

\* SQLite3MigrationGetTypeWithPath.
GetType(name) ==
  IF ~EndsWith(name, <<"sql">>) THEN "unknown"
  ELSE IF EndsWith(name, <<"undo", "sql">>) THEN "undo" ELSE "up"

\* SQLite3MigrationCreateVersionStringWithPath: from the last slash of the path
\* to its first dot, and NULL if that is before the slash or right behind it.
\* Of the directories in a path matters whether there is a dot in them.
CreateVersionString(path) ==
  IF path.dotted \/ Head(path.name) = "" THEN NoVersion ELSE Head(path.name)

\* What a file contains, of which the code knows nothing: SQL for the objects that
\* its name stands for, without the part that says which way.
Script(name) == SubSeq(name, 1, Len(name) - (IF GetType(name) = "undo" THEN 2 ELSE 1))

Job(version, script, kind) == [version |-> version, script |-> script, kind |-> kind]

FileJob(path) == Job(CreateVersionString(path), Script(path.name), GetType(path.name))

\* The path of a URL that is relative to the directory is the name of the file
\* alone: CFURLCopyFileSystemPath does not resolve it.
Listed ==
  {FileJob([dotted |-> FALSE, name |-> n]) : n \in {n \in Names : GetType(n) # "unknown"}}

\* The order in which readdir delivers the directory: any.  Each file comes, and so,
\* there being as many places, comes once.
Listings ==
  {l \in [1 .. Cardinality(Listed) -> Listed] : \A job \in Listed : \E i \in DOMAIN l : l[i] = job}

Jobs    == Listed \cup {FileJob(path) : path \in Paths}
             \cup {Job(v, <<v>>, kind) : v \in Versions, kind \in {"up", "undo"}}
Objects == {job.script : job \in Jobs} \X (1 .. Parts)

\* step   the call into sqlite that comes next, "idle" outside of the API
\* why    what SQLite3MigrationCreateTableIfDoesntExist and DidMigratedVersion
\*        are called for: at the start, to check, before recording
\* todo   the migrations left, the current one first
\* part   the statement of the current file that comes next
\* status what the entry point returns, or returned
Local == [step: {"idle", "look", "create", "ask", "sql", "insert", "delete"},
          why: {"start", "check", "record"},
          entry: {"directory", "file", "execute", "undo"},
          todo: Seq(Jobs), part: 1 .. Parts,
          status: {"none", "ok", "error", "busy", "crashed"}]

TypeOK ==
  /\ table \in BOOLEAN
  /\ rows \in [Versions -> Nat]
  /\ objects \subseteq Objects
  /\ mig \in [Migrators -> Local]
  /\ crashes \in 0 .. MaxCrashes
  /\ ran \subseteq Jobs

Current(m) == Head(mig[m].todo)

\* The version of the current job as the table has it: the comparison with the
\* column converts the parameter like the insert does.
Version(m) == StoredAs[Current(m).version]

At(m, step) == mig[m].step = step

\* While a process is before a call, the call may be under way.  A read finds the
\* database locked while somebody commits, a write also while somebody reads; no
\* busy handler is installed, so the call fails at once with SQLITE_BUSY.
LockedForReading(m) ==
  Others \/ \E n \in Migrators \ {m} : mig[n].step \in {"create", "sql", "insert", "delete"}
LockedForWriting(m) ==
  Others \/ \E n \in Migrators \ {m} : mig[n].step # "idle"

-----------------------------------------------------------------------------
(* Control.                                                                  *)

Goto(m, step, why) == mig' = [mig EXCEPT ![m].step = step, ![m].why = why]

Return(m, status) ==
  mig' = [mig EXCEPT ![m] = [mig[m] EXCEPT !.step = "idle", !.todo = <<>>, !.status = status]]

\* Mutant: the loop does not advance.
DoneWithFileStuck(m, status) ==
  IF status = "ok" /\ Len(mig[m].todo) > 1
  THEN mig' = [mig EXCEPT ![m] = [mig[m] EXCEPT !.step = "look", !.why = "start"]]
  ELSE Return(m, status)

\* The loop of SQLite3MigrationMigrateWithDirectoryURL: on to the next file while
\* the status is kSQLite3StatusOK.  The other entry points have one job.
DoneWithFile(m, status) ==
  IF status = "ok" /\ Len(mig[m].todo) > 1
  THEN mig' = [mig EXCEPT ![m] = [mig[m] EXCEPT !.step = "look", !.why = "start",
                                          !.todo = Tail(@), !.status = status]]
  ELSE Return(m, status)

Start(m, entry, todo) ==
  /\ At(m, "idle") /\ entry \in EntryPoints
  /\ mig' = [mig EXCEPT ![m] = [step |-> "look", why |-> "start", entry |-> entry,
                                todo |-> todo, part |-> 1, status |-> "error"]]
  /\ UNCHANGED <<table, rows, objects, crashes, ran>>

MigrateWithDirectoryURL(m) ==
  \E listing \in Listings : listing # <<>> /\ Start(m, "directory", listing)
ExecuteWithContentsOfURL(m, path) == Start(m, "file", <<FileJob(path)>>)
MigrationExecute(m, v)     == Start(m, "execute", <<Job(v, <<v>>, "up")>>)
MigrationExecuteUndo(m, v) == Start(m, "undo", <<Job(v, <<v>>, "undo")>>)

-----------------------------------------------------------------------------
(* SQLite3MigrationCreateTableIfDoesntExist, in three places.                *)

\* A connection that has not cached the schema, or found its copy stale, reads it
\* when it compiles a statement, which a lock makes fail.  SQLite3StatementCreate
\* then returns NULL and SQLite3StatementBindString dereferences it: the process
\* dies.
DoesNotCompile(m) == LockedForReading(m) /\ Return(m, "crashed")

\* What follows it.  Only the first call's status is kept.  A file without a version
\* is done with.
TableSettled(m, status) ==
  IF mig[m].why = "start" /\ Current(m).version = NoVersion THEN DoneWithFile(m, status)
  ELSE IF mig[m].why = "start"
  THEN mig' = [mig EXCEPT ![m] = [mig[m] EXCEPT !.step = "look", !.why = "check", !.status = status]]
  ELSE Goto(m, "ask", mig[m].why)

\* SQLite3ConnectionDoesTableExist answers false when its query fails.
LookForTable(m) ==
  /\ At(m, "look")
  /\ \/ table /\ TableSettled(m, "ok")
     \/ ~table /\ Goto(m, "create", mig[m].why)
     \/ LockedForReading(m) /\ Goto(m, "create", mig[m].why)
     \/ DoesNotCompile(m)
  /\ UNCHANGED <<table, rows, objects, crashes, ran>>

CreateTable(m) ==
  /\ At(m, "create")
  /\ \/ ~table /\ table' = TRUE /\ TableSettled(m, "ok")
     \/ table /\ UNCHANGED table /\ TableSettled(m, "error")
     \/ LockedForWriting(m) /\ UNCHANGED table /\ TableSettled(m, "busy")
  /\ UNCHANGED <<rows, objects, crashes, ran>>

-----------------------------------------------------------------------------
(* SQLite3MigrationDidMigratedVersion and what is done about its answer.     *)

\* Mutant: the file goes on where the one before it ended.
ProceedWithoutStarting(m) ==
  mig' = [mig EXCEPT ![m].step = IF mig[m].why = "check" THEN "sql"
                                 ELSE IF mig[m].entry = "undo" THEN "delete" ELSE "insert"]

Proceed(m) ==
  mig' = [mig EXCEPT ![m] = [mig[m] EXCEPT
            !.step = IF mig[m].why = "check" THEN "sql"
                     ELSE IF mig[m].entry = "undo" THEN "delete" ELSE "insert",
            !.part = 1]]

\* Mutant: the version is not bound to the query, so no row ever matches.
AnsweredUnbound(m, did) ==
  IF mig[m].entry # "undo" THEN Proceed(m) ELSE DoneWithFile(m, mig[m].status)

\* Mutant: InsertVersion lacks the negation.
AnsweredInverted(m, did) ==
  IF ((mig[m].entry = "undo") = did) = (mig[m].why = "check") THEN Proceed(m)
  ELSE DoneWithFile(m, mig[m].status)

\* An undo needs the version to be recorded, everything else that it is not.
Answered(m, did) ==
  IF (mig[m].entry = "undo") = did THEN Proceed(m)
  ELSE DoneWithFile(m, mig[m].status)

\* Without the table the query does not compile either.
Ask(m) ==
  /\ At(m, "ask")
  /\ \/ ~table /\ Return(m, "crashed")
     \/ table /\ Answered(m, rows[Version(m)] > 0)
     \/ table /\ LockedForReading(m) /\ Answered(m, FALSE)
     \/ DoesNotCompile(m)
  /\ UNCHANGED <<table, rows, objects, crashes, ran>>

-----------------------------------------------------------------------------
(* Running the SQL of a migration and keeping the record.                    *)

Object(m) == <<Current(m).script, mig[m].part>>

StatementSucceeds(m) ==
  /\ Strict => (Object(m) \in objects) = (Current(m).kind = "undo")
  /\ objects' = IF Current(m).kind = "up" THEN objects \cup {Object(m)} ELSE objects \ {Object(m)}

StatementFails(m) ==
  \/ Current(m).version \in Fragile
  \/ Strict /\ (Object(m) \in objects) = (Current(m).kind = "up")

\* Mutant: a file that fails is recorded like any other.
SqlFailedRecording(m, status) ==
  mig' = [mig EXCEPT ![m] = [mig[m] EXCEPT !.step = "look", !.why = "record", !.status = status]]

\* Mutant: the loop goes on after a failure.
SqlFailedContinuing(m, status) == DoneWithFile(m, "ok")

\* ExecuteWithContentsOfURL gives up; Execute and ExecuteUndo record all the same.
SqlFailed(m, status) ==
  IF mig[m].entry \in {"directory", "file"} THEN Return(m, status)
  ELSE mig' = [mig EXCEPT ![m] = [mig[m] EXCEPT !.step = "look", !.why = "record", !.status = status]]

\* Mutant: off by one.
LastStatementLate(m) == mig[m].part > Parts

LastStatement(m) == mig[m].part = Parts

\* One statement of the sqlite3_exec of the file, in a transaction of its own.
RunStatement(m) ==
  /\ At(m, "sql")
  /\ \/ /\ StatementSucceeds(m)
        /\ mig' = IF LastStatement(m)
                  THEN [mig EXCEPT ![m] = [mig[m] EXCEPT
                          !.step = "look", !.why = "record", !.status = "ok"]]
                  ELSE [mig EXCEPT ![m].part = @ + 1]
        /\ ran' = IF LastStatement(m) THEN ran \cup {Current(m)} ELSE ran
     \/ StatementFails(m) /\ SqlFailed(m, "error") /\ UNCHANGED <<objects, ran>>
     \/ LockedForWriting(m) /\ SqlFailed(m, "busy") /\ UNCHANGED <<objects, ran>>
  /\ UNCHANGED <<table, rows, crashes>>

InsertVersion(m) ==
  /\ At(m, "insert")
  /\ rows[Version(m)] < MaxRows
  /\ rows' = [rows EXCEPT ![Version(m)] = @ + 1]
  /\ DoneWithFile(m, mig[m].status)
  /\ UNCHANGED <<table, objects, crashes, ran>>

DeleteVersion(m) ==
  /\ At(m, "delete")
  /\ rows' = [rows EXCEPT ![Version(m)] = 0]
  /\ DoneWithFile(m, mig[m].status)
  /\ UNCHANGED <<table, objects, crashes, ran>>

\* The insert or the delete fails.  Its status is dropped.
RecordRefused(m) ==
  /\ mig[m].step \in {"insert", "delete"}
  /\ \/ LockedForWriting(m) /\ DoneWithFile(m, mig[m].status)
     \/ DoesNotCompile(m)
  /\ UNCHANGED <<table, rows, objects, crashes, ran>>

\* The process is killed between two calls.
Crash(m) ==
  /\ ~At(m, "idle") /\ crashes < MaxCrashes
  /\ Return(m, "crashed")
  /\ crashes' = crashes + 1
  /\ UNCHANGED <<table, rows, objects, ran>>

-----------------------------------------------------------------------------
Idle == [step |-> "idle", why |-> "start", entry |-> "directory", todo |-> <<>>,
         part |-> 1, status |-> "none"]

Init ==
  /\ table = FALSE
  /\ rows = [v \in Versions |-> 0]
  /\ objects = {}
  /\ mig = [m \in Migrators |-> Idle]
  /\ crashes = 0
  /\ ran = {}

Call(m) ==
  \/ MigrateWithDirectoryURL(m)
  \/ \E path \in Paths : ExecuteWithContentsOfURL(m, path)
  \/ \E v \in Versions : MigrationExecute(m, v) \/ MigrationExecuteUndo(m, v)

Step(m) ==
  \/ LookForTable(m) \/ CreateTable(m) \/ Ask(m)
  \/ RunStatement(m) \/ InsertVersion(m) \/ DeleteVersion(m)
  \/ RecordRefused(m)

Next == \E m \in Migrators : Call(m) \/ Step(m) \/ Crash(m)

Spec == Init /\ [][Next]_vars

\* A process inside the API keeps running: every sqlite call returns.
RunningSpec == Spec /\ \A m \in Migrators : WF_vars(Step(m))

\* The application, moreover, migrates again whenever it is restarted.
RestartingSpec == RunningSpec /\ \A m \in Migrators : WF_vars(MigrateWithDirectoryURL(m))
-----------------------------------------------------------------------------
(* Properties.                                                               *)

Recorded(v) == v # NoVersion /\ rows[StoredAs[v]] > 0

Complete(script) == \A k \in 1 .. Parts : <<script, k>> \in objects

SameVersion(v, w) == v # NoVersion /\ w # NoVersion /\ StoredAs[v] = StoredAs[w]

\* A version in schema_migrations has all the objects of one of its files: failures,
\* crashes, locks and a second migrator notwithstanding, a version is recorded
\* only after its SQL ran to the end (Migration.c:167-168).
LedgerIsTrue ==
  \A v \in Versions : Recorded(v) =>
    \E job \in Listed : SameVersion(job.version, v) /\ Complete(job.script)

Migrated(m) == At(m, "idle") /\ mig[m].status = "ok" /\ mig[m].entry = "directory"

\* When a run over the directory returns kSQLite3StatusOK to the only migrator,
\* every file of the directory is recorded that has a version, however earlier
\* runs ended.
OkMeansMigrated ==
  \A m \in Migrators : Migrated(m) =>
    \A job \in Listed : Recorded(job.version) \/ job.version = NoVersion

\* Moreover, if only directories are migrated: a file that never ran to the end has
\* no version, or shares it with a file that did, be it its own undo file or one
\* that only to the column has the same version (Migration.c:42, 64, 96).  And
\* what a file creates is there unless its undo file ran; this where no third file
\* has the version of the two, which a run that starts after the undo was killed
\* midway could record in their place.
NothingElseIsLeftOut ==
  \A m \in Migrators : Migrated(m) => \A job \in Listed :
    /\ \/ job \in ran \/ job.version = NoVersion
       \/ \E other \in ran : SameVersion(other.version, job.version)
    /\ job \in ran /\ job.kind = "up" =>
         Complete(job.script) \/ Job(job.version, job.script, "undo") \in ran

\* One migrator runs SQL forward only for a version that is not recorded and
\* undoes only one that is, whichever entry points were called and killed before;
\* and so a version has one row at most, which a delete that is killed, or was
\* never reached, does not leave behind for a second insert.
SqlAgreesWithLedger ==
  /\ \A m \in Migrators :
       At(m, "sql") => (mig[m].entry = "undo") = Recorded(Current(m).version)
  /\ \A v \in Versions : rows[v] <= 1

\* Every run ends: no lock, failure or second migrator keeps it in the API.
RunsReturn == \A m \in Migrators : ~At(m, "idle") ~> At(m, "idle")

\* An application that migrates at every start gets there, if its SQL can be
\* repeated and nobody else locks the database: what a crash left unrecorded is
\* run again.
EventuallyMigrated ==
  <>[](\A job \in Listed : Recorded(job.version) \/ job.version = NoVersion)
=============================================================================
