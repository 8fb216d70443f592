---------------------------- MODULE MigrationProofs ----------------------------
(***************************************************************************)
(* What holds of migrations for directories, files and versions of any       *)
(* number: the types, however many processes migrate; and what a process     *)
(* that has the database to itself can rely on, however often it is killed.  *)
(*                                                                          *)
(* Then what the table is worth.  When several processes migrate one          *)
(* database, a version that is recorded has all of its objects, however many  *)
(* processes run over the directory, lock each other out and are killed.       *)
(* Neither SQLite3MigrationExecute nor undo files are part of it: they break   *)
(* it.  When one process migrates directories that have undo files, what a     *)
(* run that ends with kSQLite3StatusOK has left out, and what it left in place. *)
(***************************************************************************)
EXTENDS Migration, FiniteSetTheorems, TLAPS

Statuses == {"none", "ok", "error", "busy", "crashed"}
Whys     == {"start", "check", "record"}

\* A process in the API has a current migration.
HasWork == \A m \in Migrators : ~At(m, "idle") => mig[m].todo # <<>>

TInv == TypeOK /\ HasWork

-----------------------------------------------------------------------------
(* Names and listings.                                                       *)

LEMMA ListedJobs ==
  /\ Listed \subseteq Jobs
  /\ \A path \in Paths : FileJob(path) \in Jobs
  /\ \A v \in Versions : Job(v, <<v>>, "up") \in Jobs /\ Job(v, <<v>>, "undo") \in Jobs
<1>1. Listed \subseteq Jobs /\ \A path \in Paths : FileJob(path) \in Jobs
  BY DEF Jobs
<1>2. ASSUME NEW v \in Versions, NEW kind \in {"up", "undo"} PROVE Job(v, <<v>>, kind) \in Jobs
  BY DEF Jobs
<1>3. QED
  BY <1>1, <1>2

LEMMA JobVersion ==
  ASSUME NEW job \in Jobs
  PROVE  job.version \in Versions \cup {NoVersion}
<1>1. ASSUME NEW path, Head(path.name) \in Versions \cup {""}
      PROVE  FileJob(path).version \in Versions \cup {NoVersion}
  BY <1>1 DEF FileJob, Job, CreateVersionString
<1>2. CASE job \in Listed
  <2>1. PICK n \in Names : job = FileJob([dotted |-> FALSE, name |-> n])
    BY <1>2 DEF Listed
  <2>2. Head(n) \in Versions \cup {""}
    BY ConstantsAssumption
  <2>3. QED
    BY <1>1, <2>1, <2>2
<1>3. CASE job \in {FileJob(path) : path \in Paths}
  <2>1. PICK path \in Paths : job = FileJob(path)
    BY <1>3
  <2>2. Head(path.name) \in Versions \cup {""}
    BY ConstantsAssumption
  <2>3. QED
    BY <1>1, <2>1, <2>2
<1>4. CASE \E v \in Versions, kind \in {"up", "undo"} : job = Job(v, <<v>>, kind)
  BY <1>4 DEF Job
<1>5. QED
  BY <1>2, <1>3, <1>4 DEF Jobs

LEMMA ListedIsFinite == IsFiniteSet(Listed) /\ Cardinality(Listed) \in Nat
<1> DEFINE files == {n \in Names : GetType(n) # "unknown"}
           job == [n \in files |-> FileJob([dotted |-> FALSE, name |-> n])]
<1>1. IsFiniteSet(files)
  BY ConstantsAssumption, FS_Subset
<1>2. job \in Surjection(files, Listed)
  BY DEF Surjection, Listed
<1>3. IsFiniteSet(Listed)
  <2> HIDE DEF files, job
  <2>1. QED
    BY <1>1, <1>2, FS_Surjection
<1>4. QED
  BY <1>3, FS_CardinalityType

LEMMA ListingType ==
  ASSUME NEW listing \in Listings
  PROVE  /\ listing \in Seq(Jobs)
         /\ \A job \in Listed : \E i \in DOMAIN listing : listing[i] = job
<1>1. listing \in [1 .. Cardinality(Listed) -> Listed] /\ Cardinality(Listed) \in Nat
  BY ListedIsFinite DEF Listings
<1>2. listing \in Seq(Listed)
  BY <1>1
<1>3. listing \in Seq(Jobs)
  BY <1>2, ListedJobs
<1>4. QED
  BY <1>3 DEF Listings

LEMMA MoreThanOne ==
  ASSUME NEW T, NEW s \in Seq(T), Len(s) > 1
  PROVE  Tail(s) \in Seq(T) /\ Tail(s) # <<>>
<1>1. Tail(s) \in Seq(T) /\ Len(Tail(s)) = Len(s) - 1 /\ Len(s) \in Nat
  <2>1. s # <<>>
    OBVIOUS
  <2>2. QED
    BY <2>1
<1>2. Len(Tail(s)) # 0
  BY <1>1
<1>3. Len(<<>>) = 0
  OBVIOUS
<1>4. Tail(s) # <<>>
  BY <1>2, <1>3, Zenon
<1>5. QED
  BY <1>1, <1>4

LEMMA FirstPart == 1 \in 1 .. Parts
<1>1. Parts \in Nat \ {0}
  BY ConstantsAssumption
<1>2. QED
  BY <1>1

-----------------------------------------------------------------------------
(* The local variables of a process.                                         *)

\* What an action that takes process m from its local state to l has to show.
LEMMA MigType ==
  ASSUME TInv, NEW m \in Migrators, NEW l \in Local,
         l.step # "idle" => l.todo # <<>>,
         mig' = [mig EXCEPT ![m] = l]
  PROVE  mig' \in [Migrators -> Local] /\ HasWork' /\ mig'[m] = l
  BY DEF TInv, TypeOK, HasWork, At

LEMMA LocalFields ==
  ASSUME TInv, NEW m \in Migrators
  PROVE  /\ mig[m] \in Local
         /\ mig[m].step \in {"idle", "look", "create", "ask", "sql", "insert", "delete"}
         /\ mig[m].why \in Whys /\ mig[m].entry \in {"directory", "file", "execute", "undo"}
         /\ mig[m].todo \in Seq(Jobs) /\ mig[m].part \in 1 .. Parts /\ mig[m].status \in Statuses
  BY DEF TInv, TypeOK, Local, Whys, Statuses

LEMMA CurrentJob ==
  ASSUME TInv, NEW m \in Migrators, ~At(m, "idle")
  PROVE  Current(m) \in Jobs /\ Current(m).version \in Versions \cup {NoVersion}
<1>1. mig[m].todo \in Seq(Jobs) /\ mig[m].todo # <<>>
  BY LocalFields DEF TInv, HasWork
<1>2. Current(m) \in Jobs
  BY <1>1 DEF Current
<1>3. QED
  BY <1>2, JobVersion

\* Locals with some of their fields changed, in the ways the control operators do.
Is(l, step, why, entry, todo, status) ==
  /\ l \in Local /\ l.step = step /\ l.why = why /\ l.entry = entry
  /\ l.todo = todo /\ l.status = status

LEMMA LocalExcept ==
  ASSUME NEW l \in Local,
         NEW step \in {"idle", "look", "create", "ask", "sql", "insert", "delete"},
         NEW why \in Whys, NEW todo \in Seq(Jobs), NEW part \in 1 .. Parts,
         NEW status \in Statuses
  PROVE  /\ Is([l EXCEPT !.step = step, !.todo = todo, !.status = status],
                step, l.why, l.entry, todo, status)
         /\ Is([l EXCEPT !.step = step, !.why = why, !.todo = todo, !.status = status],
                step, why, l.entry, todo, status)
         /\ Is([l EXCEPT !.step = step, !.why = why, !.status = status],
                step, why, l.entry, l.todo, status)
         /\ Is([l EXCEPT !.step = step, !.part = part],
                step, l.why, l.entry, l.todo, l.status)
         /\ Is([l EXCEPT !.step = step, !.why = why], step, why, l.entry, l.todo, l.status)
         /\ Is([l EXCEPT !.part = part], l.step, l.why, l.entry, l.todo, l.status)
<1>1. Is([l EXCEPT !.step = step, !.todo = todo, !.status = status],
         step, l.why, l.entry, todo, status)
  BY DEF Is, Local, Statuses
<1>2. Is([l EXCEPT !.step = step, !.why = why, !.todo = todo, !.status = status],
         step, why, l.entry, todo, status)
  BY DEF Is, Local, Statuses, Whys
<1>3. Is([l EXCEPT !.step = step, !.why = why, !.status = status],
         step, why, l.entry, l.todo, status)
  BY DEF Is, Local, Statuses, Whys
<1>4. Is([l EXCEPT !.step = step, !.part = part], step, l.why, l.entry, l.todo, l.status)
  BY DEF Is, Local
<1>5. Is([l EXCEPT !.step = step, !.why = why], step, why, l.entry, l.todo, l.status)
  BY DEF Is, Local, Whys
<1>6. Is([l EXCEPT !.part = part], l.step, l.why, l.entry, l.todo, l.status)
  BY DEF Is, Local
<1>7. QED
  BY <1>1, <1>2, <1>3, <1>4, <1>5, <1>6

\* Process m goes on to another call, or to another migration.
Moves(m, step, why, todo, status) ==
  /\ mig' \in [Migrators -> Local] /\ HasWork'
  /\ Is(mig'[m], step, why, mig[m].entry, todo, status)

LEMMA MovesSuffices ==
  ASSUME TInv, NEW m \in Migrators, NEW l, NEW step, NEW why, NEW todo, NEW status,
         Is(l, step, why, mig[m].entry, todo, status),
         step # "idle" => todo # <<>>,
         mig' = [mig EXCEPT ![m] = l]
  PROVE  Moves(m, step, why, todo, status)
<1>1. l \in Local /\ l.step = step /\ l.todo = todo
  BY DEF Is
<1>2. QED
  BY <1>1, MigType DEF Moves

LEMMA ReturnMoves ==
  ASSUME TInv, NEW m \in Migrators, NEW status \in Statuses, Return(m, status)
  PROVE  Moves(m, "idle", mig[m].why, <<>>, status)
<1> DEFINE l == [mig[m] EXCEPT !.step = "idle", !.todo = <<>>, !.status = status]
<1>1. Is(l, "idle", mig[m].why, mig[m].entry, <<>>, status)
  <2>1. <<>> \in Seq(Jobs) /\ mig[m] \in Local /\ mig[m].why \in Whys /\ mig[m].part \in 1 .. Parts
    BY LocalFields
  <2>2. QED
    BY <2>1, LocalExcept
<1>2. mig' = [mig EXCEPT ![m] = l]
  BY DEF Return
<1> HIDE DEF l
<1>3. QED
  BY <1>1, <1>2, MovesSuffices

LEMMA GotoMoves ==
  ASSUME TInv, NEW m \in Migrators, ~At(m, "idle"), NEW why \in Whys,
         NEW step \in {"look", "create", "ask", "sql", "insert", "delete"},
         Goto(m, step, why)
  PROVE  Moves(m, step, why, mig[m].todo, mig[m].status)
<1> DEFINE l == [mig[m] EXCEPT !.step = step, !.why = why]
<1>1. Is(l, step, why, mig[m].entry, mig[m].todo, mig[m].status)
  <2>1. mig[m] \in Local /\ mig[m].todo \in Seq(Jobs) /\ mig[m].part \in 1 .. Parts
        /\ mig[m].status \in Statuses
    BY LocalFields
  <2>2. QED
    BY <2>1, LocalExcept
<1>2. mig' = [mig EXCEPT ![m] = l]
  BY DEF Goto, TInv, TypeOK
<1> HIDE DEF l
<1>3. mig[m].todo # <<>>
  BY DEF TInv, HasWork
<1>4. QED
  BY <1>1, <1>2, <1>3, MovesSuffices

\* The loop goes on to the next file, or the entry point returns.
LEMMA DoneMoves ==
  ASSUME TInv, NEW m \in Migrators, ~At(m, "idle"), NEW status \in Statuses,
         DoneWithFile(m, status)
  PROVE  \/ /\ status = "ok" /\ Len(mig[m].todo) > 1
            /\ Moves(m, "look", "start", Tail(mig[m].todo), "ok")
         \/ /\ ~(status = "ok" /\ Len(mig[m].todo) > 1)
            /\ Moves(m, "idle", mig[m].why, <<>>, status)
<1>1. CASE status = "ok" /\ Len(mig[m].todo) > 1
  <2> DEFINE l == [mig[m] EXCEPT !.step = "look", !.why = "start", !.todo = Tail(mig[m].todo),
                                 !.status = status]
  <2>1. mig[m].todo \in Seq(Jobs)
    BY LocalFields
  <2>2. Tail(mig[m].todo) \in Seq(Jobs) /\ Tail(mig[m].todo) # <<>>
    BY <1>1, <2>1, MoreThanOne
  <2>3. Is(l, "look", "start", mig[m].entry, Tail(mig[m].todo), status)
    <3>1. /\ mig[m] \in Local /\ mig[m].part \in 1 .. Parts /\ status \in Statuses
          /\ "look" \in {"idle", "look", "create", "ask", "sql", "insert", "delete"}
          /\ "start" \in Whys
      BY LocalFields DEF Whys
    <3>2. QED
      BY <2>2, <3>1, LocalExcept
  <2>4. mig' = [mig EXCEPT ![m] = l]
    BY <1>1 DEF DoneWithFile
  <2> HIDE DEF l
  <2>5. QED
    BY <1>1, <2>2, <2>3, <2>4, MovesSuffices
<1>2. CASE ~(status = "ok" /\ Len(mig[m].todo) > 1)
  BY <1>2, ReturnMoves DEF DoneWithFile
<1>3. QED
  BY <1>1, <1>2

\* What follows SQLite3MigrationCreateTableIfDoesntExist: a file without a version
\* is done with, others are asked for.
LEMMA SettledMoves ==
  ASSUME TInv, NEW m \in Migrators, ~At(m, "idle"), NEW status \in Statuses,
         TableSettled(m, status)
  PROVE  \/ /\ mig[m].why = "start" /\ Current(m).version = NoVersion
            /\ DoneWithFile(m, status)
         \/ /\ mig[m].why = "start" /\ Current(m).version # NoVersion
            /\ Moves(m, "look", "check", mig[m].todo, status)
         \/ /\ mig[m].why # "start"
            /\ Moves(m, "ask", mig[m].why, mig[m].todo, mig[m].status)
<1>1. CASE mig[m].why = "start" /\ Current(m).version = NoVersion
  BY <1>1 DEF TableSettled
<1>2. CASE mig[m].why = "start" /\ Current(m).version # NoVersion
  <2> DEFINE l == [mig[m] EXCEPT !.step = "look", !.why = "check", !.status = status]
  <2>1. Is(l, "look", "check", mig[m].entry, mig[m].todo, status)
    <3>1. /\ mig[m] \in Local /\ mig[m].part \in 1 .. Parts /\ mig[m].todo \in Seq(Jobs)
          /\ "look" \in {"idle", "look", "create", "ask", "sql", "insert", "delete"}
          /\ "check" \in Whys
      BY LocalFields DEF Whys
    <3>2. QED
      BY <3>1, LocalExcept
  <2>2. mig' = [mig EXCEPT ![m] = l]
    BY <1>2 DEF TableSettled
  <2> HIDE DEF l
  <2>3. mig[m].todo # <<>>
    BY DEF TInv, HasWork
  <2>4. QED
    BY <1>2, <2>1, <2>2, <2>3, MovesSuffices
<1>3. CASE mig[m].why # "start"
  BY <1>3, LocalFields, GotoMoves DEF TableSettled
<1>4. QED
  BY <1>1, <1>2, <1>3

\* What follows SQLite3MigrationDidMigratedVersion.
LEMMA AnsweredMoves ==
  ASSUME TInv, NEW m \in Migrators, ~At(m, "idle"), NEW did \in BOOLEAN, Answered(m, did)
  PROVE  \/ /\ (mig[m].entry = "undo") = did
            /\ \/ /\ mig[m].why = "check"
                  /\ Moves(m, "sql", mig[m].why, mig[m].todo, mig[m].status)
               \/ /\ mig[m].why # "check" /\ mig[m].entry = "undo"
                  /\ Moves(m, "delete", mig[m].why, mig[m].todo, mig[m].status)
               \/ /\ mig[m].why # "check" /\ mig[m].entry # "undo"
                  /\ Moves(m, "insert", mig[m].why, mig[m].todo, mig[m].status)
         \/ (mig[m].entry = "undo") # did /\ DoneWithFile(m, mig[m].status)
<1>1. CASE (mig[m].entry = "undo") = did
  <2> DEFINE step == IF mig[m].why = "check" THEN "sql"
                     ELSE IF mig[m].entry = "undo" THEN "delete" ELSE "insert"
             l == [mig[m] EXCEPT !.step = step, !.part = 1]
  <2>1. Is(l, step, mig[m].why, mig[m].entry, mig[m].todo, mig[m].status)
    <3>1. /\ mig[m] \in Local /\ 1 \in 1 .. Parts /\ mig[m].todo \in Seq(Jobs)
          /\ mig[m].status \in Statuses /\ mig[m].why \in Whys
      BY LocalFields, FirstPart
    <3>2. step \in {"idle", "look", "create", "ask", "sql", "insert", "delete"}
      OBVIOUS
    <3> HIDE DEF step
    <3>3. QED
      BY <3>1, <3>2, LocalExcept
  <2>2. mig' = [mig EXCEPT ![m] = l]
    BY <1>1 DEF Answered, Proceed
  <2>3. mig[m].todo # <<>>
    BY DEF TInv, HasWork
  <2>4. Moves(m, step, mig[m].why, mig[m].todo, mig[m].status)
    <3> HIDE DEF l, step
    <3>1. QED
      BY <2>1, <2>2, <2>3, MovesSuffices
  <2>5. QED
    BY <1>1, <2>4
<1>2. CASE (mig[m].entry = "undo") # did
  BY <1>2 DEF Answered
<1>3. QED
  BY <1>1, <1>2

\* What follows the SQL, whether it ran or not.
LEMMA RecordMoves ==
  ASSUME TInv, NEW m \in Migrators, ~At(m, "idle"), NEW status \in Statuses,
         mig' = [mig EXCEPT ![m] = [mig[m] EXCEPT !.step = "look", !.why = "record",
                                                  !.status = status]]
  PROVE  Moves(m, "look", "record", mig[m].todo, status)
<1> DEFINE l == [mig[m] EXCEPT !.step = "look", !.why = "record", !.status = status]
<1>1. Is(l, "look", "record", mig[m].entry, mig[m].todo, status)
  <2>1. /\ mig[m] \in Local /\ mig[m].part \in 1 .. Parts /\ mig[m].todo \in Seq(Jobs)
        /\ "look" \in {"idle", "look", "create", "ask", "sql", "insert", "delete"}
        /\ "record" \in Whys
    BY LocalFields DEF Whys
  <2>2. QED
    BY <2>1, LocalExcept
<1>2. mig' = [mig EXCEPT ![m] = l]
  OBVIOUS
<1>3. mig[m].todo # <<>>
  BY DEF TInv, HasWork
<1> HIDE DEF l
<1>4. QED
  BY <1>1, <1>2, <1>3, MovesSuffices

\* On to the next statement of the file.
LEMMA NextPartMoves ==
  ASSUME TInv, NEW m \in Migrators, ~At(m, "idle"), ~LastStatement(m),
         mig' = [mig EXCEPT ![m].part = @ + 1]
  PROVE  Moves(m, mig[m].step, mig[m].why, mig[m].todo, mig[m].status)
<1> DEFINE part == mig[m].part + 1
           l == [mig[m] EXCEPT !.part = part]
<1>1. part \in 1 .. Parts
  <2>1. mig[m].part \in 1 .. Parts /\ mig[m].part # Parts /\ Parts \in Nat
    BY LocalFields, ConstantsAssumption DEF LastStatement
  <2>2. QED
    BY <2>1
<1>2. Is(l, mig[m].step, mig[m].why, mig[m].entry, mig[m].todo, mig[m].status)
  <2> HIDE DEF part
  <2>1. QED
    BY <1>1, LocalFields, LocalExcept
<1>3. mig' = [mig EXCEPT ![m] = l]
  BY DEF TInv, TypeOK
<1>4. mig[m].todo # <<>>
  BY DEF TInv, HasWork
<1> HIDE DEF l
<1>5. QED
  BY <1>2, <1>3, <1>4, MovesSuffices

LEMMA FailedMoves ==
  ASSUME TInv, NEW m \in Migrators, ~At(m, "idle"), NEW status \in Statuses,
         SqlFailed(m, status)
  PROVE  \/ /\ mig[m].entry \in {"directory", "file"}
            /\ Moves(m, "idle", mig[m].why, <<>>, status)
         \/ /\ mig[m].entry \notin {"directory", "file"}
            /\ Moves(m, "look", "record", mig[m].todo, status)
  BY ReturnMoves, RecordMoves DEF SqlFailed

-----------------------------------------------------------------------------
(* Types, for any number of processes.                                       *)

\* The part of the type invariant that is not about the processes.
Stored ==
  /\ table \in BOOLEAN /\ rows \in [Versions -> Nat] /\ objects \subseteq Objects
  /\ crashes \in 0 .. MaxCrashes /\ ran \subseteq Jobs

LEMMA TInvParts ==
  /\ TInv => Stored
  /\ Stored' /\ mig' \in [Migrators -> Local] /\ HasWork' => TInv'
  BY DEF TInv, TypeOK, Stored

LEMMA InitTInv == Init => TInv
<1> SUFFICES ASSUME Init PROVE TInv
  OBVIOUS
<1>1. Idle \in Local
  BY FirstPart DEF Idle, Local
<1>2. TypeOK
  <2>1. 0 \in 0 .. MaxCrashes
    <3>1. MaxCrashes \in Nat
      BY ConstantsAssumption
    <3>2. QED
      BY <3>1
  <2>2. QED
    BY <1>1, <2>1 DEF Init, TypeOK
<1>3. HasWork
  BY <1>1 DEF Init, HasWork, At, Idle
<1>4. QED
  BY <1>2, <1>3 DEF TInv

LEMMA StartType ==
  ASSUME TInv, NEW m \in Migrators, NEW entry, NEW todo \in Seq(Jobs), todo # <<>>,
         Start(m, entry, todo)
  PROVE  /\ TInv' /\ At(m, "idle")
         /\ Is(mig'[m], "look", "start", entry, todo, "error")
<1> DEFINE l == [step |-> "look", why |-> "start", entry |-> entry,
                 todo |-> todo, part |-> 1, status |-> "error"]
<1>1. entry \in {"directory", "file", "execute", "undo"}
  BY ConstantsAssumption DEF Start
<1>2. Is(l, "look", "start", entry, todo, "error")
  BY <1>1, FirstPart DEF Is, Local
<1>3. mig' = [mig EXCEPT ![m] = l] /\ At(m, "idle")
  BY DEF Start
<1> HIDE DEF l
<1>4. mig' \in [Migrators -> Local] /\ HasWork' /\ mig'[m] = l
  BY <1>2, <1>3, MigType DEF Is
<1>5. Stored'
  BY TInvParts DEF Start, Stored
<1>6. QED
  BY <1>2, <1>3, <1>4, <1>5, TInvParts

\* Every entry point starts on a list of migrations that is not empty.
LEMMA CallStarts ==
  ASSUME NEW m \in Migrators, Call(m)
  PROVE  \/ \E listing \in Listings :
               listing # <<>> /\ listing \in Seq(Jobs) /\ Start(m, "directory", listing)
         \/ \E entry \in {"file", "execute", "undo"}, job \in Jobs : Start(m, entry, <<job>>)
<1>1. CASE MigrateWithDirectoryURL(m)
  BY <1>1, ListingType DEF MigrateWithDirectoryURL
<1>2. CASE \E path \in Paths : ExecuteWithContentsOfURL(m, path)
  BY <1>2, ListedJobs DEF ExecuteWithContentsOfURL
<1>3. CASE \E v \in Versions : MigrationExecute(m, v)
  BY <1>3, ListedJobs DEF MigrationExecute
<1>4. CASE \E v \in Versions : MigrationExecuteUndo(m, v)
  BY <1>4, ListedJobs DEF MigrationExecuteUndo
<1>5. QED
  BY <1>1, <1>2, <1>3, <1>4 DEF Call

LEMMA CallType == ASSUME TInv, NEW m \in Migrators, Call(m) PROVE TInv'
<1>1. ASSUME NEW job \in Jobs PROVE <<job>> \in Seq(Jobs) /\ <<job>> # <<>>
  OBVIOUS
<1>2. QED
  BY <1>1, CallStarts, StartType

LEMMA DoneTypes ==
  ASSUME TInv, NEW m \in Migrators, ~At(m, "idle"), NEW status \in Statuses,
         DoneWithFile(m, status)
  PROVE  mig' \in [Migrators -> Local] /\ HasWork'
  BY DoneMoves DEF Moves

LEMMA ReturnTypes ==
  ASSUME TInv, NEW m \in Migrators, NEW status \in Statuses, Return(m, status)
  PROVE  mig' \in [Migrators -> Local] /\ HasWork'
  BY ReturnMoves DEF Moves

LEMMA SettledTypes ==
  ASSUME TInv, NEW m \in Migrators, ~At(m, "idle"), NEW status \in Statuses,
         TableSettled(m, status)
  PROVE  mig' \in [Migrators -> Local] /\ HasWork'
  BY SettledMoves, DoneTypes DEF Moves

LEMMA AnsweredTypes ==
  ASSUME TInv, NEW m \in Migrators, ~At(m, "idle"), NEW did \in BOOLEAN, Answered(m, did)
  PROVE  mig' \in [Migrators -> Local] /\ HasWork'
  BY AnsweredMoves, DoneTypes, LocalFields DEF Moves

LEMMA StepType == ASSUME TInv, NEW m \in Migrators, Step(m) PROVE TInv'
<1> USE TInvParts
<1>1. {"ok", "error", "busy", "crashed"} \subseteq Statuses
  BY DEF Statuses
<1>2. ASSUME LookForTable(m) PROVE TInv'
  <2>1. ~At(m, "idle") /\ Stored'
    BY <1>2 DEF LookForTable, At, Stored
  <2>2. mig' \in [Migrators -> Local] /\ HasWork'
    <3>1. ASSUME Goto(m, "create", mig[m].why) PROVE mig' \in [Migrators -> Local] /\ HasWork'
      BY <2>1, <3>1, LocalFields, GotoMoves DEF Moves
    <3>2. QED
      BY <1>1, <1>2, <2>1, <3>1, SettledTypes, ReturnTypes DEF LookForTable, DoesNotCompile
  <2>3. QED
    BY <2>1, <2>2
<1>3. ASSUME CreateTable(m) PROVE TInv'
  <2>1. ~At(m, "idle") /\ Stored'
    BY <1>3 DEF CreateTable, At, Stored
  <2>2. QED
    BY <1>1, <1>3, <2>1, SettledTypes DEF CreateTable
<1>4. ASSUME Ask(m) PROVE TInv'
  <2>1. ~At(m, "idle") /\ Stored'
    BY <1>4 DEF Ask, At, Stored
  <2>2. (rows[Version(m)] > 0) \in BOOLEAN /\ FALSE \in BOOLEAN
    OBVIOUS
  <2>3. QED
    BY <1>1, <1>4, <2>1, <2>2, AnsweredTypes, ReturnTypes DEF Ask, DoesNotCompile
<1>5. ASSUME RunStatement(m) PROVE TInv'
  <2>1. ~At(m, "idle")
    BY <1>5 DEF RunStatement, At
  <2>2. Current(m) \in Jobs /\ Object(m) \in Objects
    BY <2>1, CurrentJob, LocalFields DEF Object, Objects
  <2>3. \A status \in {"error", "busy"} :
          SqlFailed(m, status) => mig' \in [Migrators -> Local] /\ HasWork'
    BY <1>1, <2>1, FailedMoves DEF Moves
  <2>4. ASSUME StatementSucceeds(m), LastStatement(m),
               mig' = [mig EXCEPT ![m] = [mig[m] EXCEPT
                         !.step = "look", !.why = "record", !.status = "ok"]]
        PROVE  mig' \in [Migrators -> Local] /\ HasWork'
    BY <1>1, <2>1, <2>4, RecordMoves DEF Moves
  <2>5. ASSUME ~LastStatement(m), mig' = [mig EXCEPT ![m].part = @ + 1]
        PROVE  mig' \in [Migrators -> Local] /\ HasWork'
    BY <2>1, <2>5, NextPartMoves DEF Moves
  <2>6. mig' \in [Migrators -> Local] /\ HasWork'
    BY <1>5, <2>3, <2>4, <2>5 DEF RunStatement
  <2>7. objects' \subseteq Objects /\ ran' \subseteq Jobs
    BY <1>5, <2>2 DEF RunStatement, StatementSucceeds, Stored
  <2>8. QED
    BY <1>5, <2>6, <2>7 DEF RunStatement, Stored
<1>6. ASSUME InsertVersion(m) PROVE TInv'
  <2>1. ~At(m, "idle") /\ mig[m].status \in Statuses
    BY <1>6, LocalFields DEF InsertVersion, At
  <2>2. mig' \in [Migrators -> Local] /\ HasWork'
    BY <1>6, <2>1, DoneTypes DEF InsertVersion
  <2>3. rows' \in [Versions -> Nat]
    <3> DEFINE stored == Version(m)
    <3>1. rows \in [Versions -> Nat] /\ rows' = [rows EXCEPT ![stored] = rows[stored] + 1]
      BY <1>6 DEF InsertVersion, Stored
    <3> HIDE DEF stored
    <3>2. stored \in Versions => rows[stored] + 1 \in Nat
      BY <3>1
    <3>3. QED
      BY <3>1, <3>2
  <2>4. QED
    BY <1>6, <2>2, <2>3 DEF InsertVersion, Stored
<1>7. ASSUME DeleteVersion(m) PROVE TInv'
  <2>1. ~At(m, "idle") /\ mig[m].status \in Statuses
    BY <1>7, LocalFields DEF DeleteVersion, At
  <2>2. mig' \in [Migrators -> Local] /\ HasWork'
    BY <1>7, <2>1, DoneTypes DEF DeleteVersion
  <2>3. rows' \in [Versions -> Nat]
    BY <1>7 DEF DeleteVersion, Stored
  <2>4. QED
    BY <1>7, <2>2, <2>3 DEF DeleteVersion, Stored
<1>8. ASSUME RecordRefused(m) PROVE TInv'
  <2>1. ~At(m, "idle") /\ mig[m].status \in Statuses /\ Stored'
    BY <1>8, LocalFields DEF RecordRefused, At, Stored
  <2>2. QED
    BY <1>1, <1>8, <2>1, DoneTypes, ReturnTypes DEF RecordRefused, DoesNotCompile
<1>9. QED
  BY <1>2, <1>3, <1>4, <1>5, <1>6, <1>7, <1>8 DEF Step

LEMMA NextType == TInv /\ [Next]_vars => TInv'
<1>1. ASSUME TInv, NEW m \in Migrators, Crash(m) PROVE TInv'
  <2>1. mig' \in [Migrators -> Local] /\ HasWork'
    BY <1>1, ReturnTypes DEF Crash, Statuses
  <2>2. crashes' \in 0 .. MaxCrashes
    <3>1. crashes \in 0 .. MaxCrashes /\ MaxCrashes \in Nat /\ crashes < MaxCrashes
          /\ crashes' = crashes + 1
      BY <1>1, ConstantsAssumption DEF Crash, TInv, TypeOK
    <3>2. QED
      BY <3>1
  <2>3. QED
    BY <1>1, <2>1, <2>2, TInvParts DEF Crash, Stored
<1>2. CASE UNCHANGED vars
  BY <1>2 DEF vars, TInv, TypeOK, HasWork, At
<1>3. QED
  BY <1>1, <1>2, CallType, StepType DEF Next

\* Whatever the processes do, in whatever order and however often they are killed,
\* the database and their local variables keep their types, and a process in the
\* API has a migration at hand.
THEOREM TypeCorrect == Spec => []TypeOK
<1>1. Spec => []TInv
  BY InitTInv, NextType, PTL DEF Spec
<1>2. QED
  BY <1>1, PTL DEF TInv

-----------------------------------------------------------------------------
(* One process that has the database to itself.                              *)

Alone(m) == Migrators = {m} /\ ~Others

SettledIn(job, ledger) == ledger[StoredAs[job.version]] > 0 \/ job.version = NoVersion
Among(job, s) == \E i \in DOMAIN s : s[i] = job

\* Past the first look, the current migration has a version.
Versioned(m) ==
  /\ (At(m, "look") \/ At(m, "create")) /\ mig[m].why # "start" => Current(m).version # NoVersion
  /\ mig[m].step \in {"ask", "sql", "insert", "delete"} => Current(m).version # NoVersion

\* What the last question to the ledger was answered still holds, since nobody else
\* writes to it.
AskedFor(m) ==
  /\ At(m, "sql") => (mig[m].entry = "undo") = Recorded(Current(m).version)
  /\ At(m, "insert") => mig[m].entry # "undo" /\ rows[Version(m)] = 0
  /\ At(m, "delete") => mig[m].entry = "undo"

OneRow == \A v \in Versions : rows[v] <= 1

\* A run over the directory has settled every file that is not left to it.
Accounted(m) ==
  mig[m].entry = "directory" => \A job \in Listed :
    /\ At(m, "idle") /\ mig[m].status = "ok" => SettledIn(job, rows)
    /\ ~At(m, "idle") => SettledIn(job, rows) \/ Among(job, mig[m].todo)

AInv(m) == TInv /\ Versioned(m) /\ AskedFor(m) /\ OneRow /\ Accounted(m)

LEMMA NoLocks == ASSUME NEW m, Alone(m) PROVE ~LockedForReading(m) /\ ~LockedForWriting(m)
  BY DEF Alone, LockedForReading, LockedForWriting

LEMMA VersionOf ==
  ASSUME TInv, NEW m \in Migrators, ~At(m, "idle"), Current(m).version # NoVersion
  PROVE  Version(m) \in Versions /\ (Recorded(Current(m).version) <=> rows[Version(m)] > 0)
<1>1. Current(m).version \in Versions
  BY CurrentJob
<1>2. QED
  BY <1>1, ConstantsAssumption DEF Version, Recorded

LEMMA LeftOver ==
  ASSUME NEW T, NEW s \in Seq(T), NEW x, Among(x, s), x # Head(s)
  PROVE  Len(s) > 1 /\ Among(x, Tail(s))
<1>1. PICK i \in DOMAIN s : s[i] = x
  BY DEF Among
<1>2. s # <<>> /\ DOMAIN s = 1 .. Len(s) /\ Head(s) = s[1] /\ Len(s) \in Nat
  BY <1>1
<1>3. i \in 2 .. Len(s)
  BY <1>1, <1>2
<1>4. DOMAIN Tail(s) = 1 .. Len(s) - 1 /\ \A k \in 1 .. Len(s) - 1 : Tail(s)[k] = s[k + 1]
  BY <1>2
<1>5. i - 1 \in 1 .. Len(s) - 1 /\ (i - 1) + 1 = i
  BY <1>2, <1>3
<1>6. i - 1 \in DOMAIN Tail(s) /\ Tail(s)[i - 1] = x
  BY <1>1, <1>4, <1>5
<1>7. QED
  BY <1>2, <1>3, <1>6 DEF Among

\* A migration that is done with leaves the invariant, if it is settled or the run
\* is not over the directory or has failed.
LEMMA DoneKeeps ==
  ASSUME NEW m \in Migrators, AInv(m), ~At(m, "idle"), NEW status \in Statuses,
         DoneWithFile(m, status), OneRow',
         \/ mig[m].entry # "directory"
         \/ /\ \A job \in Listed : SettledIn(job, rows) => SettledIn(job, rows')
            /\ status = "ok" => SettledIn(Current(m), rows')
  PROVE  Versioned(m)' /\ AskedFor(m)' /\ OneRow' /\ Accounted(m)'
<1>1. TInv /\ mig[m].todo \in Seq(Jobs) /\ mig[m].todo # <<>>
  BY LocalFields DEF AInv, TInv, HasWork
<1>2. CASE status = "ok" /\ Len(mig[m].todo) > 1
  <2>1. Moves(m, "look", "start", Tail(mig[m].todo), "ok")
    BY <1>1, <1>2, DoneMoves
  <2>2. /\ mig'[m].step = "look" /\ mig'[m].why = "start" /\ mig'[m].entry = mig[m].entry
        /\ mig'[m].todo = Tail(mig[m].todo)
    BY <2>1 DEF Moves, Is
  <2>3. ASSUME mig[m].entry = "directory", NEW job \in Listed
        PROVE  SettledIn(job, rows') \/ Among(job, Tail(mig[m].todo))
    <3>1. SettledIn(job, rows) \/ Among(job, mig[m].todo)
      BY <2>3 DEF AInv, Accounted
    <3>2. CASE SettledIn(job, rows) \/ job = Current(m)
      BY <1>2, <2>3, <3>2
    <3>3. CASE ~SettledIn(job, rows) /\ job # Current(m)
      BY <1>1, <3>1, <3>3, LeftOver DEF Current
    <3>4. QED
      BY <3>2, <3>3
  <2>4. Accounted(m)'
    BY <2>2, <2>3 DEF Accounted, At, Among
  <2>5. QED
    BY <2>2, <2>4 DEF Versioned, AskedFor, At
<1>3. CASE ~(status = "ok" /\ Len(mig[m].todo) > 1)
  <2>1. Moves(m, "idle", mig[m].why, <<>>, status)
    BY <1>1, <1>3, DoneMoves
  <2>2. mig'[m].step = "idle" /\ mig'[m].status = status /\ mig'[m].entry = mig[m].entry
    BY <2>1 DEF Moves, Is
  <2>3. ASSUME mig[m].entry = "directory", status = "ok", NEW job \in Listed
        PROVE  SettledIn(job, rows')
    <3>1. SettledIn(job, rows) \/ Among(job, mig[m].todo)
      BY <2>3 DEF AInv, Accounted
    <3>2. CASE SettledIn(job, rows) \/ job = Current(m)
      BY <2>3, <3>2
    <3>3. CASE ~SettledIn(job, rows) /\ job # Current(m)
      BY <1>1, <1>3, <2>3, <3>1, <3>3, LeftOver DEF Current
    <3>4. QED
      BY <3>2, <3>3
  <2>4. Accounted(m)'
    BY <2>2, <2>3 DEF Accounted, At
  <2>5. QED
    BY <2>2, <2>4 DEF Versioned, AskedFor, At
<1>4. QED
  BY <1>2, <1>3

\* So does a run that ends with anything but kSQLite3StatusOK.
LEMMA FailureKeeps ==
  ASSUME NEW m \in Migrators, AInv(m), NEW status \in Statuses \ {"ok"}, Return(m, status),
         OneRow'
  PROVE  Versioned(m)' /\ AskedFor(m)' /\ OneRow' /\ Accounted(m)'
<1>1. Moves(m, "idle", mig[m].why, <<>>, status)
  BY ReturnMoves DEF AInv
<1>2. mig'[m].step = "idle" /\ mig'[m].status # "ok"
  BY <1>1 DEF Moves, Is
<1>3. QED
  BY <1>2 DEF Versioned, AskedFor, Accounted, At

\* The next call for the same migration.
LEMMA SameJob ==
  ASSUME NEW m \in Migrators, AInv(m), ~At(m, "idle"), NEW step, NEW why, NEW status,
         step # "idle", Moves(m, step, why, mig[m].todo, status), rows' = rows
  PROVE  /\ OneRow' /\ Accounted(m)' /\ At(m, step)' /\ mig'[m].step = step
         /\ mig'[m].why = why /\ mig'[m].entry = mig[m].entry
         /\ Current(m)' = Current(m) /\ Version(m)' = Version(m)
         /\ Recorded(Current(m).version)' = Recorded(Current(m).version)
<1>1. /\ mig'[m].step = step /\ mig'[m].why = why /\ mig'[m].entry = mig[m].entry
      /\ mig'[m].todo = mig[m].todo
  BY DEF Moves, Is
<1>2. OneRow'
  BY DEF AInv, OneRow
<1>3. Accounted(m)'
  BY <1>1 DEF AInv, Accounted, SettledIn, Among, At
<1>4. QED
  BY <1>1, <1>2, <1>3 DEF Current, Version, Recorded, At

\* The table is not found, or not looked for.
LEMMA GotoCreateKeeps ==
  ASSUME NEW m \in Migrators, AInv(m), At(m, "look"), Goto(m, "create", mig[m].why),
         rows' = rows
  PROVE  Versioned(m)' /\ AskedFor(m)' /\ OneRow' /\ Accounted(m)'
<1>1. ~At(m, "idle") /\ TInv /\ mig[m].why \in Whys
  BY LocalFields DEF At, AInv
<1>2. Moves(m, "create", mig[m].why, mig[m].todo, mig[m].status)
  BY <1>1, GotoMoves
<1>3. /\ OneRow' /\ Accounted(m)' /\ mig'[m].step = "create" /\ mig'[m].why = mig[m].why
      /\ Current(m)' = Current(m)
  <2>1. "create" # "idle" /\ ~At(m, "idle")
    BY <1>1
  <2>2. rows' = rows
    OBVIOUS
  <2>3. QED
    BY <1>2, <2>1, <2>2, SameJob, SMTT(30)
<1>4. QED
  BY <1>3 DEF AInv, Versioned, AskedFor, At

\* SQLite3MigrationCreateTableIfDoesntExist is over.
LEMMA SettledKeeps ==
  ASSUME NEW m \in Migrators, AInv(m), NEW status \in Statuses,
         At(m, "look") \/ At(m, "create"), TableSettled(m, status), rows' = rows
  PROVE  Versioned(m)' /\ AskedFor(m)' /\ OneRow' /\ Accounted(m)'
<1>1. TInv /\ ~At(m, "idle") /\ OneRow'
  BY DEF AInv, At, OneRow
<1>2. CASE mig[m].why = "start" /\ Current(m).version = NoVersion /\ DoneWithFile(m, status)
  BY <1>1, <1>2, DoneKeeps DEF SettledIn
<1>3. CASE /\ mig[m].why = "start" /\ Current(m).version # NoVersion
           /\ Moves(m, "look", "check", mig[m].todo, status)
  <2>1. /\ OneRow' /\ Accounted(m)' /\ mig'[m].step = "look" /\ Current(m)' = Current(m)
    BY <1>1, <1>3, SameJob
  <2>2. QED
    BY <1>3, <2>1 DEF Versioned, AskedFor, At
<1>4. CASE mig[m].why # "start" /\ Moves(m, "ask", mig[m].why, mig[m].todo, mig[m].status)
  <2>1. /\ OneRow' /\ Accounted(m)' /\ mig'[m].step = "ask" /\ Current(m)' = Current(m)
    BY <1>1, <1>4, SameJob
  <2>2. Current(m).version # NoVersion
    BY <1>4 DEF AInv, Versioned
  <2>3. QED
    BY <2>1, <2>2 DEF Versioned, AskedFor, At
<1>5. QED
  BY <1>1, <1>2, <1>3, <1>4, SettledMoves

\* SQLite3MigrationDidMigratedVersion has answered, and truly.
LEMMA AnsweredKeeps ==
  ASSUME NEW m \in Migrators, AInv(m), At(m, "ask"), Answered(m, rows[Version(m)] > 0),
         rows' = rows
  PROVE  Versioned(m)' /\ AskedFor(m)' /\ OneRow' /\ Accounted(m)'
<1> DEFINE did == rows[Version(m)] > 0
<1>1. TInv /\ ~At(m, "idle") /\ OneRow' /\ mig[m].status \in Statuses /\ did \in BOOLEAN
  BY LocalFields DEF AInv, At, OneRow
<1>2. /\ Current(m).version # NoVersion /\ Version(m) \in Versions
      /\ Recorded(Current(m).version) <=> did
  BY <1>1, VersionOf DEF AInv, Versioned, At
<1>3. rows[Version(m)] \in Nat
  BY <1>1, <1>2 DEF TInv, TypeOK
<1>4. CASE (mig[m].entry = "undo") # did /\ DoneWithFile(m, mig[m].status)
  <2>1. mig[m].entry # "directory" \/ SettledIn(Current(m), rows')
    BY <1>4 DEF SettledIn, Version
  <2>2. QED
    BY <1>1, <1>4, <2>1, DoneKeeps
<1>5. CASE /\ (mig[m].entry = "undo") = did
           /\ \E step \in {"sql", "insert", "delete"} :
                /\ Moves(m, step, mig[m].why, mig[m].todo, mig[m].status)
                /\ step = "insert" => mig[m].entry # "undo"
                /\ step = "delete" => mig[m].entry = "undo"
  <2>1. PICK step \in {"sql", "insert", "delete"} :
                /\ Moves(m, step, mig[m].why, mig[m].todo, mig[m].status)
                /\ step = "insert" => mig[m].entry # "undo"
                /\ step = "delete" => mig[m].entry = "undo"
    BY <1>5
  <2>2. /\ OneRow' /\ Accounted(m)' /\ mig'[m].step = step
        /\ mig'[m].entry = mig[m].entry
        /\ Current(m)' = Current(m) /\ Version(m)' = Version(m)
        /\ Recorded(Current(m).version)' = Recorded(Current(m).version)
    BY <1>1, <2>1, SameJob
  <2>3. AskedFor(m)'
    <3>1. (mig'[m].entry = "undo") = Recorded(Current(m).version)'
      <4>1. Recorded(Current(m).version) = did
        BY <1>2 DEF Recorded
      <4>2. QED
        BY <1>5, <2>2, <4>1
    <3>2. step = "insert" => mig'[m].entry # "undo" /\ rows'[Version(m)'] = 0
      <4>1. step = "insert" => ~did
        BY <1>5, <2>1
      <4>2. QED
        BY <1>3, <2>1, <2>2, <4>1
    <3>3. step = "delete" => mig'[m].entry = "undo"
      BY <2>1, <2>2
    <3>4. QED
      BY <2>2, <3>1, <3>2, <3>3 DEF AskedFor, At
  <2>4. QED
    BY <1>2, <2>1, <2>2, <2>3 DEF Versioned, At
<1> HIDE DEF did
<1>6. QED
  BY <1>1, <1>4, <1>5, AnsweredMoves DEF did

LEMMA InitAInv == ASSUME NEW m \in Migrators, Init PROVE AInv(m)
<1>1. TInv
  BY InitTInv
<1>2. mig[m].step = "idle" /\ mig[m].status = "none" /\ OneRow
  BY DEF Init, Idle, OneRow
<1>3. QED
  BY <1>1, <1>2 DEF AInv, Versioned, AskedFor, Accounted, At

LEMMA CallKeeps == ASSUME NEW m \in Migrators, AInv(m), Call(m) PROVE AInv(m)'
<1>1. ASSUME NEW entry, NEW todo \in Seq(Jobs), todo # <<>>, Start(m, entry, todo),
             entry = "directory" => \A job \in Listed : Among(job, todo)
      PROVE  AInv(m)'
  <2>1. TInv' /\ Is(mig'[m], "look", "start", entry, todo, "error")
    BY <1>1, StartType DEF AInv
  <2>2. /\ mig'[m].step = "look" /\ mig'[m].why = "start" /\ mig'[m].entry = entry
        /\ mig'[m].todo = todo
    BY <2>1 DEF Is
  <2>3. OneRow'
    BY <1>1 DEF Start, AInv, OneRow
  <2>4. Accounted(m)'
    BY <1>1, <2>2 DEF Accounted, Among, At
  <2>5. QED
    BY <2>1, <2>2, <2>3, <2>4 DEF AInv, Versioned, AskedFor, At
<1>2. ASSUME NEW job \in Jobs PROVE <<job>> \in Seq(Jobs) /\ <<job>> # <<>>
  OBVIOUS
<1>3. \A listing \in Listings, job \in Listed : Among(job, listing)
  BY ListingType DEF Among
<1>4. CASE \E listing \in Listings :
             listing # <<>> /\ listing \in Seq(Jobs) /\ Start(m, "directory", listing)
  BY <1>1, <1>3, <1>4
<1>5. CASE \E entry \in {"file", "execute", "undo"}, job \in Jobs : Start(m, entry, <<job>>)
  BY <1>1, <1>2, <1>5
<1>6. QED
  BY <1>4, <1>5, CallStarts

LEMMA StepKeeps == ASSUME NEW m, Alone(m), AInv(m), Step(m) PROVE AInv(m)'
<1>1. /\ m \in Migrators /\ TInv /\ TInv' /\ ~LockedForReading(m) /\ ~LockedForWriting(m)
      /\ {"ok", "error"} \subseteq Statuses /\ "error" \in Statuses \ {"ok"}
      /\ mig[m].status \in Statuses
  BY NoLocks, StepType, LocalFields DEF AInv, Alone, Statuses
<1> SUFFICES Versioned(m)' /\ AskedFor(m)' /\ OneRow' /\ Accounted(m)'
  BY <1>1 DEF AInv
<1>2. ASSUME LookForTable(m) PROVE Versioned(m)' /\ AskedFor(m)' /\ OneRow' /\ Accounted(m)'
  <2>1. ~At(m, "idle") /\ At(m, "look") /\ rows' = rows
    BY <1>2 DEF LookForTable, At
  <2>2. CASE Goto(m, "create", mig[m].why)
    BY <1>1, <2>1, <2>2, GotoCreateKeeps
  <2>3. CASE TableSettled(m, "ok")
    BY <1>1, <2>1, <2>3, SettledKeeps
  <2>4. QED
    BY <1>1, <1>2, <2>2, <2>3 DEF LookForTable, DoesNotCompile
<1>3. ASSUME CreateTable(m) PROVE Versioned(m)' /\ AskedFor(m)' /\ OneRow' /\ Accounted(m)'
  BY <1>1, <1>3, SettledKeeps DEF CreateTable
<1>4. ASSUME Ask(m) PROVE Versioned(m)' /\ AskedFor(m)' /\ OneRow' /\ Accounted(m)'
  <2>1. /\ At(m, "ask") /\ rows' = rows /\ OneRow'
        /\ Return(m, "crashed") \/ Answered(m, rows[Version(m)] > 0)
    BY <1>1, <1>4 DEF Ask, DoesNotCompile, AInv, OneRow
  <2>2. "crashed" \in Statuses \ {"ok"}
    BY DEF Statuses
  <2>3. CASE Return(m, "crashed")
    BY <1>1, <2>1, <2>2, <2>3, FailureKeeps
  <2>4. CASE Answered(m, rows[Version(m)] > 0)
    BY <1>1, <2>1, <2>4, AnsweredKeeps
  <2>5. QED
    BY <2>1, <2>3, <2>4
<1>5. ASSUME RunStatement(m) PROVE Versioned(m)' /\ AskedFor(m)' /\ OneRow' /\ Accounted(m)'
  <2>1. /\ At(m, "sql") /\ ~At(m, "idle") /\ rows' = rows /\ OneRow'
        /\ Current(m).version # NoVersion
        /\ (mig[m].entry = "undo") = Recorded(Current(m).version)
    BY <1>5 DEF RunStatement, AInv, OneRow, At, Versioned, AskedFor
  <2>2. ASSUME NEW status, Moves(m, "look", "record", mig[m].todo, status)
        PROVE  Versioned(m)' /\ AskedFor(m)' /\ Accounted(m)'
    <3>1. /\ Accounted(m)' /\ mig'[m].step = "look" /\ Current(m)' = Current(m)
      BY <1>1, <2>1, <2>2, SameJob
    <3>2. QED
      BY <2>1, <3>1 DEF Versioned, AskedFor, At
  <2>3. ASSUME ~LastStatement(m), mig' = [mig EXCEPT ![m].part = @ + 1]
        PROVE  Versioned(m)' /\ AskedFor(m)' /\ Accounted(m)'
    <3>1. Moves(m, "sql", mig[m].why, mig[m].todo, mig[m].status)
      BY <1>1, <2>1, <2>3, NextPartMoves DEF At
    <3>2. /\ Accounted(m)' /\ mig'[m].step = "sql" /\ Current(m)' = Current(m)
          /\ mig'[m].entry = mig[m].entry
          /\ Recorded(Current(m).version)' = Recorded(Current(m).version)
      BY <1>1, <2>1, <3>1, SameJob
    <3>3. QED
      BY <2>1, <3>2 DEF Versioned, AskedFor, At
  <2>4. ASSUME mig' = [mig EXCEPT ![m] = [mig[m] EXCEPT
                         !.step = "look", !.why = "record", !.status = "ok"]]
        PROVE  Versioned(m)' /\ AskedFor(m)' /\ Accounted(m)'
    BY <1>1, <2>1, <2>2, <2>4, RecordMoves
  <2>5. ASSUME SqlFailed(m, "error")
        PROVE  Versioned(m)' /\ AskedFor(m)' /\ Accounted(m)'
    <3>1. Return(m, "error") \/ Moves(m, "look", "record", mig[m].todo, "error")
      BY <1>1, <2>1, <2>5, FailedMoves DEF SqlFailed
    <3>2. QED
      BY <1>1, <2>1, <2>2, <3>1, FailureKeeps
  <2>6. QED
    BY <1>1, <1>5, <2>1, <2>3, <2>4, <2>5 DEF RunStatement
<1>6. ASSUME InsertVersion(m) PROVE Versioned(m)' /\ AskedFor(m)' /\ OneRow' /\ Accounted(m)'
  <2>1. /\ ~At(m, "idle") /\ Current(m).version # NoVersion /\ rows[Version(m)] = 0
        /\ DoneWithFile(m, mig[m].status)
    BY <1>6 DEF InsertVersion, AInv, At, Versioned, AskedFor
  <2>2. Version(m) \in Versions
    BY <1>1, <2>1, VersionOf
  <2>3. /\ rows' \in [Versions -> Nat] /\ rows'[Version(m)] = 1
        /\ \A v \in Versions : v # Version(m) => rows'[v] = rows[v]
    BY <1>1, <1>6, <2>1, <2>2 DEF InsertVersion, TInv, TypeOK
  <2>4. OneRow'
    BY <2>3 DEF AInv, OneRow
  <2>5. SettledIn(Current(m), rows')
    BY <2>3 DEF SettledIn, Version
  <2>6. ASSUME NEW job \in Listed, SettledIn(job, rows) PROVE SettledIn(job, rows')
    <3>1. CASE job.version = NoVersion
      BY <3>1 DEF SettledIn
    <3>2. CASE job.version # NoVersion
      <4>1. StoredAs[job.version] \in Versions
        BY <3>2, ListedJobs, JobVersion, ConstantsAssumption
      <4>2. QED
        BY <2>3, <2>6, <3>2, <4>1 DEF SettledIn
    <3>3. QED
      BY <3>1, <3>2
  <2>7. QED
    BY <1>1, <2>1, <2>4, <2>5, <2>6, DoneKeeps
<1>7. ASSUME DeleteVersion(m) PROVE Versioned(m)' /\ AskedFor(m)' /\ OneRow' /\ Accounted(m)'
  <2>1. /\ ~At(m, "idle") /\ mig[m].entry = "undo" /\ DoneWithFile(m, mig[m].status)
    BY <1>7 DEF DeleteVersion, AInv, At, AskedFor
  <2>2. OneRow'
    BY <1>1, <1>7 DEF DeleteVersion, AInv, OneRow, TInv, TypeOK
  <2>3. QED
    BY <1>1, <2>1, <2>2, DoneKeeps
<1>8. ~RecordRefused(m)
  BY <1>1 DEF RecordRefused, DoesNotCompile
<1>9. QED
  BY <1>2, <1>3, <1>4, <1>5, <1>6, <1>7, <1>8 DEF Step

LEMMA NextKeeps == ASSUME NEW m, Alone(m), AInv(m), [Next]_vars PROVE AInv(m)'
<1>1. m \in Migrators /\ Migrators = {m}
  BY DEF Alone
<1>2. CASE Crash(m)
  <2>1. TInv' /\ Return(m, "crashed") /\ OneRow'
    BY <1>2, NextType DEF AInv, Crash, OneRow
  <2>2. QED
    BY <1>1, <2>1, FailureKeeps DEF AInv, Statuses
<1>3. CASE UNCHANGED vars
  <2>1. TInv'
    BY <1>3, NextType DEF AInv
  <2>2. QED
    BY <1>3, <2>1 DEF vars, AInv, Versioned, AskedFor, OneRow, Accounted, At, Current, Version,
       Recorded, SettledIn, Among
<1>4. QED
  BY <1>1, <1>2, <1>3, CallKeeps, StepKeeps DEF Next

\* A process that has the database to itself runs SQL forward only for a version that
\* is not recorded and undoes only one that is, and leaves no version two rows,
\* whatever the files are called and wherever it was killed.
THEOREM AloneAgreesWithLedger ==
  ASSUME NEW m, Alone(m)
  PROVE  Spec => []SqlAgreesWithLedger
<1>1. Init => AInv(m)
  BY InitAInv DEF Alone
<1>2. AInv(m) /\ [Next]_vars => AInv(m)'
  BY NextKeeps
<1>3. AInv(m) => SqlAgreesWithLedger
  BY DEF AInv, AskedFor, OneRow, SqlAgreesWithLedger, Alone
<1>4. QED
  BY <1>1, <1>2, <1>3, PTL DEF Spec

\* When its run over the directory returns kSQLite3StatusOK, every file that has a
\* version is recorded.
THEOREM AloneOkMeansMigrated ==
  ASSUME NEW m, Alone(m)
  PROVE  Spec => []OkMeansMigrated
<1>1. Init => AInv(m)
  BY InitAInv DEF Alone
<1>2. AInv(m) /\ [Next]_vars => AInv(m)'
  BY NextKeeps
<1>3. AInv(m) => OkMeansMigrated
  BY DEF AInv, Accounted, SettledIn, Recorded, OkMeansMigrated, Migrated, Alone
<1>4. QED
  BY <1>1, <1>2, <1>3, PTL DEF Spec

-----------------------------------------------------------------------------
(* The ledger, with forward migrations only.                                 *)

Forward == EntryPoints \subseteq {"directory"} /\ \A name \in Names : GetType(name) # "undo"

CompleteIn(script, objs) == \A k \in 1 .. Parts : <<script, k>> \in objs

\* What the local variables of a process in the API promise: it is on its way
\* through the directory, it records only what it has performed, and in the middle
\* of a file it has performed the statements before.
Sound(l, objs) ==
  l.step # "idle" =>
    /\ l.entry = "directory"
    /\ \A i \in DOMAIN l.todo : l.todo[i] \in Listed
    /\ l.why # "start" => Head(l.todo).version # NoVersion
    /\ l.step \in {"ask", "sql", "insert", "delete"} => l.why # "start"
    /\ l.step \in {"insert", "delete"} => l.why = "record" /\ l.step = "insert"
    /\ l.why = "record" => CompleteIn(Head(l.todo).script, objs)
    /\ l.step = "sql" => \A k \in 1 .. l.part - 1 : <<Head(l.todo).script, k>> \in objs

AllSound == \A m \in Migrators : Sound(mig[m], objects)

LInv == TInv /\ AllSound /\ LedgerIsTrue

-----------------------------------------------------------------------------
(* Listings without undo files.                                              *)

LEMMA ListedIsForward == ASSUME Forward, NEW job \in Listed PROVE job.kind = "up"
<1>1. PICK n \in Names : GetType(n) # "unknown" /\ job = FileJob([dotted |-> FALSE, name |-> n])
  BY DEF Listed
<1>2. job.kind = GetType(n)
  BY <1>1 DEF FileJob, Job
<1>3. QED
  BY <1>1, <1>2 DEF Forward, GetType

LEMMA ListingIsListed ==
  ASSUME NEW listing \in Listings
  PROVE  \A i \in DOMAIN listing : listing[i] \in Listed
  BY DEF Listings

LEMMA TailIsListed ==
  ASSUME NEW s \in Seq(Jobs), Len(s) > 1, \A i \in DOMAIN s : s[i] \in Listed
  PROVE  \A i \in DOMAIN Tail(s) : Tail(s)[i] \in Listed
<1>1. /\ DOMAIN Tail(s) = 1 .. Len(s) - 1 /\ DOMAIN s = 1 .. Len(s) /\ Len(s) \in Nat
      /\ \A k \in 1 .. Len(s) - 1 : Tail(s)[k] = s[k + 1]
  <2>1. s # <<>>
    OBVIOUS
  <2>2. QED
    BY <2>1
<1>2. ASSUME NEW i \in 1 .. Len(s) - 1 PROVE i + 1 \in 1 .. Len(s)
  BY <1>1
<1>3. QED
  BY <1>1, <1>2

LEMMA CurrentIsListed ==
  ASSUME LInv, NEW m \in Migrators, ~At(m, "idle")
  PROVE  Current(m) \in Listed
<1>1. mig[m].todo \in Seq(Jobs) /\ mig[m].todo # <<>>
  BY LocalFields DEF LInv, TInv, HasWork
<1>2. 1 \in DOMAIN mig[m].todo /\ Current(m) = mig[m].todo[1]
  BY <1>1 DEF Current
<1>3. QED
  BY <1>2 DEF LInv, AllSound, Sound, At

-----------------------------------------------------------------------------
(* What a step does to the process that takes it, and to the others.         *)

\* A process that moves on, but not into the SQL of a file.
LEMMA MovesSound ==
  ASSUME LInv, NEW m \in Migrators, NEW step, NEW why, NEW todo, NEW status, NEW objs,
         Moves(m, step, why, todo, status), step # "sql",
         step # "idle" =>
           /\ mig[m].entry = "directory"
           /\ \A i \in DOMAIN todo : todo[i] \in Listed
           /\ why # "start" => Head(todo).version # NoVersion
           /\ step \in {"ask", "insert", "delete"} => why # "start"
           /\ step \in {"insert", "delete"} => why = "record" /\ step = "insert"
           /\ why = "record" => CompleteIn(Head(todo).script, objs)
  PROVE  Sound(mig'[m], objs)
  BY DEF Moves, Is, Sound

\* What is known of a process in the API.
LEMMA SoundFacts ==
  ASSUME LInv, NEW m \in Migrators, ~At(m, "idle")
  PROVE  /\ mig[m].entry = "directory"
         /\ \A i \in DOMAIN mig[m].todo : mig[m].todo[i] \in Listed
         /\ mig[m].why # "start" => Current(m).version # NoVersion
         /\ mig[m].step \in {"ask", "sql", "insert", "delete"} => mig[m].why # "start"
         /\ mig[m].step \in {"insert", "delete"} => mig[m].why = "record" /\ At(m, "insert")
         /\ mig[m].why = "record" => CompleteIn(Current(m).script, objects)
         /\ At(m, "sql") => \A k \in 1 .. mig[m].part - 1 : <<Current(m).script, k>> \in objects
  BY DEF LInv, AllSound, Sound, At, Current

LEMMA ReturnSound ==
  ASSUME LInv, NEW m \in Migrators, NEW status \in Statuses, NEW objs, Return(m, status)
  PROVE  Sound(mig'[m], objs)
  BY ReturnMoves, MovesSound DEF LInv

LEMMA DoneSound ==
  ASSUME LInv, NEW m \in Migrators, ~At(m, "idle"), NEW status \in Statuses, NEW objs,
         DoneWithFile(m, status)
  PROVE  Sound(mig'[m], objs)
<1>1. CASE Moves(m, "look", "start", Tail(mig[m].todo), "ok") /\ Len(mig[m].todo) > 1
  <2>1. \A i \in DOMAIN Tail(mig[m].todo) : Tail(mig[m].todo)[i] \in Listed
    BY <1>1, SoundFacts, LocalFields, TailIsListed DEF LInv
  <2>2. QED
    BY <1>1, <2>1, SoundFacts, MovesSound
<1>2. CASE Moves(m, "idle", mig[m].why, <<>>, status)
  BY <1>2, MovesSound
<1>3. QED
  BY <1>1, <1>2, DoneMoves DEF LInv

LEMMA SettledSound ==
  ASSUME LInv, NEW m \in Migrators, ~At(m, "idle"), NEW status \in Statuses,
         TableSettled(m, status)
  PROVE  Sound(mig'[m], objects)
<1>1. CASE DoneWithFile(m, status)
  BY <1>1, DoneSound
<1>2. CASE Moves(m, "look", "check", mig[m].todo, status) /\ Current(m).version # NoVersion
  BY <1>2, SoundFacts, MovesSound DEF Current
<1>3. CASE mig[m].why # "start" /\ Moves(m, "ask", mig[m].why, mig[m].todo, mig[m].status)
  BY <1>3, SoundFacts, MovesSound DEF Current
<1>4. QED
  BY <1>1, <1>2, <1>3, SettledMoves DEF LInv

LEMMA AnsweredSound ==
  ASSUME LInv, NEW m \in Migrators, At(m, "ask"), NEW did \in BOOLEAN, Answered(m, did)
  PROVE  Sound(mig'[m], objects)
<1>0. ~At(m, "idle") /\ mig[m].why \in Whys /\ mig[m].status \in Statuses
  BY LocalFields DEF At, LInv
<1>1. mig[m].entry = "directory" /\ mig[m].why # "start"
  BY <1>0, SoundFacts DEF At
<1>2. CASE DoneWithFile(m, mig[m].status)
  BY <1>0, <1>2, DoneSound
<1>3. CASE mig[m].why # "check" /\ Moves(m, "insert", mig[m].why, mig[m].todo, mig[m].status)
  <2>1. mig[m].why = "record"
    BY <1>0, <1>1, <1>3 DEF Whys
  <2>2. QED
    BY <1>0, <1>3, <2>1, SoundFacts, MovesSound DEF Current
<1>4. CASE Proceed(m) /\ mig[m].why = "check"
  <2> DEFINE l == [mig[m] EXCEPT !.step = "sql", !.part = 1]
  <2>1. mig'[m] = l
    BY <1>4 DEF Proceed, LInv, TInv, TypeOK
  <2>2. /\ l.step = "sql" /\ l.why = "check" /\ l.part = 1
        /\ l.entry = mig[m].entry /\ l.todo = mig[m].todo
    BY <1>4, LocalFields DEF Local, LInv
  <2>3. \A k \in 1 .. l.part - 1 : <<Head(l.todo).script, k>> \in objects
    BY <2>2
  <2>4. /\ \A i \in DOMAIN mig[m].todo : mig[m].todo[i] \in Listed
        /\ Head(mig[m].todo).version # NoVersion
    BY <1>0, <1>1, SoundFacts DEF Current
  <2> HIDE DEF l
  <2>5. Sound(l, objects)
    BY <1>1, <2>2, <2>3, <2>4 DEF Sound
  <2>6. QED
    BY <2>1, <2>5
<1>5. TInv /\ (Proceed(m) \/ DoneWithFile(m, mig[m].status))
  BY DEF Answered, LInv
<1>6. \/ mig[m].why = "check"
      \/ mig[m].why # "check" /\ Moves(m, "insert", mig[m].why, mig[m].todo, mig[m].status)
      \/ DoneWithFile(m, mig[m].status)
  BY <1>0, <1>1, <1>5, AnsweredMoves
<1>7. QED
  BY <1>2, <1>3, <1>4, <1>5, <1>6
-----------------------------------------------------------------------------
(* The step as a whole.                                                      *)

\* The other processes keep their local variables.
OthersStay(m) == \A n \in Migrators \ {m} : mig'[n] = mig[n]

LEMMA ControlIsLocal ==
  ASSUME NEW m \in Migrators, mig \in [Migrators -> Local]
  PROVE  /\ \A l : mig' = [mig EXCEPT ![m] = l] => OthersStay(m)
         /\ \A step, why : Goto(m, step, why) => OthersStay(m)
         /\ \A status : Return(m, status) => OthersStay(m)
         /\ \A status : DoneWithFile(m, status) => OthersStay(m)
         /\ \A status : TableSettled(m, status) => OthersStay(m)
         /\ \A status : SqlFailed(m, status) => OthersStay(m)
         /\ \A did : Answered(m, did) => OthersStay(m)
<1>1. ASSUME NEW l, mig' = [mig EXCEPT ![m] = l] PROVE OthersStay(m)
  BY <1>1 DEF OthersStay
<1>2. ASSUME NEW step, NEW why, Goto(m, step, why) PROVE OthersStay(m)
  BY <1>2 DEF OthersStay, Goto
<1>3. ASSUME NEW status, Return(m, status) PROVE OthersStay(m)
  BY <1>1, <1>3 DEF Return
<1>4. ASSUME NEW status, DoneWithFile(m, status) PROVE OthersStay(m)
  BY <1>1, <1>3, <1>4 DEF DoneWithFile
<1>5. ASSUME NEW status, TableSettled(m, status) PROVE OthersStay(m)
  BY <1>1, <1>2, <1>4, <1>5 DEF TableSettled
<1>6. ASSUME NEW status, SqlFailed(m, status) PROVE OthersStay(m)
  BY <1>1, <1>3, <1>6 DEF SqlFailed
<1>7. ASSUME NEW did, Answered(m, did) PROVE OthersStay(m)
  BY <1>1, <1>4, <1>7 DEF Answered, Proceed
<1>8. QED
  BY <1>1, <1>2, <1>3, <1>4, <1>5, <1>6, <1>7

LEMMA StepIsLocal ==
  ASSUME TInv, NEW m \in Migrators, Call(m) \/ Step(m) \/ Crash(m)
  PROVE  OthersStay(m)
<1>0. mig \in [Migrators -> Local]
  BY DEF TInv, TypeOK
<1>1. CASE Call(m)
  BY <1>0, <1>1, ControlIsLocal DEF Call, MigrateWithDirectoryURL, ExecuteWithContentsOfURL,
     MigrationExecute, MigrationExecuteUndo, Start
<1>2. CASE RunStatement(m)
  <2>1. ASSUME mig' = [mig EXCEPT ![m].part = @ + 1] PROVE OthersStay(m)
    BY <1>0, <2>1 DEF OthersStay
  <2>2. QED
    BY <1>0, <1>2, <2>1, ControlIsLocal DEF RunStatement
<1>3. CASE Crash(m) \/ (Step(m) /\ ~RunStatement(m))
  BY <1>0, <1>3, ControlIsLocal DEF Crash, Step, LookForTable, CreateTable, Ask, InsertVersion,
     DeleteVersion, RecordRefused, DoesNotCompile
<1>4. QED
  BY <1>1, <1>2, <1>3

\* No statement of the SQL of this directory takes an object away.
Grows == objects \subseteq objects'

LEMMA OthersStaySound ==
  ASSUME LInv, NEW m \in Migrators, OthersStay(m), Grows, Sound(mig'[m], objects')
  PROVE  AllSound'
<1>1. ASSUME NEW n \in Migrators, n # m PROVE Sound(mig'[n], objects')
  <2>1. Sound(mig[n], objects) /\ mig'[n] = mig[n]
    BY <1>1 DEF LInv, AllSound, OthersStay
  <2>2. QED
    BY <2>1 DEF Sound, CompleteIn, Grows
<1>2. QED
  BY <1>1 DEF AllSound

LEMMA LedgerStays ==
  ASSUME LedgerIsTrue, Grows, UNCHANGED rows
  PROVE  LedgerIsTrue'
  BY DEF LedgerIsTrue, Grows, Recorded, Complete

LEMMA StartSound ==
  ASSUME Forward, LInv, NEW m \in Migrators, Call(m)
  PROVE  LInv'
<1>1. TInv' /\ Grows /\ LedgerIsTrue' /\ OthersStay(m)
  BY CallType, StepIsLocal, LedgerStays
     DEF LInv, Call, MigrateWithDirectoryURL, ExecuteWithContentsOfURL, MigrationExecute,
         MigrationExecuteUndo, Start, Grows
<1>2. PICK listing \in Listings :
        listing # <<>> /\ listing \in Seq(Jobs) /\ Start(m, "directory", listing)
  BY CallStarts DEF Forward, Start
<1>3. Is(mig'[m], "look", "start", "directory", listing, "error")
  BY <1>2, StartType DEF LInv
<1>4. Sound(mig'[m], objects')
  BY <1>3, ListingIsListed DEF Is, Sound
<1>5. QED
  BY <1>1, <1>4, OthersStaySound DEF LInv

\* The actions that leave the table's rows and the objects as they are.
LEMMA ControlSound ==
  ASSUME LInv, NEW m \in Migrators,
         LookForTable(m) \/ CreateTable(m) \/ Ask(m) \/ RecordRefused(m) \/ Crash(m)
  PROVE  LInv'
<1>1. TInv /\ TInv' /\ OthersStay(m)
  BY StepType, NextType, StepIsLocal DEF LInv, Step, Next
<1>2. Grows /\ LedgerIsTrue' /\ objects' = objects
  BY LedgerStays DEF LInv, LookForTable, CreateTable, Ask, RecordRefused, Crash, Grows
<1>3. ~At(m, "idle") /\ mig[m].status \in Statuses /\ mig[m].why \in Whys
  BY <1>1, LocalFields DEF LookForTable, CreateTable, Ask, RecordRefused, Crash, At
<1>4. {"ok", "error", "busy", "crashed"} \subseteq Statuses
  BY DEF Statuses
<1>5. Sound(mig'[m], objects)
  <2>1. CASE LookForTable(m)
    <3>1. ASSUME Goto(m, "create", mig[m].why) PROVE Sound(mig'[m], objects)
      <4>1. Moves(m, "create", mig[m].why, mig[m].todo, mig[m].status)
        BY <1>1, <1>3, <3>1, GotoMoves
      <4>2. QED
        BY <1>3, <4>1, SoundFacts, MovesSound DEF Current
    <3>2. QED
      BY <1>3, <1>4, <2>1, <3>1, SettledSound, ReturnSound DEF LookForTable, DoesNotCompile
  <2>2. CASE CreateTable(m)
    BY <1>3, <1>4, <2>2, SettledSound DEF CreateTable
  <2>3. CASE Ask(m)
    <3>1. At(m, "ask") /\ (rows[Version(m)] > 0) \in BOOLEAN /\ FALSE \in BOOLEAN
      BY <2>3 DEF Ask
    <3>2. QED
      BY <1>4, <2>3, <3>1, AnsweredSound, ReturnSound DEF Ask, DoesNotCompile
  <2>4. CASE RecordRefused(m)
    BY <1>3, <1>4, <2>4, DoneSound, ReturnSound DEF RecordRefused, DoesNotCompile
  <2>5. CASE Crash(m)
    BY <1>4, <2>5, ReturnSound DEF Crash
  <2>6. QED
    BY <2>1, <2>2, <2>3, <2>4, <2>5
<1>6. QED
  BY <1>1, <1>2, <1>5, OthersStaySound DEF LInv

\* A statement of a file creates its object; the last one completes the file.
LEMMA RunStatementSound ==
  ASSUME Forward, LInv, NEW m \in Migrators, RunStatement(m)
  PROVE  LInv'
<1>1. TInv /\ TInv' /\ OthersStay(m)
  BY StepType, StepIsLocal DEF LInv, Step
<1>2. At(m, "sql") /\ ~At(m, "idle") /\ UNCHANGED rows
  BY DEF RunStatement, At
<1>3. Current(m) \in Listed /\ Current(m).kind = "up"
  BY <1>2, CurrentIsListed, ListedIsForward
<1>4. Grows
  BY <1>3 DEF RunStatement, StatementSucceeds, Grows
<1>5. LedgerIsTrue'
  BY <1>2, <1>4, LedgerStays DEF LInv
<1>6. CASE \E status \in {"error", "busy"} : SqlFailed(m, status)
  <2>1. PICK status \in {"error", "busy"} : SqlFailed(m, status)
    BY <1>6
  <2>2. Return(m, status) /\ status \in Statuses
    BY <1>2, <2>1, SoundFacts DEF SqlFailed, Statuses
  <2>3. QED
    BY <1>1, <1>4, <1>5, <2>2, ReturnSound, OthersStaySound DEF LInv
<1>7. ASSUME StatementSucceeds(m)
      PROVE  \A k \in 1 .. mig[m].part : <<Current(m).script, k>> \in objects'
  <2>1. \A k \in 1 .. mig[m].part - 1 : <<Current(m).script, k>> \in objects
    BY <1>2, SoundFacts
  <2>2. <<Current(m).script, mig[m].part>> \in objects'
    BY <1>3, <1>7 DEF StatementSucceeds, Object
  <2>3. mig[m].part \in 1 .. Parts /\ Parts \in Nat
    BY <1>1, LocalFields, ConstantsAssumption
  <2>4. QED
    BY <1>4, <2>1, <2>2, <2>3 DEF Grows
<1>8. CASE /\ StatementSucceeds(m) /\ LastStatement(m)
           /\ mig' = [mig EXCEPT ![m] = [mig[m] EXCEPT
                         !.step = "look", !.why = "record", !.status = "ok"]]
  <2>1. Moves(m, "look", "record", mig[m].todo, "ok")
    BY <1>1, <1>2, <1>8, RecordMoves DEF Statuses
  <2>2. CompleteIn(Head(mig[m].todo).script, objects')
    BY <1>7, <1>8 DEF CompleteIn, LastStatement, Current
  <2>3. Head(mig[m].todo).version # NoVersion /\ mig[m].entry = "directory"
        /\ \A i \in DOMAIN mig[m].todo : mig[m].todo[i] \in Listed
    BY <1>2, SoundFacts DEF Current, At
  <2>4. Sound(mig'[m], objects')
    BY <2>1, <2>2, <2>3, MovesSound
  <2>5. QED
    BY <1>1, <1>4, <1>5, <2>4, OthersStaySound DEF LInv
<1>9. CASE StatementSucceeds(m) /\ ~LastStatement(m) /\ mig' = [mig EXCEPT ![m].part = @ + 1]
  <2> DEFINE l == [mig[m] EXCEPT !.part = @ + 1]
  <2>1. mig'[m] = l
    BY <1>1, <1>9 DEF TInv, TypeOK
  <2>2. /\ l.step = "sql" /\ l.why = mig[m].why /\ l.part - 1 = mig[m].part
        /\ l.entry = mig[m].entry /\ l.todo = mig[m].todo
    <3>1. mig[m] \in Local /\ mig[m].step = "sql" /\ mig[m].part \in Nat
      BY <1>1, <1>2, LocalFields DEF At
    <3>2. QED
      BY <3>1 DEF Local
  <2>3. /\ mig[m].entry = "directory" /\ mig[m].why # "start"
        /\ \A i \in DOMAIN mig[m].todo : mig[m].todo[i] \in Listed
        /\ Head(mig[m].todo).version # NoVersion
        /\ mig[m].why = "record" => CompleteIn(Head(mig[m].todo).script, objects)
    BY <1>2, SoundFacts DEF Current, At
  <2>4. mig[m].why = "record" => CompleteIn(Head(mig[m].todo).script, objects')
    BY <1>4, <2>3 DEF CompleteIn, Grows
  <2>5. \A k \in 1 .. mig[m].part : <<Head(mig[m].todo).script, k>> \in objects'
    BY <1>7, <1>9 DEF Current
  <2> HIDE DEF l
  <2>6. Sound(l, objects')
    BY <2>2, <2>3, <2>4, <2>5 DEF Sound
  <2>7. QED
    BY <1>1, <1>4, <1>5, <2>1, <2>6, OthersStaySound DEF LInv
<1>10. QED
  BY <1>6, <1>8, <1>9 DEF RunStatement

\* A record is written only by a process that has performed what it records.
LEMMA InsertSound ==
  ASSUME LInv, NEW m \in Migrators, InsertVersion(m) \/ DeleteVersion(m)
  PROVE  LInv'
<1>1. TInv /\ TInv' /\ OthersStay(m)
  BY StepType, StepIsLocal DEF LInv, Step
<1>2. ~At(m, "idle") /\ mig[m].step \in {"insert", "delete"} /\ mig[m].status \in Statuses
  BY <1>1, LocalFields DEF InsertVersion, DeleteVersion, At
<1>3. At(m, "insert") /\ mig[m].why = "record" /\ CompleteIn(Current(m).script, objects)
      /\ Current(m).version # NoVersion /\ Current(m) \in Listed
  BY <1>2, SoundFacts, CurrentIsListed
<1>4. InsertVersion(m) /\ objects' = objects
  BY <1>3 DEF InsertVersion, DeleteVersion, At
<1>5. Sound(mig'[m], objects')
  BY <1>2, <1>4, DoneSound DEF InsertVersion
<1>6. LedgerIsTrue'
  <2> SUFFICES ASSUME NEW v \in Versions, Recorded(v)'
               PROVE  \E job \in Listed : SameVersion(job.version, v) /\ Complete(job.script)'
    BY DEF LedgerIsTrue
  <2>1. StoredAs[v] \in Versions /\ v # NoVersion
    BY ConstantsAssumption
  <2>2. CASE StoredAs[v] = Version(m)
    BY <1>3, <1>4, <2>1, <2>2 DEF Version, SameVersion, Complete, CompleteIn
  <2>3. CASE StoredAs[v] # Version(m)
    <3>1. Recorded(v)
      BY <1>1, <1>4, <2>1, <2>3 DEF Recorded, InsertVersion, TInv, TypeOK
    <3>2. QED
      BY <1>4, <3>1 DEF LInv, LedgerIsTrue, Complete
  <2>4. QED
    BY <2>2, <2>3
<1>7. QED
  BY <1>1, <1>4, <1>5, <1>6, OthersStaySound DEF LInv, Grows

LEMMA InitLInv == Init => LInv
<1> SUFFICES ASSUME Init PROVE LInv
  OBVIOUS
<1>1. TInv
  BY InitTInv
<1>2. AllSound
  BY DEF Init, Idle, AllSound, Sound
<1>3. LedgerIsTrue
  <2>1. \A v \in Versions : rows[StoredAs[v]] = 0
    BY ConstantsAssumption DEF Init
  <2>2. QED
    BY <2>1 DEF LedgerIsTrue, Recorded
<1>4. QED
  BY <1>1, <1>2, <1>3 DEF LInv

LEMMA NextLInv == ASSUME Forward PROVE LInv /\ [Next]_vars => LInv'
<1> SUFFICES ASSUME LInv, [Next]_vars PROVE LInv'
  OBVIOUS
<1>1. CASE UNCHANGED vars
  <2>1. TInv'
    BY <1>1, NextType DEF LInv
  <2>2. QED
    BY <1>1, <2>1 DEF vars, LInv, AllSound, LedgerIsTrue, Recorded, Complete
<1>2. QED
  BY <1>1, StartSound, ControlSound, RunStatementSound, InsertSound DEF Next, Step

\* However many processes migrate one database from a directory without undo files,
\* whatever else locks it, and wherever they are killed or fail: a version that is
\* recorded has all of the objects of one of its files.
THEOREM LedgerHolds == ASSUME Forward PROVE Spec => []LedgerIsTrue
<1>1. LInv => LedgerIsTrue
  BY DEF LInv
<1>2. QED
  BY <1>1, InitLInv, NextLInv, PTL DEF Spec

-----------------------------------------------------------------------------
(* A directory with undo files, and one process that has the database to     *)
(* itself: what was left out, and what is still there.                       *)

OnlyDirectories == EntryPoints \subseteq {"directory"}

UndoOf(job) == Job(job.version, job.script, "undo")

\* To the column, an undo file has the version of its own file alone.  Without this
\* a run can start to undo a file, be killed, perform another spelling of the version
\* next, and never come back to the first file.
UndosMatch ==
  \A undo, other \in Listed :
    undo.kind = "undo" /\ SameVersion(undo.version, other.version) => other.script = undo.script

\* Sound for directories with undo files, with the jobs in done performed: what is
\* recorded next was performed, and while a file is at work or being recorded, what
\* it created is there.
Underway(l, objs, done) ==
  l.step # "idle" =>
    /\ l.entry = "directory"
    /\ \A i \in DOMAIN l.todo : l.todo[i] \in Listed
    /\ l.step \in {"ask", "insert", "delete"} => l.why # "start"
    /\ l.step = "sql" => l.why = "check"
    /\ l.step \in {"insert", "delete"} => l.why = "record"
    /\ l.why = "record" =>
         /\ Head(l.todo) \in done
         /\ Head(l.todo).kind = "up" => CompleteIn(Head(l.todo).script, objs)
    /\ l.step = "sql" /\ Head(l.todo).kind = "up" =>
         \A k \in 1 .. l.part - 1 : <<Head(l.todo).script, k>> \in objs

PerformedIn(done, w) == \E job \in done : job.version # NoVersion /\ StoredAs[job.version] = w

\* A version is in the table because a file that has it ran to the end.
Performed == \A w \in Versions : rows[w] > 0 => PerformedIn(ran, w)

\* What a file created is there, unless its undo file ran; or ran in part, which is
\* still to be made up for, the version not being recorded.
KeptOf(job) ==
  \/ Complete(job.script) \/ UndoOf(job) \in ran
  \/ UndoOf(job) \in Listed /\ ~Recorded(job.version)

Kept == \A job \in ran : job.kind = "up" => KeptOf(job)

\* Only files with a version run.
OnlyListed == ran \subseteq Listed /\ \A job \in ran : job.version # NoVersion

HInv(m) ==
  /\ AInv(m) /\ Underway(mig[m], objects, ran)
  /\ Performed /\ Kept /\ OnlyListed

\* The version of a file is the first part of what its SQL is about.
LEMMA ScriptHasVersion ==
  ASSUME NEW job \in Listed, NEW other \in Listed, job.script = other.script
  PROVE  job.version = other.version
<1>1. ASSUME NEW n \in Names, GetType(n) # "unknown"
      PROVE  Head(Script(n)) = Head(n)
  <2>1. n \in Seq(STRING) /\ n # <<>>
    BY ConstantsAssumption
  <2>2. Len(n) \in Nat /\ Len(n) > 1 /\ (GetType(n) = "undo" => Len(n) > 2)
    <3>1. Len(<<"sql">>) = 1 /\ Len(<<"undo", "sql">>) = 2 /\ Len(n) \in Nat
      BY <2>1
    <3>2. EndsWith(n, <<"sql">>) /\ (GetType(n) = "undo" => EndsWith(n, <<"undo", "sql">>))
      BY <1>1 DEF GetType
    <3>3. QED
      BY <3>1, <3>2 DEF EndsWith
  <2>3. PICK k \in 1 .. Len(n) : Script(n) = SubSeq(n, 1, k)
    <3>1. Script(n) = SubSeq(n, 1, Len(n) - 2) \/ Script(n) = SubSeq(n, 1, Len(n) - 1)
      BY DEF Script
    <3>2. CASE GetType(n) = "undo"
      <4>1. Script(n) = SubSeq(n, 1, Len(n) - 2) /\ Len(n) - 2 \in 1 .. Len(n)
        BY <2>2, <3>2 DEF Script
      <4>2. QED
        BY <4>1
    <3>3. CASE GetType(n) # "undo"
      <4>1. Script(n) = SubSeq(n, 1, Len(n) - 1) /\ Len(n) - 1 \in 1 .. Len(n)
        BY <2>2, <3>3 DEF Script
      <4>2. QED
        BY <4>1
    <3>4. QED
      BY <3>2, <3>3
  <2>4. Head(SubSeq(n, 1, k)) = n[1] /\ Head(n) = n[1]
    BY <2>1, <2>2
  <2>5. QED
    BY <2>3, <2>4
<1>2. ASSUME NEW n \in Names
      PROVE  LET file == FileJob([dotted |-> FALSE, name |-> n])
             IN  /\ file.script = Script(n)
                 /\ file.version = IF Head(n) = "" THEN NoVersion ELSE Head(n)
  BY DEF FileJob, Job, CreateVersionString
<1>3. PICK n \in Names :
        GetType(n) # "unknown" /\ job = FileJob([dotted |-> FALSE, name |-> n])
  BY DEF Listed
<1>4. PICK k \in Names :
        GetType(k) # "unknown" /\ other = FileJob([dotted |-> FALSE, name |-> k])
  BY DEF Listed
<1>5. Head(n) = Head(k)
  <2>1. job.script = Script(n) /\ other.script = Script(k)
    BY <1>2, <1>3, <1>4
  <2>2. Head(Script(n)) = Head(n) /\ Head(Script(k)) = Head(k)
    BY <1>1, <1>3, <1>4, Zenon
  <2>3. QED
    BY <2>1, <2>2, Zenon
<1>6. job.version = IF Head(n) = "" THEN NoVersion ELSE Head(n)
  BY <1>2, <1>3
<1>7. other.version = IF Head(k) = "" THEN NoVersion ELSE Head(k)
  BY <1>2, <1>4
<1>8. QED
  BY <1>5, <1>6, <1>7, Zenon

\* A file is an "up" file or an undo file, and this is the undo file of its script.
LEMMA ListedShape ==
  ASSUME NEW job \in Listed
  PROVE  /\ job.kind \in {"up", "undo"}
         /\ job = Job(job.version, job.script, job.kind)
<1>1. PICK n \in Names : GetType(n) # "unknown" /\ job = FileJob([dotted |-> FALSE, name |-> n])
  BY DEF Listed
<1>2. QED
  BY <1>1 DEF FileJob, Job, GetType

LEMMA OwnUndo ==
  ASSUME NEW job \in Listed, NEW undo \in Listed, undo.kind = "undo", undo.script = job.script
  PROVE  undo = UndoOf(job)
<1>1. undo.version = job.version /\ undo = Job(undo.version, undo.script, "undo")
  BY ScriptHasVersion, ListedShape
<1>2. QED
  BY <1>1 DEF UndoOf

-----------------------------------------------------------------------------
(* Control.                                                                  *)

LEMMA UnderwayFacts ==
  ASSUME NEW m \in Migrators, HInv(m), ~At(m, "idle")
  PROVE  /\ TInv /\ mig[m].entry = "directory"
         /\ \A i \in DOMAIN mig[m].todo : mig[m].todo[i] \in Listed
         /\ Current(m) \in Listed
         /\ mig[m].step \in {"ask", "insert", "delete"} => mig[m].why # "start"
         /\ At(m, "sql") => mig[m].why = "check"
         /\ mig[m].step \in {"insert", "delete"} => mig[m].why = "record"
         /\ mig[m].why = "record" =>
              /\ Current(m) \in ran
              /\ Current(m).kind = "up" => CompleteIn(Current(m).script, objects)
         /\ At(m, "sql") /\ Current(m).kind = "up" =>
              \A k \in 1 .. mig[m].part - 1 : <<Current(m).script, k>> \in objects
<1>1. TInv /\ mig[m].todo \in Seq(Jobs) /\ mig[m].todo # <<>>
  BY LocalFields DEF HInv, AInv, TInv, HasWork
<1>2. 1 \in DOMAIN mig[m].todo /\ Current(m) = mig[m].todo[1]
  BY <1>1 DEF Current
<1>3. Underway(mig[m], objects, ran) /\ mig[m].step # "idle"
  BY DEF HInv, At
<1>4. \A i \in DOMAIN mig[m].todo : mig[m].todo[i] \in Listed
  BY <1>3 DEF Underway
<1>5. QED
  BY <1>1, <1>2, <1>3, <1>4 DEF Underway, At, Current

LEMMA MovesUnderway ==
  ASSUME NEW m \in Migrators, NEW step, NEW why, NEW todo, NEW status, NEW objs, NEW done,
         Moves(m, step, why, todo, status), step # "sql",
         step # "idle" =>
           /\ mig[m].entry = "directory"
           /\ \A i \in DOMAIN todo : todo[i] \in Listed
           /\ step \in {"ask", "insert", "delete"} => why # "start"
           /\ step \in {"insert", "delete"} => why = "record"
           /\ why = "record" =>
                /\ Head(todo) \in done
                /\ Head(todo).kind = "up" => CompleteIn(Head(todo).script, objs)
  PROVE  Underway(mig'[m], objs, done)
  BY DEF Moves, Is, Underway

LEMMA ReturnUnderway ==
  ASSUME NEW m \in Migrators, HInv(m), NEW status \in Statuses, Return(m, status),
         NEW objs, NEW done
  PROVE  Underway(mig'[m], objs, done)
  BY ReturnMoves, MovesUnderway DEF HInv, AInv

LEMMA DoneUnderway ==
  ASSUME NEW m \in Migrators, HInv(m), ~At(m, "idle"), NEW status \in Statuses,
         DoneWithFile(m, status), NEW objs, NEW done
  PROVE  Underway(mig'[m], objs, done)
<1>1. CASE Moves(m, "look", "start", Tail(mig[m].todo), "ok") /\ Len(mig[m].todo) > 1
  <2>1. \A i \in DOMAIN Tail(mig[m].todo) : Tail(mig[m].todo)[i] \in Listed
    BY <1>1, UnderwayFacts, LocalFields, TailIsListed
  <2>2. QED
    BY <1>1, <2>1, UnderwayFacts, MovesUnderway
<1>2. CASE Moves(m, "idle", mig[m].why, <<>>, status)
  BY <1>2, MovesUnderway
<1>3. QED
  BY <1>1, <1>2, UnderwayFacts, DoneMoves

LEMMA SettledUnderway ==
  ASSUME NEW m \in Migrators, HInv(m), ~At(m, "idle"), NEW status \in Statuses,
         TableSettled(m, status)
  PROVE  Underway(mig'[m], objects, ran)
<1>1. CASE DoneWithFile(m, status)
  BY <1>1, DoneUnderway
<1>2. CASE Moves(m, "look", "check", mig[m].todo, status)
  BY <1>2, UnderwayFacts, MovesUnderway
<1>3. CASE mig[m].why # "start" /\ Moves(m, "ask", mig[m].why, mig[m].todo, mig[m].status)
  BY <1>3, UnderwayFacts, MovesUnderway DEF Current
<1>4. QED
  BY <1>1, <1>2, <1>3, UnderwayFacts, SettledMoves

LEMMA AnsweredUnderway ==
  ASSUME NEW m \in Migrators, HInv(m), At(m, "ask"), NEW did \in BOOLEAN, Answered(m, did)
  PROVE  Underway(mig'[m], objects, ran)
<1>0. ~At(m, "idle") /\ TInv /\ mig[m].why \in Whys /\ mig[m].status \in Statuses
  BY UnderwayFacts, LocalFields DEF At
<1>1. mig[m].entry = "directory" /\ mig[m].why # "start"
  BY <1>0, UnderwayFacts DEF At
<1>2. CASE DoneWithFile(m, mig[m].status)
  BY <1>0, <1>2, DoneUnderway
<1>3. CASE mig[m].why # "check" /\ Moves(m, "insert", mig[m].why, mig[m].todo, mig[m].status)
  <2>1. mig[m].why = "record"
    BY <1>0, <1>1, <1>3 DEF Whys
  <2>2. QED
    BY <1>0, <1>3, <2>1, UnderwayFacts, MovesUnderway DEF Current
<1>4. CASE Proceed(m) /\ mig[m].why = "check"
  <2> DEFINE l == [mig[m] EXCEPT !.step = "sql", !.part = 1]
  <2>1. mig'[m] = l
    BY <1>0, <1>4 DEF Proceed, TInv, TypeOK
  <2>2. /\ l.step = "sql" /\ l.why = "check" /\ l.part = 1
        /\ l.entry = mig[m].entry /\ l.todo = mig[m].todo
    BY <1>0, <1>4, LocalFields DEF Local
  <2>3. \A k \in 1 .. l.part - 1 : <<Head(l.todo).script, k>> \in objects
    BY <2>2
  <2>4. \A i \in DOMAIN mig[m].todo : mig[m].todo[i] \in Listed
    BY <1>0, UnderwayFacts
  <2> HIDE DEF l
  <2>5. Underway(l, objects, ran)
    BY <1>1, <2>2, <2>3, <2>4 DEF Underway
  <2>6. QED
    BY <2>1, <2>5
<1>5. Proceed(m) \/ DoneWithFile(m, mig[m].status)
  BY DEF Answered
<1>6. \/ mig[m].why = "check"
      \/ mig[m].why # "check" /\ Moves(m, "insert", mig[m].why, mig[m].todo, mig[m].status)
      \/ DoneWithFile(m, mig[m].status)
  BY <1>0, <1>1, AnsweredMoves
<1>7. QED
  BY <1>2, <1>3, <1>4, <1>5, <1>6

\* The actions that leave the rows, the objects and the history as they are.
LEMMA ControlUnderway ==
  ASSUME NEW m \in Migrators, HInv(m),
         LookForTable(m) \/ CreateTable(m) \/ Ask(m) \/ RecordRefused(m) \/ Crash(m)
  PROVE  Underway(mig'[m], objects', ran') /\ Performed' /\ Kept' /\ OnlyListed'
<1>1. UNCHANGED <<rows, objects, ran>>
  BY DEF LookForTable, CreateTable, Ask, RecordRefused, Crash
<1>2. Performed' /\ Kept' /\ OnlyListed'
  BY <1>1 DEF HInv, Performed, Kept, KeptOf, Complete, Recorded, OnlyListed
<1>3. ~At(m, "idle") /\ TInv /\ mig[m].status \in Statuses /\ mig[m].why \in Whys
  BY LocalFields DEF LookForTable, CreateTable, Ask, RecordRefused, Crash, At, HInv, AInv
<1>4. {"ok", "error", "busy", "crashed"} \subseteq Statuses
  BY DEF Statuses
<1>5. Underway(mig'[m], objects, ran)
  <2>1. CASE LookForTable(m)
    <3>1. ASSUME Goto(m, "create", mig[m].why) PROVE Underway(mig'[m], objects, ran)
      <4>1. Moves(m, "create", mig[m].why, mig[m].todo, mig[m].status)
        BY <1>3, <3>1, GotoMoves
      <4>2. QED
        BY <1>3, <4>1, UnderwayFacts, MovesUnderway DEF Current
    <3>2. QED
      BY <1>3, <1>4, <2>1, <3>1, SettledUnderway, ReturnUnderway
         DEF LookForTable, DoesNotCompile
  <2>2. CASE CreateTable(m)
    BY <1>3, <1>4, <2>2, SettledUnderway DEF CreateTable
  <2>3. CASE Ask(m)
    <3>1. At(m, "ask") /\ (rows[Version(m)] > 0) \in BOOLEAN /\ FALSE \in BOOLEAN
      BY <2>3 DEF Ask
    <3>2. QED
      BY <1>4, <2>3, <3>1, AnsweredUnderway, ReturnUnderway DEF Ask, DoesNotCompile
  <2>4. CASE RecordRefused(m)
    BY <1>3, <1>4, <2>4, DoneUnderway, ReturnUnderway DEF RecordRefused, DoesNotCompile
  <2>5. CASE Crash(m)
    BY <1>4, <2>5, ReturnUnderway DEF Crash
  <2>6. QED
    BY <2>1, <2>2, <2>3, <2>4, <2>5
<1>6. QED
  BY <1>1, <1>2, <1>5

-----------------------------------------------------------------------------
(* The steps that change objects, history or table.                          *)

\* What is known of the process when it runs a statement.
LEMMA AtSql ==
  ASSUME NEW m \in Migrators, HInv(m), RunStatement(m)
  PROVE  /\ At(m, "sql") /\ ~At(m, "idle") /\ TInv /\ UNCHANGED rows
         /\ Current(m) \in Listed /\ Current(m).version # NoVersion
         /\ ~Recorded(Current(m).version)
<1>1. At(m, "sql") /\ ~At(m, "idle") /\ UNCHANGED rows
  BY DEF RunStatement, At
<1>2. TInv /\ Current(m) \in Listed /\ mig[m].entry = "directory"
  BY <1>1, UnderwayFacts
<1>3. Current(m).version # NoVersion /\ (mig[m].entry = "undo") = Recorded(Current(m).version)
  BY <1>1 DEF HInv, AInv, Versioned, AskedFor, At
<1>4. QED
  BY <1>1, <1>2, <1>3

\* A statement that succeeds leaves what other files created, and an undo statement
\* takes something away only from a file whose version is not recorded.
LEMMA StatementKeeps ==
  ASSUME NEW m \in Migrators, HInv(m), RunStatement(m), StatementSucceeds(m),
         ran \subseteq ran',
         NEW job \in ran, job.kind = "up"
  PROVE  KeptOf(job)'
<1>1. /\ KeptOf(job) /\ job \in Listed /\ UNCHANGED rows /\ Current(m) \in Listed
      /\ ~Recorded(Current(m).version)
  BY AtSql DEF HInv, Kept, OnlyListed
<1>2. CASE Complete(job.script)
  <2>1. CASE Current(m).kind = "up"
    BY <1>2, <2>1 DEF StatementSucceeds, KeptOf, Complete
  <2>2. CASE Current(m).kind # "up" /\ Current(m).script # job.script
    <3>1. \A k \in 1 .. Parts : <<job.script, k>> # Object(m)
      BY <2>2 DEF Object
    <3>2. \A k \in 1 .. Parts : <<job.script, k>> \in objects'
      BY <1>2, <2>2, <3>1 DEF StatementSucceeds, Complete
    <3>3. QED
      BY <3>2 DEF KeptOf, Complete
  <2>3. CASE Current(m).kind # "up" /\ Current(m).script = job.script
    <3>1. Current(m).kind = "undo"
      BY <1>1, <2>3, ListedShape
    <3>2. UndoOf(job) = Current(m) /\ Current(m).version = job.version
      BY <1>1, <2>3, <3>1, OwnUndo, ScriptHasVersion
    <3>3. QED
      BY <1>1, <3>2 DEF KeptOf, Recorded
  <2>4. QED
    BY <2>1, <2>2, <2>3
<1>3. CASE UndoOf(job) \in ran
  BY <1>3 DEF KeptOf
<1>4. CASE UndoOf(job) \in Listed /\ ~Recorded(job.version)
  BY <1>1, <1>4 DEF KeptOf, Recorded
<1>5. QED
  BY <1>1, <1>2, <1>3, <1>4 DEF KeptOf

\* The statements of an "up" file that were executed are all there.
LEMMA StatementsSoFar ==
  ASSUME NEW m \in Migrators, HInv(m), RunStatement(m), StatementSucceeds(m),
         Current(m).kind = "up"
  PROVE  \A k \in 1 .. mig[m].part : <<Current(m).script, k>> \in objects'
<1>1. \A k \in 1 .. mig[m].part - 1 : <<Current(m).script, k>> \in objects
  BY AtSql, UnderwayFacts
<1>2. objects' = objects \cup {<<Current(m).script, mig[m].part>>}
  BY DEF StatementSucceeds, Object
<1>3. mig[m].part \in 1 .. Parts /\ Parts \in Nat
  BY AtSql, LocalFields, ConstantsAssumption
<1>4. QED
  BY <1>1, <1>2, <1>3

LEMMA RunStatementUnderway ==
  ASSUME NEW m \in Migrators, HInv(m), RunStatement(m)
  PROVE  Underway(mig'[m], objects', ran') /\ Performed' /\ Kept' /\ OnlyListed'
<1>1. /\ At(m, "sql") /\ ~At(m, "idle") /\ TInv /\ UNCHANGED rows
      /\ Current(m) \in Listed /\ Current(m).version # NoVersion
  BY AtSql
<1>2. /\ mig[m].entry = "directory" /\ mig[m].why = "check"
      /\ \A i \in DOMAIN mig[m].todo : mig[m].todo[i] \in Listed
  BY <1>1, UnderwayFacts DEF At
<1>3. ran \subseteq ran' /\ ran' \subseteq ran \cup {Current(m)}
  BY DEF RunStatement
<1>4. Performed' /\ OnlyListed'
  BY <1>1, <1>3 DEF HInv, Performed, PerformedIn, OnlyListed
<1>5. CASE /\ \E status \in {"error", "busy"} : SqlFailed(m, status)
           /\ UNCHANGED <<objects, ran>>
  <2>1. PICK status \in {"error", "busy"} : SqlFailed(m, status)
    BY <1>5
  <2>2. Return(m, status) /\ status \in Statuses
    BY <1>2, <2>1 DEF SqlFailed, Statuses
  <2>3. Kept'
    BY <1>1, <1>5 DEF HInv, Kept, KeptOf, Complete, Recorded
  <2>4. QED
    BY <1>4, <2>2, <2>3, ReturnUnderway
<1>6. CASE /\ StatementSucceeds(m) /\ LastStatement(m) /\ ran' = ran \cup {Current(m)}
           /\ mig' = [mig EXCEPT ![m] = [mig[m] EXCEPT
                         !.step = "look", !.why = "record", !.status = "ok"]]
  <2>1. Moves(m, "look", "record", mig[m].todo, "ok")
    BY <1>1, <1>6, RecordMoves DEF Statuses
  <2>2. Current(m).kind = "up" => CompleteIn(Current(m).script, objects')
    BY <1>6, StatementsSoFar DEF CompleteIn, LastStatement
  <2>3. Underway(mig'[m], objects', ran')
    <3>1. Current(m) \in ran' /\ Current(m) = Head(mig[m].todo)
      BY <1>6 DEF Current
    <3>2. QED
      BY <1>2, <2>1, <2>2, <3>1, MovesUnderway
  <2>4. Kept'
    <3>1. ASSUME NEW job \in ran', job.kind = "up" PROVE KeptOf(job)'
      <4>1. CASE job \in ran
        BY <1>3, <1>6, <3>1, <4>1, StatementKeeps
      <4>2. CASE job = Current(m)
        BY <2>2, <3>1, <4>2 DEF KeptOf, Complete, CompleteIn
      <4>3. QED
        BY <1>6, <4>1, <4>2
    <3>2. QED
      BY <3>1 DEF Kept
  <2>5. QED
    BY <1>4, <2>3, <2>4
<1>7. CASE /\ StatementSucceeds(m) /\ ~LastStatement(m) /\ ran' = ran
           /\ mig' = [mig EXCEPT ![m].part = @ + 1]
  <2> DEFINE l == [mig[m] EXCEPT !.part = @ + 1]
  <2>1. mig'[m] = l
    BY <1>1, <1>7 DEF TInv, TypeOK
  <2>2. /\ l.step = "sql" /\ l.why = mig[m].why /\ l.part - 1 = mig[m].part
        /\ l.entry = mig[m].entry /\ l.todo = mig[m].todo
    <3>1. mig[m] \in Local /\ mig[m].step = "sql" /\ mig[m].part \in Nat
      BY <1>1, LocalFields DEF At
    <3>2. QED
      BY <3>1 DEF Local
  <2>3. Head(mig[m].todo).kind = "up" =>
          \A k \in 1 .. mig[m].part : <<Head(mig[m].todo).script, k>> \in objects'
    BY <1>7, StatementsSoFar DEF Current
  <2> HIDE DEF l
  <2>4. Underway(l, objects', ran')
    BY <1>2, <2>2, <2>3 DEF Underway
  <2>5. Kept'
    BY <1>3, <1>7, StatementKeeps DEF Kept
  <2>6. QED
    BY <1>4, <2>1, <2>4, <2>5
<1>8. QED
  BY <1>5, <1>6, <1>7 DEF RunStatement

\* What is recorded was performed; and with it no other file is recorded that an undo
\* file was killed in the middle of.
LEMMA RecordUnderway ==
  ASSUME UndosMatch, NEW m \in Migrators, HInv(m), InsertVersion(m) \/ DeleteVersion(m)
  PROVE  Underway(mig'[m], objects', ran') /\ Performed' /\ Kept' /\ OnlyListed'
<1>1. /\ ~At(m, "idle") /\ mig[m].step \in {"insert", "delete"} /\ TInv
      /\ mig[m].status \in Statuses /\ UNCHANGED <<objects, ran>>
  BY LocalFields DEF InsertVersion, DeleteVersion, At, HInv, AInv
<1>2. /\ mig[m].entry = "directory" /\ mig[m].why = "record" /\ Current(m) \in Listed
      /\ Current(m) \in ran /\ (Current(m).kind = "up" => CompleteIn(Current(m).script, objects))
  BY <1>1, UnderwayFacts
<1>3. InsertVersion(m) /\ Current(m).version # NoVersion
  BY <1>1, <1>2 DEF HInv, AInv, AskedFor, Versioned, DeleteVersion, At
<1>4. Version(m) \in Versions /\ Version(m) = StoredAs[Current(m).version]
  BY <1>1, <1>3, VersionOf DEF Version
<1>5. \A w \in Versions : w # Version(m) => rows'[w] = rows[w]
  BY <1>1, <1>3 DEF InsertVersion, TInv, TypeOK
<1>6. Underway(mig'[m], objects', ran')
  BY <1>1, <1>3, DoneUnderway DEF InsertVersion
<1>7. Performed'
  <2>1. ASSUME NEW w \in Versions, rows'[w] > 0 PROVE PerformedIn(ran, w)
    <3>1. CASE w = Version(m)
      BY <1>2, <1>3, <1>4, <3>1 DEF PerformedIn
    <3>2. CASE w # Version(m)
      BY <1>5, <2>1, <3>2 DEF HInv, Performed
    <3>3. QED
      BY <3>1, <3>2
  <2>2. QED
    BY <1>1, <2>1 DEF Performed
<1>8. ASSUME NEW job \in ran, job.kind = "up" PROVE KeptOf(job)'
  <2>1. KeptOf(job) /\ job \in Listed
    BY <1>8 DEF HInv, Kept, OnlyListed
  <2>2. CASE Complete(job.script) \/ UndoOf(job) \in ran
    BY <1>1, <2>2 DEF KeptOf, Complete
  <2>3. CASE UndoOf(job) \in Listed /\ ~Recorded(job.version)
    <3>1. UndoOf(job).version = job.version /\ UndoOf(job).script = job.script
          /\ UndoOf(job).kind = "undo"
      BY DEF UndoOf, Job
    <3>2. CASE SameVersion(job.version, Current(m).version)
      <4>1. Current(m).script = job.script
        BY <1>2, <2>3, <3>1, <3>2 DEF UndosMatch
      <4>2. CASE Current(m).kind = "up"
        BY <1>1, <1>2, <4>1, <4>2 DEF KeptOf, Complete, CompleteIn
      <4>3. CASE Current(m).kind = "undo"
        <5>1. UndoOf(job) = Current(m)
          BY <1>2, <2>1, <4>1, <4>3, OwnUndo
        <5>2. QED
          BY <1>1, <1>2, <5>1 DEF KeptOf
      <4>4. QED
        BY <1>2, <4>2, <4>3, ListedShape
    <3>3. CASE ~SameVersion(job.version, Current(m).version)
      <4>1. ~Recorded(job.version)'
        <5>1. CASE job.version = NoVersion
          BY <5>1 DEF Recorded
        <5>2. CASE job.version # NoVersion
          <6>1. StoredAs[job.version] \in Versions /\ StoredAs[job.version] # Version(m)
            BY <1>3, <1>4, <2>1, <3>3, <5>2, ListedJobs, JobVersion, ConstantsAssumption
               DEF SameVersion
          <6>2. QED
            BY <1>5, <2>3, <5>2, <6>1 DEF Recorded
        <5>3. QED
          BY <5>1, <5>2
      <4>2. QED
        BY <2>3, <4>1 DEF KeptOf
    <3>4. QED
      BY <3>2, <3>3
  <2>4. QED
    BY <2>1, <2>2, <2>3 DEF KeptOf
<1>9. QED
  BY <1>1, <1>6, <1>7, <1>8 DEF HInv, Kept, OnlyListed

LEMMA CallUnderway ==
  ASSUME OnlyDirectories, NEW m \in Migrators, HInv(m), Call(m)
  PROVE  Underway(mig'[m], objects', ran') /\ Performed' /\ Kept' /\ OnlyListed'
<1>1. UNCHANGED <<rows, objects, ran>>
  BY DEF Call, MigrateWithDirectoryURL, ExecuteWithContentsOfURL, MigrationExecute,
     MigrationExecuteUndo, Start
<1>2. Performed' /\ Kept' /\ OnlyListed'
  BY <1>1 DEF HInv, Performed, Kept, KeptOf, Complete, Recorded, OnlyListed
<1>3. PICK listing \in Listings :
        listing # <<>> /\ listing \in Seq(Jobs) /\ Start(m, "directory", listing)
  BY CallStarts DEF OnlyDirectories, Start
<1>4. Is(mig'[m], "look", "start", "directory", listing, "error")
  BY <1>3, StartType DEF HInv, AInv
<1>5. Underway(mig'[m], objects', ran')
  BY <1>4, ListingIsListed DEF Is, Underway
<1>6. QED
  BY <1>2, <1>5

LEMMA InitHInv == ASSUME NEW m, Alone(m), Init PROVE HInv(m)
<1>1. AInv(m) /\ m \in Migrators
  BY InitAInv DEF Alone
<1>2. Underway(mig[m], objects, ran)
  BY <1>1 DEF Init, Idle, Underway
<1>3. QED
  BY <1>1, <1>2 DEF Init, HInv, Performed, Kept, OnlyListed

LEMMA NextHInv ==
  ASSUME OnlyDirectories, UndosMatch, NEW m, Alone(m), HInv(m), [Next]_vars
  PROVE  HInv(m)'
<1>1. AInv(m)' /\ m \in Migrators
  BY NextKeeps DEF HInv, Alone
<1>2. CASE UNCHANGED vars
  BY <1>1, <1>2 DEF vars, HInv, Underway, Performed, Kept, KeptOf, Complete, Recorded, OnlyListed
<1>3. CASE Call(m) \/ Step(m) \/ Crash(m)
  <2>1. Underway(mig'[m], objects', ran') /\ Performed' /\ Kept' /\ OnlyListed'
    BY <1>1, <1>3, CallUnderway, ControlUnderway, RunStatementUnderway, RecordUnderway
       DEF Step
  <2>2. QED
    BY <1>1, <2>1 DEF HInv
<1>4. QED
  BY <1>2, <1>3 DEF Next, Alone

\* A process that has the database to itself and migrates directories only, in which
\* an undo file shares its version with no file but its own: when a run returns
\* kSQLite3StatusOK, wherever the runs before it were killed or failed, a file that
\* never ran to the end shares its version with one that did, and what a file
\* created is there unless its undo file ran.
THEOREM AloneLeavesNothingElseOut ==
  ASSUME OnlyDirectories, UndosMatch, NEW m, Alone(m)
  PROVE  Spec => []NothingElseIsLeftOut
<1>1. Init => HInv(m)
  BY InitHInv
<1>2. HInv(m) /\ [Next]_vars => HInv(m)'
  BY NextHInv
<1>3. ASSUME HInv(m) PROVE NothingElseIsLeftOut
  <2> SUFFICES ASSUME Migrated(m), NEW job \in Listed
               PROVE  /\ \/ job \in ran \/ job.version = NoVersion
                         \/ \E other \in ran : SameVersion(other.version, job.version)
                      /\ job \in ran /\ job.kind = "up" =>
                           Complete(job.script) \/ UndoOf(job) \in ran
    BY DEF NothingElseIsLeftOut, Alone, UndoOf
  <2>1. SettledIn(job, rows)
    BY <1>3 DEF HInv, AInv, Accounted, Migrated
  <2>2. CASE job.version = NoVersion
    <3>1. job \notin ran
      BY <1>3, <2>2 DEF HInv, OnlyListed
    <3>2. QED
      BY <2>2, <3>1
  <2>3. CASE job.version # NoVersion
    <3>1. Recorded(job.version) /\ StoredAs[job.version] \in Versions
      BY <2>1, <2>3, ListedJobs, JobVersion, ConstantsAssumption DEF SettledIn, Recorded
    <3>2. PerformedIn(ran, StoredAs[job.version])
      BY <1>3, <3>1 DEF HInv, Performed, Recorded
    <3>3. \E other \in ran : SameVersion(other.version, job.version)
      BY <2>3, <3>2 DEF PerformedIn, SameVersion
    <3>4. job \in ran /\ job.kind = "up" => Complete(job.script) \/ UndoOf(job) \in ran
      BY <1>3, <3>1 DEF HInv, Kept, KeptOf
    <3>5. QED
      BY <3>3, <3>4
  <2>4. QED
    BY <2>2, <2>3
<1>4. QED
  BY <1>1, <1>2, <1>3, PTL DEF Spec
=============================================================================
