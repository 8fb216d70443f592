# A formal model of CoreSQLite3

CoreSQLite3 wraps SQLite for CoreFoundation and Objective-C. The wrapper is thin and
sequential, and what is hard about it is not in any one function: it is in the ownership of
two kinds of C structs and of the sqlite3 objects behind them, in the application code that
sqlite3 calls back into while a call is under way, in threads that share a connection and
processes that share a database file, in values that change as they pass through a column,
and in a protocol with code the compiler generates. These modules model that, check it with
TLC and prove most of its safety with TLAPS.

## 1. The system

Paths are relative to `src/`.

| Component | State it keeps | Operations | Modelled in |
|---|---|---|---|
| Connection (`SQLite3Connection.c` 14-92) | struct with `retainCount`, `db` | create, retain, release, close | `Lifecycle` |
| Statement (`SQLite3Statement.c` 12-147) | struct with `retainCount`, `stmt`, `connection` | create, retain, release, reset, finalize, step | `Lifecycle` |
| One-shot helpers (`SQLite3Connection.c` 171-541, the insert of `SQLite3Statement.c` 716-744) | none between calls | `Execute...`, `Get...WithQuery`, `Create...WithQuery`, `Does...Exist`, `Drop...` | `Lifecycle`, by how they treat their private statement |
| Observer (`SQLite3Observer.c`) | struct that holds a connection | create; release is a stub | `Lifecycle` |
| Update callbacks (`SQLite3Connection.c` 555-608) | fixed array and its count, sqlite3's update hook | append, remove, the default hook | `UpdateCallbacks`; shared by threads: `UpdateCallbacksThreads` |
| Migrations (`SQLite3Migration.c`) | table `schema_migrations`, and what the SQL files create | migrate a directory, run one file, execute, execute undo | `Migration` |
| Fast enumeration (`SQLite3Statement.m` 333-351) | `NSFastEnumerationState`, the state of the statement | `for (row in statement)` | `FastEnumeration` |
| Binding (`SQLite3Statement.c` 192-410) | parameters of a statement | bind by index, name, array, dictionary, clear; one-shot helpers that bind | `Bindings` |
| Inserts (`SQLite3Statement.c` 674-744) | none | insert a row from a dictionary | `Bindings`; its callbacks in `Lifecycle` |
| Errors and status (`SQLite3Connection.c` 96-132) | sqlite3's last error code | `GetStatus`, `HasError`, `CreateError` | `Bindings` |
| Column values (`SQLite3Statement.c` 203-317, 436-666) | none; the value is in the column | bind by type, read by type | `Values` |
| Objective-C objects (`*.m`) | a retained C struct each | wrappers | partly: enumeration in `FastEnumeration`, the statement of `enumerateWithQuery:usingBlock:` in `Lifecycle` |
| SQL functions (`SQLite3Ext*.c`, `RegisterFunction`) | sqlite3's function table | register, unregister | not modelled |
| UTF-8 strings, bundle resources, tests | none | conversions, queries | not modelled |
| SQLite (`sqlite-amalgamation-201101281703`) | handles, statements, locks, columns | vendored | as far as the wrapper can tell what it does |

How they interact:

* A statement and an observer each hold a reference to their connection. A helper makes a
  statement for the length of its call. The last reference to a connection closes the
  handle.
* `sqlite3_step` and `sqlite3_exec` call back: registered SQL functions and update callbacks
  are application code that may use the same API on the same connection, its release
  included.
* The dispatch of one row change walks an array that the callbacks it calls change, and that
  other threads change without a lock of the wrapper's.
* Migrations use helpers and `Execute`, one sqlite transaction per call, on a file that
  other processes use.
* An insert writes its columns from the keys of a dictionary and binds the values as an
  array; the column's affinity then decides what is stored.
* The `for`-`in` loop is compiled into calls of one method and a comparison of
  `*state->mutationsPtr`; the method keeps its own status in that word.

What makes each of them correct, in short: counts are exact, nothing live refers to anything
freed and every handle is closed in the end (lifecycle); the hook is there exactly when
needed and each registration is called once (callbacks); the table says what was performed,
once, and a failed run can be repeated (migrations); a loop delivers the rows in order,
ends, and leaves a statement that can be bound (enumeration); what runs is what was bound
(binding); what is read is what was written (values).

## 2. The modules

| Module | What it is |
|---|---|
| `Lifecycle` | structs, handles and calls into sqlite3; composes connections, statements, observers, helpers and callbacks |
| `SharedHandle` | abstract: a handle shared by holders; `Lifecycle` implements it for careful applications |
| `LifecycleProofs` | invariant of `Lifecycle`, for any application |
| `LifecycleCarefulProofs` | what holds beyond it for careful applications, and the refinement |
| `UpdateCallbacks` | array, hook and dispatch on one thread |
| `CallbackRegistry` | abstract: a bag of registrations; both models of the array implement it |
| `UpdateCallbacksProofs` | invariant of `UpdateCallbacks`, and the refinement |
| `UpdateCallbacksThreads` | the same code as accesses of several threads to shared memory |
| `UpdateCallbacksThreadsProofs` | invariants of it, and the refinement under the lock |
| `Migration` | processes that migrate one database |
| `MigrationProofs` | types, what one process has of the database to itself, what any number of processes can rely on |
| `FastEnumeration`, `FastEnumerationProofs` | a statement that is bound, enumerated and bound again |
| `Bindings`, `BindingsProofs` | the parameters of a statement, arrays, dictionaries, inserts, one-shot helpers, the last error code |
| `Values`, `ValuesProofs` | what a value becomes when it is bound, stored, read and copied on |
| `MC...` | values of the constants for TLC |

**Lifecycle.**  `conn` and `stmt` are the structs, with the handle and the Vdbe as fields;
`connRefs`, `stmtRefs` and `observers` are what the application holds; `calls` is the stack
of API calls that are inside sqlite3. A call that cannot run a callback is one action. The
ones that can are a `Begin` and an `End`; everything the application does in between is the
body of a callback. A prepared statement stays in the model after its struct is freed
because sqlite3 keeps it, and it decides whether a close succeeds. Helpers differ in what
they leave of their statement (`LeavesVdbe`): most finalize it, `Executev` and
`enumerateWithQuery:usingBlock:` do not.

Helpers differ in what they do after that, too: the insert reads the allocator of its
connection once more when its statement, which may have had the last reference to it, is
released (`UsesConnLast`). No call takes a reference to the statement it steps, so a
callback can do anything to that statement. A Vdbe is therefore `running` while it is
stepped, and what a callback made of it shows when the step returns (`EndStep`).

Undefined behaviour ends the run in `fault`: a second close or finalize, a NULL dereference,
a hook or an insert that reads a freed struct, a step that returns to a Vdbe which its
callbacks finalized, reset or stepped. Some of it is what an application brings upon itself,
so `Rules` names six ways to be careful:

| Rule | The application |
|---|---|
| `FinalizeBeforeRelease` | finalizes before the last release of a statement (`SQLite3Statement.c` 113-116) |
| `FinalizeOnce` | does not touch a finalized statement |
| `AbandonAfterClose` | neither uses a connection it closed nor drops its last reference |
| `CallbackKeepsConnection` | does not drop the last reference from a callback of `Execute` or of the insert |
| `CallbackKeepsStatement` | does not finalize, reset, clear or step a statement from a callback of its own step |
| `CompilableSQL` | passes the helpers that do not check SQL that compiles |

Only the first is written down in the source. With the first and the fifth, a callback
cannot free the statement that called it either, since it cannot finalize it first.

`AbandonAfterClose` costs a leak of the struct: there is no way to close a connection
explicitly and free it, because `SQLite3ConnectionRelease` closes again.

**UpdateCallbacks.**  `slots`, `count` and the loop index `i` are the code's; a callback is
a phase in which the application acts. The history variables tell, per registration, whether
it was called, moved or appended in this dispatch.

**UpdateCallbacksThreads.**  Each access to the count and to each word of a slot is an
action of its own, and so is each test between them. `n` is the register a compiler may keep
the count in; it may as well load it again at any point, which is `Reload`. sqlite3's own
mutex, which is recursive, is held during a step, and so during the hook. The source takes
no lock in append and remove and has a TODO for it. With no care at all nothing useful
holds: two racing removes let the count stray below zero. So the model asks what each of
three ways to be careful buys (`mode`): `guarded` takes the connection's mutex around append
and remove, `oneWriter` leaves both to one thread outside of callbacks, `appendOnly` never
removes. An access outside of the array ends the run, and in `appendOnly` it can happen: two
threads that both passed the check overrun the array by one registration, three by more,
since one of them can write back a count it read long ago and let the others pass the check
again. `TypeOK` therefore bounds the count by `Max + 1` for two threads, and not at all for
more.

**Migration.**  Each process has a program counter over its calls into sqlite: look for the
table, create it, ask for the version, run a statement, insert, delete. A file is the
sequence of the parts of its name between dots, from which the code takes its type and
version; `Paths` are files that an application runs one by one, with or without a dot among
the directories. `StoredAs` is what the affinity of the column makes of a version. The SQL
of a file is a number of statements that create or drop an object each, and fails by itself
(`Fragile`), because the object is there already (`Strict`), or on a lock. Locks are those
of sqlite's rollback journal with no busy handler: a reader fails while somebody commits, a
writer while anybody reads. A lock also fails the compilation of a statement, whose result
the code then dereferences: the process dies. `ran` remembers whose SQL ran to the end.

**FastEnumeration.**  The method and the compiled loop, step by step. `vdbe` has what
sqlite3 tells a caller: reset, on a row, or halted, where a halted statement starts over
when it is stepped.

**Bindings.**  `params` are the values of the parameters, `query` their names (a prefix and
a word), `busy` whether a bind would be refused, `errcode` sqlite3's last error. SQL without
a statement in it leaves a NULL `stmt` (`prepared` is FALSE): steps and binds on it are
misuse, and as sqlite3 has no connection to record that in, `errcode` stays. It stays as
well when a value has no type to be bound as, and when a helper is given NULL for its SQL
(`HasNoSQL`). The helpers that bind clear the bindings before anything else, which a NULL
`stmt` does not survive; that is a fault of `Lifecycle`. The loops over an array and a
dictionary are folds of `BindCFType`, which follows sqlite3: a value that is too big has
cost the parameter its old value when it is refused. `ran` remembers, until the next call,
what a one-shot helper bound before it stepped, and `row` what an insert wrote into which
column. Their statement is their own: nothing else can touch it, so the whole helper is one
action here (`Lifecycle` has the callbacks inside).

**Values.**  One cell of a column. Bind, store under an affinity, read and bind again are
operators over integers below `WideLimit` and `NarrowLimit` (2^63 and 2^31), reals in halves
that a double of `Mantissa` rounds to one of the `Steps` and a text of `Digits` rounds
again, and words, of which `Meaning` says what each parser (sqlite3's affinity, its prefix,
`strtod`, the date parser, the first NUL, UTF-8) makes of them: they disagree. The actions
write an object or anything SQL can write, and copy on what a reader returned. A text that
is not UTF-8 is no date but the end of the process, since the reader releases the NULL it
got for a string: no copy is made of it. `given`, `passed`, `read` and `drift` are the
history of the copies.

## 3. The runs

| Run | Question | Bounds |
|---|---|---|
| `lifecycle_any` | counts, pinning and what a call inside sqlite3 still has, for an application without any rule, up to the step that is undefined | 1 connection, 3 statements, 2 references each, 3 nested calls |
| `lifecycle_careful` | no fault, no leaked handle, and `SharedHandle`, with all six rules and every helper that finalizes | the same, 2 nested calls |
| `lifecycle_executev` | violation: `Executev` frees an unfinalized statement | 2 statements |
| `callbacks` | hook, at most once, missed only by removal, `CallbackRegistry`, end of dispatch | array of 4, 2 pairs |
| `callbacks_threads` | bounds of the array, hook, slots, calls and `CallbackRegistry`, by how threads are careful | 2 threads, array of 2, 2 pairs, all three modes |
| `migration_alone` | one process, all four entry points, failing files: agreement of SQL and table, one row, meaning of OK | versions 1, 001 and 2, a hidden file and a foreign one, 2 statements each, 1 crash |
| `migration_pair` | two processes and other lockers: a recorded version is complete; runs return | 2 versions, 1 crash |
| `migration_converges` | an application that migrates at each start gets there, and what it leaves out | versions 1, 001 and 2 and an undo file, 2 crashes |
| `bindings` | what arrays and dictionaries leave in a statement, fresh, bound or busy, what helpers and inserts run with, what the last error says | 4 queries, and SQL that is none, of up to 2 parameters, arrays of up to 2, a bare and a prefixed key, one value of each kind, 2 columns |
| `values` | what survives being stored, read and copied | words of 6 bits, low words of 3, doubles of 4 bits, 7 texts, 3 affinities, 3 copies of a date |
| `enumeration` | which rows a loop sees, in which order, in which state it leaves the statement | buffer of 2, results of 0, 2, 3, 4, 6 rows |
| `enumeration_mutation` | violation: a spurious mutation exception | as above |

Why the bounds are enough. Connections do not interact: no action reads two of them, so one
shows what there is (the proofs cover any number). Three statements are one that is held,
one a helper makes and one left over; two nested calls are a callback in a call of another,
and with three a callback steps once more the statement that two others are stepping. An
array of four has a first, a last and two in between, and fills up; two pairs give
duplicates. Threads get an array of two, which two of them can fill, overrun and empty; what
a third one adds, the count written back late, was found when the proof for any number of
threads failed, and is in the bounds that `TypeOK` gives. Two versions of two statements
have a file half done, a file done and a file not begun; a third that the column takes for
the first has two files of one version. With a buffer of two, the results end before, at and
after the end of a batch, and after a row was lost in the second batch. Arrays of two are
longer than, as long as and shorter than the parameters, and can fail first, last or not at
all; one value that can be bound and NULL tell an old value from a new one. The numbers of
`values` lie on both sides of each width: the least integer, one whose low word is zero, one
with more digits than a text keeps, one beyond the range; each of its texts is one on which
two parsers differ. `MaxRefs`, `MaxDepth`, `MaxCrashes`, `MaxRows`, `MaxLen` and `MaxDrift`
are bounds of the model and not of the code; `Max` is 64 in the code. `CHECK_DEADLOCK FALSE`
is set for the runs of `Lifecycle` alone, where all the structs can be used up or the run
can be over.

Fairness. `UpdateCallbacks!FairSpec`: callbacks return and the loop goes on, both on the one
thread that is inside sqlite3. `Migration!RunningSpec`: a call into sqlite returns, since no
busy handler waits. Crashing is never forced and never prevented, up to its bound.
`RestartingSpec` is an assumption about the application, not the code, and
`EventuallyMigrated` says so: it needs repeatable SQL and no other locker.
`FastEnumeration!FairSpec`: a loop that was entered goes on. `UpdateCallbacksThreads` has
none: threads need not run; that they never block each other is its deadlock check.

Abstract specifications. `SharedHandle` counts holders and lets the last one close;
`Lifecycle` implements it with the holders being the application's references, the observers
and the live statements. `CallbackRegistry` has a bag, so that the order in the array and
its rearrangement are invisible except for what is called. `UpdateCallbacks` implements it
call by call; `UpdateCallbacksThreads` does in mode `guarded`, where the accesses of a call
add up to one step, which is taken when the call returns.

## 4. What is proved

All of it for every value of the constants, under the assumptions each module names
(`ConstantsAssumption`, `MaxAssumption`), which TLC evaluates in the runs.

**Lifecycle, any application** (`LifecycleProofs`, whatever `Rules` and `Helpers` are):
`TypeCorrect`, `CountsAreExact`, `StatementsPin`, `RunningCallsAreSafe`. None of the three
properties is inductive. The invariant `IInv` adds

* what each frame of `calls` promises (`FrameIsSound`): a helper's statement is live,
  running, held by the helper alone and by no reference of the application's; the statement
  of an application's step has been prepared on that connection, and nothing more, since
  callbacks may do anything to it;
* that no other frame has the private statement of a helper (`HelpersAreAlone`), without
  which the release at the end of one could free what another is about to return to;
* that a struct is live while its count is positive, and that a Vdbe keeps its handle open
  even when its struct is gone (`VdbeKeepsHandleOpen`), which is what makes a close inside a
  callback harmless.

The proof has a lemma for each kind of step (one struct gains or loses a holder, a statement
is made, its Vdbe changes, a frame is pushed or popped), stated on the records the operators
build. The counting of live statements rests on the library's facts about `Cardinality`.

**Lifecycle, careful applications** (`LifecycleCarefulProofs`, under `Careful`: all six
rules, and only helpers that finalize): `CarefulIsSafe`, `CarefulLeaksNoHandle`,
`CarefulSharesHandle`. The invariant is `IInv`, the two properties, and what ties them
together: a freed statement was finalized (`FreedStatementIsFinalized`), a connection that a
call under way will use again without holding it is held by somebody who keeps it, be it a
helper further down (`BorrowedIsPinned`), a statement that is stepped is held and still
runs, in one call only (`StepsAreUndisturbed`), and the helpers on the stack finalize
(`HelpersFinalize`). The refinement then goes action by action: what changes the sum of the
holders is a step of `SharedHandle`, everything else a stutter.

**Update callbacks** (`UpdateCallbacksProofs`): `TypeCorrect`, `HookIsExact`, `AtMostOnce`,
`MissedOnlyAfterRemoval`, `ArrayIsABag`, for an array of any size and any set of callbacks.
The invariant says that nothing ahead of the loop index was called and everything it has
passed was, unless a removal put it there; that as long as nothing was removed the array
reaches beyond the index. `ArrayIsABag` is the refinement.

**Threads** (`UpdateCallbacksThreadsProofs`, for any number of threads and slots; the types
in every mode, the rest in those that the property names, `guarded` and `oneWriter` or
`guarded` alone): `TypeCorrect`, `HookIsSettled`, `ArrayIsWhole`, `CallsWhatIsRegistered`,
`LockedThreadsAreOneUser`, `LockedThreadsImplementRegistry`. The invariant `CInv` says who
holds the mutex (`MutexIsKept`), so that one thread at most is in an append or remove; for
each access of that thread what the memory is like before it, its register included
(`InStep`); that the hook's loop is in the array, and under the lock among the registered
(`InLoop`); and what holds when nobody is busy (`Quiet`). Four lemmas carry the steps: one
that enters, one that stays inside, one that leaves, one that leaves the memory alone. For
threads that only append there is `LooseInv`; its part for two of them (`Crowded`) says that
each one past the check has a slot of its own to count.

The refinement needs to know what has become of the bag while a call is under way.
`UnderLock` adds that the history variable `settled` is what the array holds (`Same`) until
the count is written, then the array without the pair appended (`Grown`) or with the pair
removed (`Shrunk`), as the access at which the thread is tells (`Pending`). The step of
`CallbackRegistry` is then the one with which the call ends. How often a pair is in the
array is a cardinality, and `OneMoreCounts` and `OneLessCounts` say what one slot does to
it.

**Enumeration** (`FastEnumerationProofs`, for any buffer and results): `TypeCorrect`,
`OrderOfRows`, `BindAfterLoop`, `LoopSeesAllButLost`. The last has an invariant of its own:
the rows given so far are those up to the position of the statement that are not multiples
of the buffer's length plus one (`Progress`).

**Bindings** (`BindingsProofs`, for any query, arrays, dictionaries and orders of the keys):
`TypeCorrect`, `ArrayUpToFailure`, `DictionaryReplacesAll`, `OneShotIsFresh`,
`InsertIsTheDictionary`, `ErrorsAreOfTheLastCall`. Types are inductive as they stand; the
others are about single calls, and what is hard about them is the loops. A loop is a
recursive function (`IsLoop`), and what holds after each of its rounds is shown from the
first round for which it does not, the least element of a set of numbers: that needs no
induction theorem with an operator for a parameter. `BoundOf` says of an array what each
parameter is after `m` rounds, and where the first failure was; `MentionedIn` does of a
dictionary. The insert composes the two: what one order of the keys binds to a placeholder
is the value of the column with that placeholder.

**Values** (`ValuesProofs`, for integers and doubles of any width, any texts and objects):
`TypeCorrect`, `ObjectsAreKept`, `NumbersAreKept`, `DatesDriftByEpochs`. First the
arithmetic: a number with few digits is rounded to itself (`MultipleIsExact`), rounding to
fewer digits and then to more is rounding once (`RoundedIsExact`), and the low word of a
narrow integer is that integer (`LowWordOfNarrow`). The powers of two need be no more than
numbers of which the larger are multiples of the smaller (`StepsAssumption`). Then what each
affinity stores and each reader reads, and the invariants: an integer stays the integer or
becomes its numeral (`IntegersStay`), a number its value, as a number or, if it lay in a
text column, as a numeral (`ValuesStay`), a date its seconds less two epochs per copy
(`DatesStay`). `DatesDriftByEpochs` has a hypothesis, `DatesAreExact`: a double holds the
dates, and what they drift to, exactly. It is true of doubles for dates within millions of
years; the instance of the run satisfies it too, as an assumption of `MCValues` checks.

**Migrations** (`MigrationProofs`). `TypeCorrect` for any number of processes.
`AloneAgreesWithLedger` and `AloneOkMeansMigrated` for a process that has the database to
itself (`Alone`), with any files, failures and crashes. The invariant `AInv` says that a job
in the middle of the API has a version (`Versioned`), that SQL and record run only on the
answer that asked for them (`AskedFor`), that a version has a row at most (`OneRow`), and
that what a run has passed is recorded (`Accounted`).

`LedgerHolds`, for any number of processes, with other lockers and crashes, for a directory
without undo files (`Forward`). Its invariant says of each process that the statements
before its part have been performed, all of them once it is on its way to the record
(`Sound`); as nobody drops anything, no other process can break that.

`AloneLeavesNothingElseOut`, for a process alone that migrates directories, undo files among
them. Its invariant (`HInv`) says that what is recorded ran to its end (`Performed`), and
that what a file created is there unless its undo file ran, or ran in part and has to run
again (`Kept`). The theorem has a hypothesis, `UndosMatch`: no undo file has, to the column,
the version of another file than its own. The directory of `migration_converges` satisfies
it. Without it the property is false, and TLC shows how with the files `1.sql`, `001.sql`
and `1.undo.sql`: the undo file is killed in the middle of undoing the first, the second is
performed and recorded as the same version, and nothing comes back to what is left of the
first.

**Model-checked only.**  Liveness (`DispatchEnds`, `RunsReturn`, `EventuallyMigrated`,
`LoopEnds`), which is out of the prover's reach, as is anything about `ENABLED`. Every other
property of a passing run is a theorem, some under the hypotheses named above: `Careful`,
`Alone`, `Forward`, `UndosMatch`, `DatesAreExact`. The runs of those properties satisfy
them.

## 5. What is not modelled

* SQL functions and extensions: a registration is one call of sqlite3, and the functions
  keep nothing. A callback that a function is, is in `Lifecycle`.
* The Objective-C objects' ownership: their retain counts and autorelease pools are
  Foundation's. Each takes a reference in its initializer and gives it back in `dealloc`,
  and so is one holder in `Lifecycle`. An object around a NULL struct is not modelled; what
  a NULL statement does to helpers is.
* The text of SQL, and the one byte an insert with an empty dictionary writes before its
  buffer; property lists, which are data to this code; date formatters.
* A failing allocation, the CoreFoundation allocators, the UTF-8 helper, bundle resources:
  no state outlives the call.
* `SQLite3ConnectionSetBusyTimeout`: the migrations are run without one, and a lock is tried
  once.
* Threads elsewhere than in the update callbacks: retain counts are not atomic, and the
  source claims nothing about sharing a struct.
* Callbacks inside migrations: `Lifecycle` has the helpers and the `Execute` they are made
  of, and what the application calls between; that it keeps its connection for the length of
  a migration is not modelled.
* Backups, which are declared and not implemented; the commented-out parts of observers.
* SQLite itself. The amalgamation is most of the repository's lines, is vendored, and is
  modelled only as the wrapper sees it.

## 6. What the code does against its documentation

Two have a run that shows them; the others are in a property that states what the code does
instead.

* `SQLite3ConnectionExecutev`, and so every `Drop...`, releases a statement it never
  finalized, against `SQLite3Statement.c` 113-116 (`lifecycle_executev`). From then on the
  handle cannot be closed. Nor does any object of `SQLite3Statement.m` finalize (line 55),
  the one of `enumerateWithQuery:usingBlock:` included, and `Tests/Tests.m` 176 says that a
  release finalizes; it does not. The helpers of `lifecycle_careful` therefore leave both
  out.
* A `for`-`in` loop raises a mutation exception when a later batch ends the result
  (`enumeration_mutation`), and loses the row that follows each full batch
  (`FinishedLoopSees` has the exact set).
* A callback that removes itself hides the one that takes its slot from the current row
  change (`MissedOnlyByRemoval` says precisely when).
* `SQLite3MigrationExecute` (line 183) and `ExecuteUndo` record a migration that failed,
  where `SQLite3Migration.c` 118 takes the record for "already performed". `LedgerIsTrue`
  therefore is about directories.
* A directory's undo files are run forward by migrating it (`SQLite3Migration.c` 64, against
  14), and the files are run in the order the directory delivers them, although line 33 says
  that versions are invoked in lexicological order.
* The version of a path ends at the first dot of the whole path (line 42), so the documented
  examples, `../migrations/...init.sql` (lines 36-38), have none: such a file is skipped
  with the status OK.
* The advice to write 001 for 1 (line 38) names the same version twice: the column's type,
  "string" (line 96), has numeric affinity. Of two such files one is never run.
  `NothingElseIsLeftOut` has all the ways for a file to be left out.
* Between the SQL of a migration and its record a crash loses the record; the source has a
  TODO for it. The next run repeats the SQL, which `EventuallyMigrated` shows to be enough
  only if it can be repeated.
* Leaving a loop early leaves the statement on its row, and the next bind is refused;
  `BindTakesEffect` holds for loops that end by themselves.
* `Tests/Tests.m` 167-170 binds a dictionary whose keys are `:name` and `:data`; the code
  takes the prefix off the parameter and looks for `name`, so both parameters become NULL
  (`DictionaryLeavesNothingStale`, with the prefixed key of the run).
* A date loses two epochs each time it is written and read (`SQLite3Statement.c` 274, 548;
  `DatesDrift`).
* `SQLite3ConnectionHasError` compares with OK (`SQLite3Connection.c` 128), so that a row,
  or the end of the rows, is reported as an error, against its comments (94-95 and 126) and
  the loop of `Readme.md` 192-203, which would end in `exit(-1)`. `StatementStep` and
  `HasError` of `Bindings` have it so; `ErrorsAreTheLastCalls` claims nothing of a step that
  did not fail.
* Conversely a call that failed may leave no error to report: one on a statement without a
  Vdbe, NULL for the SQL of a helper, a value of an unsupported type
  (`ErrorsAreTheLastCalls` names them).
* Nothing holds on to a statement while it is stepped (`SQLite3Statement.c` 145-147) or to
  the connection of an insert when its statement is released (734, used in 737-742);
  `CallbackKeepsStatement` and `CallbackKeepsConnection` are rules that no document states.
* A date in a text that is not UTF-8 ends the process instead of being NULL
  (`SQLite3Statement.c` 554-556).
* A flag is read from the low word of an integer, and is false if that is zero
  (`SQLite3Statement.c` 457; `NumbersSurvive` promises flags for narrow integers only).
* An insert with an empty dictionary is not ignored, as `SQLite3Statement.c` 704 says: the
  placeholders are terminated one byte before their buffer. Not modelled.

## 7. Where to go on

But for what section 5 lists, the operations on state that the wrapper itself keeps are
actions of a module, and the safety properties of the runs are proved. Left to prove is what
of the hypotheses could be weaker: `Alone` for a process whose rivals only read,
`UndosMatch` for directories whose undo files are complete. Left to model, should the source
get them, are a lock in append and remove, a transaction around a migration and its record,
and observers that can be released: each is a change of a few actions, and the properties
are there.
