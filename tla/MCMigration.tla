----------------------------- MODULE MCMigration -----------------------------
(* Migration on small directories and applications.                           *)
EXTENDS Migration

TwoUps   == {<<"1", "sql">>, <<"2", "sql">>}

\* Two spellings of version 1, a hidden file, and one that is no migration.
Untidy   == {<<"1", "sql">>, <<"001", "init", "sql">>, <<"", "sql">>, <<"2", "txt">>}

\* The same with an undo file.
Undoable == {<<"1", "sql">>, <<"001", "sql">>, <<"2", "sql">>, <<"2", "undo", "sql">>}

InMigrations ==
  {[dotted |-> dotted, name |-> <<"2", "sql">>] : dotted \in BOOLEAN}

Themselves == [v \in Versions |-> v]
Numbers    == [v \in Versions |-> IF v = "001" THEN "1" ELSE v]
None       == {}
=============================================================================
