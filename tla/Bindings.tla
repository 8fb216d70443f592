-------------------------------- MODULE Bindings --------------------------------
(***************************************************************************)
(* Binding values to the parameters of a prepared statement: one by index    *)
(* or by name, an array, a dictionary, and the one-shot helpers that bind,   *)
(* step and throw the statement away, among them the insert of a dictionary. *)
(* And what the connection says of errors meanwhile, which is sqlite3's last *)
(* error code: every call overwrites it, or leaves it.                       *)
(*                                                                          *)
(* SQL without a statement in it ("", a comment) compiles all the same, to   *)
(* a statement whose stmt is NULL.  It has no parameters.                    *)
(*                                                                          *)
(* Names are pairs of a prefix (":", "@", "$", or "" for none) and a word.   *)
(* Of a value matters whether it can be bound, and which one it is.         *)
(***************************************************************************)
EXTENDS Integers, Sequences, FiniteSets

CONSTANTS
  Queries,      \* the names of the parameters, one sequence per query
  NoName,       \* the name of a parameter that is a plain "?"
  Keys,         \* the names the application uses
  Columns,      \* columns of the table it inserts into
  Good,         \* values that can be bound
  Unsupported,  \* values of a type BindCFType does not know
  TooBig,       \* values sqlite3 refuses for their size
  Null,         \* NULL: a missing value, kCFNull, a parameter without a value
  MaxLen        \* bound: the longest array

ASSUME ConstantsAssumption ==
  /\ Null \notin Good /\ Good \cap Unsupported = {} /\ Good \cap TooBig = {}
  /\ Null \notin Unsupported \cup TooBig /\ Unsupported \cap TooBig = {}
  /\ Queries \subseteq Seq({NoName} \cup Keys)
  /\ NoName \notin Keys
  /\ \A k \in Keys : k = <<k[1], k[2]>>
  /\ IsFiniteSet(Columns)
  /\ \A q \in Queries : \A i, j \in DOMAIN q : q[i] = q[j] /\ q[i] # NoName => i = j
  /\ MaxLen \in Nat

VARIABLES
  prepared, \* its SQL has a statement in it: stmt is not NULL
  query,    \* the names of the parameters of the statement
  params,   \* their values
  busy,     \* the statement was stepped and not reset
  status,   \* what the last call returned
  errcode,  \* db->errCode, which HasError, GetStatus and CreateError look at
  ran,      \* history: what a one-shot helper that has just returned ran with
  row       \* history: the row that an insert which has just returned ran with

vars == <<prepared, query, params, busy, status, errcode, ran, row>>

Values   == Good \cup Unsupported \cup TooBig \cup {Null}
Bound    == Good \cup {Null}
Arrays   == UNION {[1 .. n -> Values] : n \in 0 .. MaxLen}
Dictionaries == UNION {[K -> Values] : K \in SUBSET Keys}
Rows     == UNION {[C -> Values] : C \in SUBSET Columns}
Nothing  == [c \in {} |-> Null]
Statuses == {"ok", "error", "misuse", "range", "toobig", "row", "done"}

TypeOK ==
  /\ prepared \in BOOLEAN
  /\ ~prepared => query = <<>> /\ ~busy
  /\ query \in Queries
  /\ params \in [DOMAIN query -> Bound]
  /\ busy \in BOOLEAN
  /\ status \in Statuses
  /\ errcode \in Statuses
  /\ ran \in [DOMAIN query -> Bound]
  /\ \E C \in SUBSET Columns : row \in [C -> Bound]

-----------------------------------------------------------------------------
(* One parameter.                                                            *)

\* A statement as far as binding is concerned, what the last bind returned and
\* the error code of its connection.  Preparing a statement clears the code.
NewStatement(parameters) ==
  [prepared |-> TRUE, params |-> [i \in parameters |-> Null], busy |-> FALSE,
   status |-> "ok", errcode |-> "ok"]

Unbound == [i \in DOMAIN query |-> Null]
Fresh   == NewStatement(DOMAIN query)
Current == [prepared |-> prepared, params |-> params, busy |-> busy,
            status |-> "ok", errcode |-> errcode]

\* Mutant: the size of a value is not checked.
RefusalWithoutLimit(s, i, v) ==
  IF v \in Unsupported             THEN "error"
  ELSE IF s.busy \/ ~s.prepared    THEN "misuse"
  ELSE IF i \notin DOMAIN s.params THEN "range"
  ELSE "ok"

\* Why the bind of v to parameter i is refused, in the order it is found out.
Refusal(s, i, v) ==
  IF v \in Unsupported             THEN "error"
  ELSE IF s.busy \/ ~s.prepared    THEN "misuse"
  ELSE IF i \notin DOMAIN s.params THEN "range"
  ELSE IF v \in TooBig             THEN "toobig"
  ELSE "ok"

\* SQLite3StatementBindCFType, and the functions of one type each.  sqlite3
\* drops the old value before it looks at the size of the new one.  It does not
\* hear of a value of an unsupported type, and has no connection to tell when
\* stmt is NULL.
BindCFType(s, i, v) ==
  LET refusal == Refusal(s, i, v)
  IN [s EXCEPT !.status = refusal,
               !.errcode = IF refusal = "error" \/ ~s.prepared THEN @ ELSE refusal,
               !.params = CASE refusal = "ok"     -> [@ EXCEPT ![i] = v]
                            [] refusal = "toobig" -> [@ EXCEPT ![i] = Null]
                            [] OTHER              -> @]

\* SQLite3StatementGetBindParameterIndexWithName: the prefix is part of the name.
IndexWithName(name) ==
  IF \E i \in DOMAIN query : query[i] = name
  THEN CHOOSE i \in DOMAIN query : query[i] = name ELSE 0

-----------------------------------------------------------------------------
(* Arrays and dictionaries.                                                  *)

\* Mutant: the loop goes on after a failure, as the one over a dictionary does.
ArrayBoundThrough(s, values) ==
  LET after[n \in 0 .. Len(values)] ==
        IF n = 0 THEN s ELSE BindCFType(after[n - 1], n, values[n])
  IN after[Len(values)]

\* Mutant: off by one, parameters counted from zero.
ArrayBoundFromZero(s, values) ==
  LET after[n \in 0 .. Len(values)] ==
        IF n = 0 \/ after[n - 1].status # "ok" THEN IF n = 0 THEN s ELSE after[n - 1]
        ELSE BindCFType(after[n - 1], n - 1, values[n])
  IN after[Len(values)]

\* The loop of SQLite3StatementBindArray ends at the first failure.
ArrayBound(s, values) ==
  LET after[n \in 0 .. Len(values)] ==
        IF n = 0 THEN s
        ELSE IF after[n - 1].status # "ok" THEN after[n - 1]
        ELSE BindCFType(after[n - 1], n, values[n])
  IN after[Len(values)]

WithoutPrefix(name) == <<"", name[2]>>

\* Mutant: a key is looked up with its prefix.
LookedUpPrefixed(dictionary, i) ==
  IF query[i] = NoName \/ query[i] \notin DOMAIN dictionary THEN Null ELSE dictionary[query[i]]

\* What a dictionary says of parameter i.  Keys have no prefix.
LookedUp(dictionary, i) ==
  IF query[i] = NoName \/ WithoutPrefix(query[i]) \notin DOMAIN dictionary THEN Null
  ELSE dictionary[WithoutPrefix(query[i])]

\* Mutant: a parameter the dictionary does not mention keeps its value.
DictionaryBoundPartly(s, dictionary) ==
  LET after[n \in 0 .. Len(query)] ==
        IF n = 0 THEN s
        ELSE IF LookedUp(dictionary, n) = Null THEN after[n - 1]
        ELSE BindCFType(after[n - 1], n, LookedUp(dictionary, n))
  IN after[Len(query)]

\* The loop of SQLite3StatementBindDictionary goes through all the parameters and
\* returns the status of the last.
DictionaryBound(s, dictionary) ==
  LET after[n \in 0 .. Len(query)] ==
        IF n = 0 THEN s
        ELSE BindCFType(after[n - 1], n, LookedUp(dictionary, n))
  IN after[Len(query)]

-----------------------------------------------------------------------------
(* The calls.                                                                *)

\* ran and row are about the call before only.
Forget == ran' = Unbound /\ row' = Nothing

Becomes(s) ==
  /\ params' = s.params /\ status' = s.status /\ errcode' = s.errcode
  /\ Forget
  /\ UNCHANGED <<prepared, query, busy>>

BindWithIndex(i, v)   == Becomes(BindCFType(Current, i, v))
BindWithName(name, v) == Becomes(BindCFType(Current, IndexWithName(name), v))
BindArray(values)     == Becomes(ArrayBound(Current, values))
BindDictionary(d)     == Becomes(DictionaryBound(Current, d))

\* Allowed on a busy statement too.  Of a NULL stmt sqlite3_clear_bindings does
\* not return: Lifecycle.tla counts that as a fault.
StatementClearBindings ==
  /\ prepared
  /\ params' = Unbound
  /\ status' = "ok"
  /\ Forget
  /\ UNCHANGED <<prepared, query, busy, errcode>>

\* A row and the end of the rows are error codes like any other.  A NULL stmt is
\* refused without a word to the connection.
StatementStep ==
  /\ busy' = prepared
  /\ status' \in IF prepared THEN {"row", "done", "error"} ELSE {"misuse"}
  /\ errcode' = IF prepared THEN status' ELSE errcode
  /\ Forget
  /\ UNCHANGED <<prepared, query, params>>

\* The error of the execution that ends is returned once more.  A statement that
\* was not stepped, or is NULL, leaves the error code alone.
StatementReset ==
  /\ busy' = FALSE
  /\ status' \in IF busy THEN {"ok", "error"} ELSE {"ok"}
  /\ errcode' = IF busy THEN status' ELSE errcode
  /\ Forget
  /\ UNCHANGED <<prepared, query, params>>

\* Mutant: the reset is left out and so the last error code is that of the step.
StepAndThrowAwayUnreset ==
  /\ status' \in {"row", "done", "error"}
  /\ errcode' = status'
  /\ UNCHANGED <<prepared, query, params, busy>>

\* What the one-shot helpers do with a statement of their own that they have bound:
\* step, reset, clear, finalize, release.  The status is that of the step, whatever
\* the binding returned, and the reset leaves its error.
StepAndThrowAway ==
  /\ status' \in {"row", "done", "error"}
  /\ errcode' = IF status' = "error" THEN "error" ELSE "ok"
  /\ UNCHANGED <<prepared, query, params, busy>>

\* Both clear the bindings of their statement, which therefore is not NULL.
ExecuteWithArrayBindings(values) ==
  prepared /\ StepAndThrowAway /\ ran' = ArrayBound(Fresh, values).params /\ row' = Nothing

ExecuteWithDictionaryBindings(d) ==
  prepared /\ StepAndThrowAway /\ ran' = DictionaryBound(Fresh, d).params /\ row' = Nothing

\* The SQL of a one-shot helper or an insert does not compile.
DoesNotCompile ==
  /\ status' = "error" /\ errcode' = "error"
  /\ Forget
  /\ UNCHANGED <<prepared, query, params, busy>>

\* A one-shot helper or Execute is given NULL for its SQL, and does nothing.
HasNoSQL ==
  /\ status' = "error"
  /\ Forget
  /\ UNCHANGED <<prepared, query, params, busy, errcode>>

\* The orders in which CFDictionaryGetKeysAndValues can deliver the keys.
Enumerations(d) ==
  {e \in [1 .. Cardinality(DOMAIN d) -> DOMAIN d] : \A i, j \in DOMAIN e : e[i] = e[j] => i = j}

\* Mutant: the keys and the values are enumerated separately.
InsertedInOtherOrder(d, e) ==
  LET values == [i \in DOMAIN e |-> d[e[Len(e) + 1 - i]]]
      bound  == ArrayBound(NewStatement(DOMAIN e), values).params
  IN [c \in DOMAIN d |-> bound[CHOOSE i \in DOMAIN e : e[i] = c]]

\* The row of an insert whose columns and values are in the order e.
Inserted(d, e) ==
  LET bound == ArrayBound(NewStatement(DOMAIN e), [i \in DOMAIN e |-> d[e[i]]]).params
  IN [c \in DOMAIN d |-> bound[CHOOSE i \in DOMAIN e : e[i] = c]]

\* SQLite3InsertWithTableNameAndDictionary.  An empty dictionary makes it write
\* in front of the string of placeholders, and is left out.
InsertWithTableNameAndDictionary(d) ==
  /\ DOMAIN d # {}
  /\ \E e \in Enumerations(d) : row' = Inserted(d, e)
  /\ ran' = Unbound
  /\ StepAndThrowAway

-----------------------------------------------------------------------------
Init ==
  /\ query \in Queries
  /\ prepared \in BOOLEAN
  /\ ~prepared => query = <<>>
  /\ params = Unbound
  /\ busy = FALSE
  /\ status = "ok"
  /\ errcode = "ok"
  /\ ran = Unbound
  /\ row = Nothing

Bind ==
  \/ \E v \in Values : \/ \E i \in 0 .. Len(query) + 1 : BindWithIndex(i, v)
                       \/ \E name \in Keys : BindWithName(name, v)
  \/ \E values \in Arrays : BindArray(values)
  \/ \E d \in Dictionaries : BindDictionary(d)

Next ==
  \/ Bind
  \/ \E values \in Arrays : ExecuteWithArrayBindings(values)
  \/ \E d \in Dictionaries : ExecuteWithDictionaryBindings(d)
  \/ \E d \in Rows : InsertWithTableNameAndDictionary(d)
  \/ DoesNotCompile \/ HasNoSQL
  \/ StatementClearBindings \/ StatementStep \/ StatementReset

Spec == Init /\ [][Next]_vars
-----------------------------------------------------------------------------
(* Properties.                                                               *)

\* What a dictionary has for parameter i, by the bare name; NULL if nothing.
Meant(d, i) ==
  IF \E k \in DOMAIN d : k[1] = "" /\ query[i] # NoName /\ k[2] = query[i][2]
  THEN d[<<"", query[i][2]>>] ELSE Null

OrNull(v) == IF v \in Bound THEN v ELSE Null

\* Statement.c:369-371: an array is bound up to the first failure, nothing after
\* it is touched, and kSQLite3StatusOK means that all of it was bound.
ArrayIsBoundUpToFailure ==
  [][status' \notin {"row", "done"} => \A values \in Arrays : BindArray(values) =>
       \E n \in 0 .. Len(values) :
         /\ \A i \in 1 .. n : i \in DOMAIN query /\ params'[i] = values[i]
         /\ status' = "ok" <=> n = Len(values)
         /\ \A i \in DOMAIN query : i > n + 1 => params'[i] = params[i]
         /\ n + 1 \in DOMAIN query => params'[n + 1] \in {params[n + 1], Null}]_vars

\* A dictionary replaces every parameter of a statement that is not busy: one it
\* does not mention becomes NULL, and an old value survives only where the new
\* one has an unsupported type.  A busy statement keeps all of its values.
DictionaryLeavesNothingStale ==
  [][status' \notin {"row", "done"} => \A d \in Dictionaries : BindDictionary(d) =>
       \A i \in DOMAIN query :
         params'[i] = IF busy \/ Meant(d, i) \in Unsupported THEN params[i]
                      ELSE OrNull(Meant(d, i))]_vars

\* A one-shot helper runs its SQL with what it was given, never with what another
\* statement holds.  A value that cannot be bound is NULL instead, and in an
\* array so are all that follow it; the SQL runs all the same.
OneShotRunsWithWhatItWasGiven ==
  [][row' = Nothing =>
     /\ \A values \in Arrays : ExecuteWithArrayBindings(values) =>
          \A i \in DOMAIN query :
            ran'[i] = IF i <= Len(values) /\ \A j \in 1 .. i : values[j] \in Bound
                      THEN values[i] ELSE Null
     /\ \A d \in Dictionaries : ExecuteWithDictionaryBindings(d) =>
          \A i \in DOMAIN query : ran'[i] = OrNull(Meant(d, i))]_vars

\* An insert stores every value that can be bound if all of them can.  Otherwise
\* the row is inserted all the same and complete in its columns; a value that
\* cannot be bound is NULL in it, and nothing ends up in another's column.
InsertStoresTheDictionary ==
  [][row' # Nothing => \A d \in Rows : InsertWithTableNameAndDictionary(d) =>
       /\ DOMAIN row' = DOMAIN d
       /\ \A c \in DOMAIN d : row'[c] \in {d[c], Null}
       /\ (\A c \in DOMAIN d : d[c] \in Bound) => row' = d
       /\ \E c \in DOMAIN d : row'[c] = OrNull(d[c])]_vars

HasError == errcode # "ok"

Failed == status \notin {"ok", "row", "done"}

\* What HasError and CreateError are worth after a call.  A failure is reported as
\* what it is, except where sqlite3 was not asked (a value of an unsupported type,
\* NULL for the SQL) or was asked with a NULL stmt, which has no connection.  After
\* a success a reported error is an older one, of a call this one did not touch.
\* The one-shot helpers report exactly the error of their step, never one of the
\* binding before it, and no row.  Of a step that did not fail nothing is claimed:
\* a row and the end of the rows are reported as errors.
ErrorsAreTheLastCalls ==
  [][/\ Failed' => \/ errcode' = status'
                   \/ status' = "misuse" /\ ~prepared
                   \/ status' = "error" /\ (Bind \/ HasNoSQL)
     /\ status' = "ok" => errcode' \in {"ok", errcode}
     /\ ran' # Unbound \/ row' # Nothing => (HasError' <=> Failed')]_vars
=============================================================================
