--------------------------------- MODULE Values ---------------------------------
(***************************************************************************)
(* What a value becomes on its way into a column and out of it: the binding   *)
(* of CoreFoundation objects, the affinity of the column, and the readers     *)
(* that create objects from it.  The state is one cell that is written, and   *)
(* copied from column to column by binding what a reader returned.            *)
(*                                                                          *)
(* Reals are counted in halves: <<"real", 5>> is 2.5.  A double is exact up to *)
(* Mantissa halves, and then in ever larger steps.  Texts are the numerals     *)
(* sqlite prints and words, of which matters what the parsers make of them.    *)
(***************************************************************************)
EXTENDS Integers, FiniteSets

CONSTANTS
  WideLimit,  \* 2^63: the integers of 64 bits are below it
  NarrowLimit,\* 2^31: those of 32 bits
  Steps,      \* the powers of two, in halves, that doubles are apart
  Mantissa,   \* halves up to which every double is exact
  Digits,     \* halves up to which the 15 digits of a printed double are exact
  Overflow,   \* what the processor makes of the cast of 2^63 to int64_t
  Epoch,      \* kCFAbsoluteTimeIntervalSince1970, in halves
  Words,      \* texts that sqlite does not print for a number
  Meaning,    \* what the parsers make of each of them
  Data,       \* blobs
  Empty,      \* the one without bytes
  Columns,    \* affinities of the columns
  Givens,     \* the objects the application binds
  MaxDrift    \* bound: how often a value is copied as a date

MinWide == -WideLimit
MaxWide == WideLimit - 1
Wide    == MinWide .. MaxWide
Narrow  == -NarrowLimit .. NarrowLimit - 1

NULL     == <<"NULL">>
kCFNull  == <<"kCFNull">>
None     == <<"none">>
SqlNull  == <<"null">>

VARIABLES
  column,   \* the affinity of the column the value lies in
  cell,     \* the value
  given,    \* history: the object it was written from, None if by SQL
  passed,   \* history: the columns it lay in since
  read,     \* history: the readers it was copied with since
  drift     \* history: how often as a date

vars == <<column, cell, given, passed, read, drift>>

Word(w)    == <<"text", <<"word", w>>>>
Numeral(n) == <<"text", <<"numeral", n>>>>

-----------------------------------------------------------------------------
(* Arithmetic.                                                               *)

Abs(h) == IF h < 0 THEN -h ELSE h

\* The multiple of unit nearest to h, of two the even one.
Nearest(h, unit) ==
  LET q == h \div unit
      r == 2 * (h % unit)
  IN IF r < unit \/ (r = unit /\ q % 2 = 0) THEN q * unit ELSE (q + 1) * unit

\* h with as many digits as numbers up to limit have.  Nothing is too large for
\* the largest step.
Rounded(h, limit) ==
  LET fits == {u \in Steps : Abs(h) <= limit * u} IN
    IF fits = {} THEN h ELSE Nearest(h, CHOOSE u \in fits : \A v \in fits : u <= v)

Double(h)  == Rounded(h, Mantissa)
Printed(h) == Rounded(h, Digits)

\* doubleToInt64: towards zero, and anything too large is the smallest integer.
ToInteger(h) ==
  LET whole == IF h < 0 THEN -((-h) \div 2) ELSE h \div 2
  IN CASE h < 2 * MinWide \/ h > 2 * (MaxWide + 1) -> MinWide
       [] h = 2 * (MaxWide + 1)                    -> Overflow
       [] OTHER                                    -> whole

\* The low word of an integer, as the cast to int leaves it.
LowWord(n) == CHOOSE i \in Narrow : (n - i) % (2 * NarrowLimit) = 0

-----------------------------------------------------------------------------
(* The constants.                                                            *)

IsDouble(h) == h \in Int /\ h = Double(h)

IsNumber(n) ==
  \/ n[1] = "integer" /\ n = <<"integer", n[2]>> /\ n[2] \in Wide
  \/ n[1] = "real" /\ n = <<"real", n[2]>> /\ IsDouble(n[2])

IsDate(d) == d = NULL \/ (d[1] = "date" /\ d = <<"date", d[2]>> /\ IsDouble(d[2]))

\* number   the number a word is to sqlite's numeric affinity, or None
\* prefix   the number GetDouble reads at its start, in halves
\* integer  the number GetInt64 reads at its start
\* strtod   what strtod reads, NaN included, or None
\* date     what "yyyy-MM-dd HH:mm:ss.SSS" makes of it, or NULL
\* cut      the part before the first NUL
\* utf8     whether it is well-formed
IsMeaning(m) ==
  /\ m.number = None \/ IsNumber(m.number)
  /\ IsDouble(m.prefix)
  /\ m.integer \in Wide
  /\ m.strtod \in {None, <<"nan">>} \/ (m.strtod[1] = "real" /\ IsNumber(m.strtod))
  /\ IsDate(m.date)
  /\ m.cut \in Words /\ Meaning[m.cut].cut = m.cut
  /\ m.utf8 \in BOOLEAN /\ (m.utf8 => Meaning[m.cut].utf8)

IsText(t) ==
  \/ t[1] = "word" /\ t = <<"word", t[2]>> /\ t[2] \in Words
  \/ t[1] = "numeral" /\ t = <<"numeral", t[2]>> /\ IsNumber(t[2])

\* A string of CoreFoundation is well-formed.
IsObject(o) ==
  \/ o \in {NULL, kCFNull}
  \/ /\ o[1] = "string" /\ o = <<"string", o[2]>> /\ IsText(o[2])
     /\ o[2][1] = "word" => Meaning[o[2][2]].utf8
  \/ o[1] = "data" /\ o = <<"data", o[2]>> /\ o[2] \in Data
  \/ o[1] = "date" /\ IsDate(o)
  \/ o[1] = "number" /\ o = <<"number", o[2]>> /\ (o[2] = <<"nan">> \/ IsNumber(o[2]))
  \/ o[1] = "boolean" /\ o = <<"boolean", o[2]>> /\ o[2] \in BOOLEAN

ASSUME LimitsAssumption ==
  /\ WideLimit \in Nat \ {0, 1} /\ NarrowLimit \in 1 .. WideLimit
  /\ Mantissa \in Nat \ {0} /\ Digits \in 1 .. Mantissa
  /\ Overflow \in {MinWide, MaxWide} /\ Epoch \in Nat /\ MaxDrift \in Nat

ASSUME StepsAssumption ==
  /\ Steps \subseteq Nat \ {0}
  /\ 1 \in Steps /\ \E u \in Steps : u >= 2 * WideLimit
  /\ \A u, v \in Steps : u <= v => v % u = 0

ASSUME ObjectsAssumption ==
  /\ Columns \subseteq {"none", "numeric", "text"}
  /\ Empty \in Data
  /\ \A w \in Words : IsMeaning(Meaning[w])
  /\ \A o \in Givens : IsObject(o)

-----------------------------------------------------------------------------
(* Binding.  sqlite3_bind_double takes NaN for NULL.                          *)

\* Mutant: NaN is bound like any other number.
BindNumberWithNaN(n) == n

BindNumber(n) == IF n = <<"nan">> THEN SqlNull ELSE n

BindAbsoluteTime(time) == <<"real", Double(time - Epoch)>>

\* The text is passed without its length, and so ends at the first NUL.
BindString(text) ==
  IF text[1] = "word" THEN Word(Meaning[text[2]].cut) ELSE <<"text", text>>

\* sqlite3_bind_blob takes a NULL pointer for NULL, whatever the length, which
\* is what CFDataGetBytePtr may return when there are no bytes.
BindData(data) == IF data = Empty THEN {SqlNull, <<"blob", data>>} ELSE {<<"blob", data>>}

\* SQLite3StatementBindCFType: what the value bound can be.  A CFBoolean answers
\* CFNumberGetType and CFNumberGetValue like a small integer.
BindCFType(object) ==
  CASE object[1] = "string"  -> {BindString(object[2])}
    [] object[1] = "data"    -> BindData(object[2])
    [] object[1] = "date"    -> {BindAbsoluteTime(object[2])}
    [] object[1] = "number"  -> {BindNumber(object[2])}
    [] object[1] = "boolean" -> {BindNumber(<<"integer", IF object[2] THEN 1 ELSE 0>>)}
    [] OTHER                 -> {SqlNull}

-----------------------------------------------------------------------------
(* Storing.                                                                  *)

\* A real becomes an integer if nothing is lost, and it is neither the smallest
\* nor the largest.
IntegerAffinity(h) ==
  IF 2 * ToInteger(h) = h /\ ToInteger(h) \notin {MinWide, MaxWide}
  THEN <<"integer", ToInteger(h)>> ELSE <<"real", h>>

NumericAffinity(v) == IF v[1] = "real" THEN IntegerAffinity(v[2]) ELSE v

\* The number a text is as a whole, or None.
WholeNumber(text) == IF text[1] = "numeral" THEN text[2] ELSE Meaning[text[2]].number

\* A number printed; a real has at most 15 digits.
AsText(number) ==
  IF number[1] = "real" THEN Numeral(<<"real", Printed(number[2])>>) ELSE Numeral(number)

\* applyAffinity.
Stored(affinity, v) ==
  CASE affinity = "text" /\ v[1] \in {"integer", "real"} -> AsText(v)
    [] affinity = "numeric" /\ v[1] = "text" /\ WholeNumber(v[2]) # None ->
         NumericAffinity(WholeNumber(v[2]))
    [] affinity = "numeric" /\ v[1] = "real" -> NumericAffinity(v)
    [] OTHER -> v

-----------------------------------------------------------------------------
(* Reading.                                                                  *)

\* The exponent a large real is printed with ends what sqlite reads as integer;
\* the one digit before it is modelled as 1.
IntegerOfNumeral(n) ==
  IF n[1] = "integer" THEN n[2]
  ELSE IF Abs(n[2]) > 2 * Digits THEN (IF n[2] < 0 THEN -1 ELSE 1)
  ELSE ToInteger(n[2])

GetInt64WithColumn(v) ==
  CASE v[1] = "integer" -> v[2]
    [] v[1] = "real"    -> ToInteger(v[2])
    [] v[1] = "text"    -> IF v[2][1] = "numeral" THEN IntegerOfNumeral(v[2][2])
                           ELSE Meaning[v[2][2]].integer
    [] OTHER            -> 0

GetInt32WithColumn(v) == LowWord(GetInt64WithColumn(v))
GetBOOLWithColumn(v)  == GetInt32WithColumn(v) # 0

\* In halves.
GetDoubleWithColumn(v) ==
  CASE v[1] = "integer" -> Double(2 * v[2])
    [] v[1] = "real"    -> v[2]
    [] v[1] = "text"    -> IF v[2][1] = "word" THEN Meaning[v[2][2]].prefix
                           ELSE IF v[2][2][1] = "integer" THEN Double(2 * v[2][2][2])
                           ELSE v[2][2][2]
    [] OTHER            -> 0

\* What strtod makes of a text.
ReadByStrtod(text) ==
  IF text[1] = "word" THEN Meaning[text[2]].strtod
  ELSE <<"real", GetDoubleWithColumn(<<"text", text>>)>>

\* Mutant: integers are read with the narrow reader.
CreateNumberWithColumnNarrow(v) ==
  CASE v[1] = "integer" -> <<"number", <<"integer", GetInt32WithColumn(v)>>>>
    [] v[1] = "real"    -> <<"number", <<"real", GetDoubleWithColumn(v)>>>>
    [] v[1] = "text" /\ ReadByStrtod(v[2]) # None -> <<"number", ReadByStrtod(v[2])>>
    [] OTHER -> kCFNull

CreateNumberWithColumn(v) ==
  CASE v[1] = "integer" -> <<"number", <<"integer", GetInt64WithColumn(v)>>>>
    [] v[1] = "real"    -> <<"number", <<"real", GetDoubleWithColumn(v)>>>>
    [] v[1] = "text" /\ ReadByStrtod(v[2]) # None -> <<"number", ReadByStrtod(v[2])>>
    [] OTHER -> kCFNull

\* Of a text or a number; CoreFoundation refuses text that is not well-formed.
CreateStringWithColumn(v) ==
  IF v[1] # "text" THEN <<"string", AsText(v)[2]>>
  ELSE IF v[2][1] = "word" /\ ~Meaning[v[2][2]].utf8 THEN NULL
  ELSE <<"string", v[2]>>

\* Mutant: the timestamp is read with the narrow reader.
CreateDateWithColumnNarrow(v) ==
  CASE v[1] \in {"integer", "real"} ->
         <<"date", Double(Double(2 * GetInt32WithColumn(v)) - Epoch)>>
    [] v[1] = "text" /\ v[2][1] = "word" ->
         IF Meaning[v[2][2]].utf8 THEN Meaning[v[2][2]].date ELSE None
    [] OTHER -> NULL

\* A number is a timestamp of whole seconds; a numeral is not a date.  None stands
\* for no return: of a text that is not well-formed there is no string, and the
\* NULL in its place is parsed and released, which ends the process.
CreateDateWithColumn(v) ==
  CASE v[1] \in {"integer", "real"} ->
         <<"date", Double(Double(2 * GetInt64WithColumn(v)) - Epoch)>>
    [] v[1] = "text" /\ v[2][1] = "word" ->
         IF Meaning[v[2][2]].utf8 THEN Meaning[v[2][2]].date ELSE None
    [] OTHER -> NULL

CreateDataWithColumn(v) == <<"data", v[2]>>

\* Mutant: a text that reads like a number is one.
CreateCFTypeWithColumnGuessing(v) ==
  CASE v[1] = "null"                -> kCFNull
    [] v[1] \in {"integer", "real"} -> CreateNumberWithColumn(v)
    [] v[1] = "text" -> IF CreateNumberWithColumn(v) # kCFNull THEN CreateNumberWithColumn(v)
                        ELSE CreateStringWithColumn(v)
    [] v[1] = "blob"                -> CreateDataWithColumn(v)

CreateCFTypeWithColumn(v) ==
  CASE v[1] = "null"                -> kCFNull
    [] v[1] \in {"integer", "real"} -> CreateNumberWithColumn(v)
    [] v[1] = "text"                -> CreateStringWithColumn(v)
    [] v[1] = "blob"                -> CreateDataWithColumn(v)

-----------------------------------------------------------------------------
(* The actions.                                                              *)

\* The application binds an object to an insert.
Write(affinity, object) ==
  /\ \E v \in BindCFType(object) : cell' = Stored(affinity, v)
  /\ column' = affinity /\ given' = object
  /\ passed' = {affinity} /\ read' = {} /\ drift' = 0

\* SQL of the application's own can write any text and any blob.
WriteBySQL(affinity, v) ==
  /\ cell' = Stored(affinity, v)
  /\ column' = affinity /\ given' = None
  /\ passed' = {affinity} /\ read' = {} /\ drift' = 0

Copy(reader, affinity, object) ==
  /\ \E v \in BindCFType(object) : cell' = Stored(affinity, v)
  /\ column' = affinity
  /\ passed' = passed \cup {affinity} /\ read' = read \cup {reader}
  /\ UNCHANGED given

\* What a reader returned is bound to an insert into the same or another column.
CopyObject(affinity) ==
  Copy("object", affinity, CreateCFTypeWithColumn(cell)) /\ UNCHANGED drift

CopyNumber(affinity) ==
  Copy("number", affinity, CreateNumberWithColumn(cell)) /\ UNCHANGED drift

CopyDate(affinity) ==
  /\ drift < MaxDrift
  /\ CreateDateWithColumn(cell) # None
  /\ Copy("date", affinity, CreateDateWithColumn(cell))
  /\ drift' = drift + 1

-----------------------------------------------------------------------------
Init ==
  /\ column \in Columns /\ cell = SqlNull
  /\ given = None /\ passed = {column} /\ read = {} /\ drift = 0

Next ==
  \E affinity \in Columns :
    \/ \E object \in Givens : Write(affinity, object)
    \/ \E w \in Words : WriteBySQL(affinity, Word(w))
    \/ \E data \in Data : WriteBySQL(affinity, <<"blob", data>>)
    \/ CopyObject(affinity) \/ CopyNumber(affinity) \/ CopyDate(affinity)

Spec == Init /\ [][Next]_vars
-----------------------------------------------------------------------------
(* Properties.                                                               *)

\* A cell never holds what the affinity of its column converts: no number in a
\* text column; in a numeric one no text that is a number and no real that is
\* an integer inside the range.
TypeOK ==
  /\ column \in Columns /\ column \in passed /\ passed \subseteq Columns
  /\ read \subseteq {"object", "number", "date"}
  /\ given \in Givens \cup {None} /\ drift \in 0 .. MaxDrift
  /\ cell[1] \in {"null", "blob", "text", "integer", "real"}
  /\ cell[1] = "integer" => cell[2] \in Wide
  /\ cell[1] = "real" => cell[2] = Double(cell[2])
  /\ column = "text" => cell[1] \notin {"integer", "real"}
  /\ column = "numeric" /\ cell[1] = "text" => WholeNumber(cell[2]) = None
  /\ column = "numeric" /\ cell[1] = "real" =>
       cell[2] % 2 = 1 \/ cell[2] <= 2 * MinWide \/ cell[2] >= 2 * MaxWide

CopiedAs(readers) == given # None /\ read \subseteq readers

\* However often a string or data is copied as an object, and through whichever
\* columns, the object read is the one written.  Except that a string ends at its
\* first NUL, that one which is a number becomes that number in a numeric column,
\* that one which is not well-formed is lost with the first copy, and that empty
\* data may be NULL (Statement.c:476-496 against 293-317).
CopiesKeepTheObject ==
  CopiedAs({"object"}) =>
    /\ given[1] = "string" =>
         \/ cell = BindString(given[2])
         \/ "numeric" \in passed /\ WholeNumber(BindString(given[2])[2]) # None
    /\ given[1] = "data" =>
         \/ CreateCFTypeWithColumn(cell) = given
         \/ given[2] = Empty /\ cell = SqlNull

IsInteger(object) == object[1] = "boolean" \/ (object[1] = "number" /\ object[2][1] = "integer")
Integer(object)   == IF object[1] = "boolean" THEN (IF object[2] THEN 1 ELSE 0) ELSE object[2][2]

\* In halves.
ValueOf(number) == IF number[1] = "integer" THEN 2 * number[2] ELSE number[2]

\* An integer or boolean is read back by GetInt64 as it was written, wherever it
\* was copied as an object, and by GetInt32 and GetBOOL if it is narrow.  The
\* reader of numbers goes through double for a text, and so a number of any kind
\* survives it everywhere if it has few enough digits, else outside text columns.
NumbersSurvive ==
  /\ CopiedAs({"object"}) /\ IsInteger(given) =>
       /\ GetInt64WithColumn(cell) = Integer(given)
       /\ Integer(given) \in Narrow => /\ GetInt32WithColumn(cell) = Integer(given)
                                       /\ GetBOOLWithColumn(cell) <=> Integer(given) # 0
  /\ CopiedAs({"object", "number"}) /\ given[1] = "number" /\ given[2] # <<"nan">> =>
       LET value == ValueOf(given[2])
           now   == CreateNumberWithColumn(cell)
       IN Printed(value) = value \/ "text" \notin passed =>
            now[1] = "number" /\ ValueOf(now[2]) = value

\* Dates, and what they drift to, that a double holds exactly.
DatesAreExact ==
  /\ Mantissa < 2 * WideLimit
  /\ (2 * MaxDrift + 1) * Epoch <= Mantissa
  /\ \A o \in Givens : o[1] = "date" =>
       /\ o[2] - Epoch \in -Mantissa .. Mantissa
       /\ o[2] - Epoch - (2 * MaxDrift + 1) * Epoch >= -Mantissa

\* A date comes back without its fraction and two epochs early, and two more each
\* time it is copied as a date, through columns that keep numbers: the epoch is
\* taken off on both ways (Statement.c:274 and 548).
DatesDrift ==
  CopiedAs({"object", "date"}) /\ given[1] = "date" /\ "text" \notin passed =>
    CreateDateWithColumn(cell) =
      <<"date", 2 * ToInteger(given[2] - Epoch) - Epoch - 2 * Epoch * drift>>
=============================================================================
