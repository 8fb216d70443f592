------------------------------- MODULE MCValues -------------------------------
(* Values of six bits and texts on which the parsers disagree.                *)
EXTENDS Values

PowersOfTwo == {2 ^ k : k \in 0 .. 12}

Text(number, prefix, strtod, date, cut, utf8) ==
  [number |-> number, prefix |-> prefix, integer |-> prefix \div 2, strtod |-> strtod,
   date |-> date, cut |-> cut, utf8 |-> utf8]

Real(h) == <<"real", h>>

SomeMeaning ==
  [abc   |-> Text(None, 0, None, NULL, "abc", TRUE),
   zeros |-> Text(<<"integer", 7>>, 14, Real(14), NULL, "zeros", TRUE),        \* 007
   hex   |-> Text(None, 0, Real(32), NULL, "hex", TRUE),                       \* 0x10
   nan   |-> Text(None, 0, <<"nan">>, NULL, "nan", TRUE),
   day   |-> Text(None, 10, Real(10), <<"date", 6>>, "day", TRUE),             \* 2011-...
   tail  |-> Text(None, 14, Real(14), NULL, "zeros", TRUE),                    \* 007\0abc
   bad   |-> Text(None, 0, None, NULL, "bad", FALSE)]

Objects ==
  {<<"number", <<"integer", n>>>> : n \in {-32, 0, 3, 8, 17, 31}} \cup
  {<<"number", Real(h)>> : h \in {1, 4, 11, 52, 64}} \cup
  {<<"boolean", b>> : b \in BOOLEAN} \cup
  {<<"string", <<"word", w>>>> : w \in {"abc", "zeros", "hex", "nan", "day", "tail"}} \cup
  {<<"data", d>> : d \in Data} \cup {<<"date", h>> : h \in {0, 3, 10}} \cup
  {<<"number", <<"nan">>>>, kCFNull, NULL}

\* The instance is one of those the theorem about dates is for.
ASSUME DatesOfTheInstance == DatesAreExact
=============================================================================
