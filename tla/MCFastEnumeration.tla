--------------------------- MODULE MCFastEnumeration ---------------------------
(* FastEnumeration with results shorter and longer than a buffer of two.      *)
EXTENDS FastEnumeration, TLC

\* 3 and 6 rows: the last batch is empty; 4: a partial one follows a full one.
Long  == NoBinding :> 0 @@ "a" :> 2 @@ "b" :> 3 @@ "c" :> 4 @@ "d" :> 6
=============================================================================
