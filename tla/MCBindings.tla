------------------------------- MODULE MCBindings -------------------------------
(* Bindings on queries with no parameter, a plain one, and named ones.         *)
EXTENDS Bindings

Colon(word) == <<":", word>>
Bare(word)  == <<"", word>>
Anonymous   == <<>>

MCKeys    == {Bare("a"), Colon("a")}
MCQueries == {<<>>, <<Anonymous>>, <<Colon("a"), Anonymous>>, <<Anonymous, Colon("a")>>}
=============================================================================
