--------------------------- MODULE MCFuncSources ----------------------------
(* Instances of FuncSources for TLC.                                       *)
EXTENDS FuncSourcesProps

CONSTANTS s1, s2, s3, o1, o2, o3, o4, p, q, anon

SomeInfos == {[shape |-> 1, text |-> 1], [shape |-> 1, text |-> 2], [shape |-> 2, text |-> 1]}
F(name, shape, text) == [name |-> name, info |-> [shape |-> shape, text |-> text]]

\* Two functions, then one of them in each way it may have changed.
SomeLists == {<<F("f", 1, 1), F("g", 1, 1)>>, <<F("f", 1, 2)>>, <<F("f", 2, 1)>>}

\* ... with no change that re-registers under the same thunk, and one function
ShapesOnly == {<<F("f", 1, 1), F("g", 1, 1)>>, <<F("f", 2, 1)>>}
OneFunction == {<<F("f", 1, 1)>>}

=============================================================================
