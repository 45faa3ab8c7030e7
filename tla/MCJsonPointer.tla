--------------------------- MODULE MCJsonPointer ---------------------------
(* Segments that are indexes, look like one, add to an array, or are keys    *)
(* with every character that is encoded, on one line or on two.              *)
EXTENDS JsonPointer

MCChars == Signs
MCSegs == {<<"0">>, <<"-">>, <<"0", "1">>, <<"~", "1", "/", "%", "\\", "'">>, <<"#", "\n">>}
MCFragments == {Nothing, Scalar(1), Scalar(Null)}
=============================================================================
