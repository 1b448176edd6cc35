--------------------------- MODULE MCFileParsers ---------------------------
(* FileParsers for TLC: words of up to two characters, and entries of an   *)
(* environment with and without `=`.                                       *)
EXTENDS FileParsers

MCWords == {<<>>, <<"a">>, <<" ">>, <<"a", ")">>, <<")", " ">>, <<"=", "a">>}
MCEntries == {<<>>, <<"a">>, <<"a", "=", "a">>, <<"=", "a", "=">>, <<"a", "=", "=">>}
=============================================================================
