------------------------------ MODULE MCFiles -------------------------------
(***************************************************************************)
(* A root with a directory and a file; in the directory a file and a       *)
(* directory with two more.  One name is used twice, and the files end in  *)
(* the middle of a sector and at its end.                                  *)
(***************************************************************************)
EXTENDS Files

Entry(name, first, next, size) ==
    [name |-> name, dir |-> first # 0, first |-> first, next |-> next, size |-> size]

Image == <<Entry("d", 3, 2, 0), Entry("f", 0, 0, 5), Entry("g", 0, 4, 2), Entry("e", 5, 0, 0),
           Entry("f", 0, 6, 3), Entry("h", 0, 0, 1)>>

\* Absolute and relative, to directories, files and nothing.
Paths ==
    {<<"/">> \o p : p \in {<<>>, <<"d">>, <<"d", "/", "e">>, <<"d", "/", "..">>, <<"f">>, <<"x", "/", "..">>}}
    \cup {<<>>, <<"..">>, <<".">>, <<"e">>, <<"d", "/">>, <<"..", "/", "d">>, <<"..", "/", "f">>,
          <<"e", "/", "/", "..">>, <<"f", "/", "..">>}

Moves == {-2, 3}
FromRoot == {<<"f">>, <<"d", "/", "g">>, <<"x">>}
Relative ==
    {<<"f">>, <<"g", "/">>, <<"x", "/", "f">>, <<"/", "d", "/", "e", "/", "f">>, <<"..", "/", "f">>,
     <<"f", "/", "g">>, <<"d", "/", "e", "/", "h">>}
=============================================================================
