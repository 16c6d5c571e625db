------------------------------ MODULE MCFatDir ------------------------------
(***************************************************************************)
(* FatDir on small volumes: every root directory of up to MaxItems items   *)
(* in two clusters that are not neighbours, with one subdirectory of one   *)
(* cluster that may fill it, on disks with a partition and without one;    *)
(* and disks that are not to be mounted.                                   *)
(***************************************************************************)
EXTENDS FatDir, SequencesExt

CONSTANTS MaxItems, Fills

File(n, c) == [k |-> "file", name |-> n, cluster |-> c]
Piece(n, top) == [k |-> "lfn", top |-> top, name |-> n]

\* What a directory may hold: deleted and hidden records, also behind a long
\* name; files with long names of no, one and two pieces, and behind a piece
\* that is left of another's name; the directory.
Items ==
    {<<[k |-> "del"]>>,
     <<File("a", 9)>>,
     <<Piece("b", TRUE), [k |-> "hidden"]>>,
     <<Piece("b", TRUE), File("x", 10)>>,
     <<Piece("b", TRUE), Piece("b", FALSE), File("a", 11)>>,
     <<Piece("b", FALSE), File("c", 17)>>,
     <<[k |-> "dir", name |-> "d", cluster |-> 4]>>,
     <<Piece("d", TRUE), [k |-> "dir", name |-> "x", cluster |-> 4]>>}

RootChain == <<2, 5>>

End == [k |-> "end"]
Padded(s, n) == s \o [m \in 1 .. n - Len(s) |-> End]

Roots ==
    {r \in {FlattenSeq(s) : s \in UNION {[1 .. n -> Items] : n \in 0 .. MaxItems}} :
        Len(r) <= Len(RootChain) * RecsPerCluster}

\* The subdirectory: two entries and an end mark; one entry, and no end mark;
\* more entries than the table holds.
Subdirectory(fill) ==
    CASE fill = "ended" -> <<File("b", 12), Piece("a", TRUE), File("x", 13), End>>
      [] fill = "full" -> <<File("b", 12), Piece("a", TRUE), [k |-> "hidden"], [k |-> "del"]>>
      [] fill = "over" -> <<File("b", 12), File("x", 13), File("c", 14), File("a", 15)>>

\* The boot sector is the first one, or a partition's at sector 3; what is in no
\* directory looks to the directory's decoder like a file, and entries of the table
\* that are no directory's end a chain; or they are zeroes, which lead from
\* cluster 0 to itself, where nothing looks like an end mark.
Disks ==
    {[disk |-> [signed |-> TRUE, boot |-> TRUE, type |-> 0, at |-> 0,
                fat32 |-> TRUE, reserved |-> 4, sectors_per_fat |-> 3],
      other |-> File("x", 16), entry |-> Eoc],
     [disk |-> [signed |-> TRUE, boot |-> FALSE, type |-> 12, at |-> 3,
                fat32 |-> TRUE, reserved |-> 1, sectors_per_fat |-> 3],
      other |-> Piece("x", FALSE), entry |-> 0]}

Good == CHOOSE d \in Disks : ~d.disk.boot
OtherDisks ==
    {[Good EXCEPT !.disk.signed = FALSE], [Good EXCEPT !.disk.type = 14], [Good EXCEPT !.disk.fat32 = FALSE]}

Volume(d, r, fill) ==
     [dirs |-> [c \in {2, 4} |->
                    IF c = 2
                    THEN [chain |-> RootChain,
                          recs |-> Padded(r, Len(RootChain) * RecsPerCluster)]
                    ELSE [chain |-> <<4>>, recs |-> Subdirectory(fill)]],
      other |-> d.other, entry |-> d.entry, disk |-> d.disk]

MCVolumes ==
    {Volume(d, r, fill) : d \in Disks, r \in Roots, fill \in Fills}
        \cup {Volume(d, <<>>, "ended") : d \in OtherDisks}
MCPaths == {<<"a">>, <<"b">>, <<"d">>, <<"d", "a">>, <<"d", "x">>, <<"a", "b">>}
=============================================================================
