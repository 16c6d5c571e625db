------------------------------- MODULE Mempak -------------------------------
(***************************************************************************)
(* mempak.c: notes on a memory card, which is written 32 bytes at a time   *)
(* and may be pulled, lose power or report an error between any two        *)
(* writes.  A call reads what it needs and then writes its chunks; nobody  *)
(* else writes, so what it reads is read when it begins.  A data block is  *)
(* one chunk here, a table of contents (TOC) two: the checksum is in the   *)
(* first.                                                                  *)
(*                                                                         *)
(* A definition named X_... is X with a bug the code does not have.        *)
(***************************************************************************)
EXTENDS MempakNotes, SequencesExt

CONSTANTS
    BLOCK_VALID_FIRST, BLOCK_VALID_LAST,    \* 5 and 127
    FirstChunk,     \* the blocks whose links are in a TOC's first chunk
    NoteCount,      \* slots of the note table: 16
    Modulus,        \* of the checksum: 256
    Lengths,        \* of the notes clients write, in blocks
    Titles,         \* their names and regions: of the n-th note written at a time
    Garbage         \* a chunk that was not written whole

BLOCK_LAST == 1
BLOCK_EMPTY == 3
Blocks == BLOCK_VALID_FIRST .. BLOCK_VALID_LAST

Slots == 0 .. NoteCount - 1

\* What the code writes: a header, a half of a table, a note, a note's data.
Value ==
    {"header"} \cup [sum : Nat, links : [FirstChunk -> Nat] \cup [Blocks \ FirstChunk -> Nat]]
        \cup Note \cup [of : Nat, part : Nat]

ASSUME MempakAssumption ==
    /\ BLOCK_VALID_FIRST \in Nat /\ BLOCK_VALID_LAST \in Nat
    /\ BLOCK_EMPTY < BLOCK_VALID_FIRST /\ BLOCK_VALID_FIRST <= BLOCK_VALID_LAST
    /\ FirstChunk \subseteq Blocks /\ NoteCount \in Nat /\ Modulus \in Nat \ {0}
    /\ Lengths \subseteq Nat \ {0}
    /\ Titles \in Seq([name : Seq(Nat), region : Nat]) /\ Len(Titles) > NoteCount
    /\ \A i \in DOMAIN Titles : CleanName(Titles[i].name)
    /\ Garbage \notin Value

VARIABLES
    pak,        \* what each chunk of the card holds
    todo,       \* the chunks the call has still to write, each with its value
    op,         \* what is true of the notes when it has written them
    live,       \* history: the data of the notes clients count on
    failed      \* history: a call has been cut short since the last format

mempakVars == <<pak, todo, op, live, failed>>

Chunk ==
    {<<"header">>} \cup {<<"toc", i, h>> : i \in 1 .. 2, h \in 1 .. 2}
        \cup {<<"note", s>> : s \in Slots} \cup {<<"data", b>> : b \in Blocks}
None == [name |-> <<>>, data |-> <<>>]

MempakInit ==
    /\ pak = [c \in Chunk |-> Garbage]
    /\ todo = <<>>
    /\ live = [s \in Slots |-> None] /\ op = live
    /\ failed = TRUE

-----------------------------------------------------------------------------
(* The tables of contents *)

Half(h) == IF h = 1 THEN FirstChunk ELSE Blocks \ FirstChunk
TocLinks(i) ==
    [b \in Blocks |-> pak[<<"toc", i, IF b \in FirstChunk THEN 1 ELSE 2>>].links[b]]

__get_toc_checksum(toc) ==
    LET sum[b \in BLOCK_VALID_FIRST - 1 .. BLOCK_VALID_LAST] ==
            IF b < BLOCK_VALID_FIRST THEN 0 ELSE sum[b - 1] + toc[b]
    IN  sum[BLOCK_VALID_LAST] % Modulus

__validate_toc(i) ==
    /\ \A h \in 1 .. 2 : pak[<<"toc", i, h>>] # Garbage
    /\ __get_toc_checksum(TocLinks(i)) = pak[<<"toc", i, 1>>].sum

__validate_header == pak[<<"header">>] # Garbage

\* 0 for the errors.
__get_valid_toc ==
    IF ~__validate_header THEN 0
    ELSE IF __validate_toc(1) THEN 1
    ELSE IF __validate_toc(2) THEN 2 ELSE 0

\* The blocks of a note, and what follows the last of them.
Walk(toc, inode) ==
    LET at[n \in 0 .. Cardinality(Blocks)] ==
            IF n = 0 THEN inode ELSE IF at[n - 1] \in Blocks THEN toc[at[n - 1]] ELSE at[n - 1]
        pages == Cardinality({n \in DOMAIN at : at[n] \in Blocks})
    IN  [blocks |-> [n \in 1 .. pages |-> at[n - 1]], end |-> at[Cardinality(Blocks)]]

\* __get_num_pages and __get_note_block: a note whose blocks end as they should.
NoteBlocks(toc, inode) ==
    LET w == Walk(toc, inode) IN IF w.end = BLOCK_LAST THEN w.blocks ELSE <<>>

__get_free_space(toc) == Cardinality({b \in Blocks : toc[b] = BLOCK_EMPTY})

validate_mempak == __get_valid_toc # 0
get_mempak_free_space == __get_free_space(TocLinks(__get_valid_toc))

TocChunk(h, toc) ==
    [sum |-> IF h = 1 THEN __get_toc_checksum(toc) ELSE 0, links |-> [b \in Half(h) |-> toc[b]]]
WriteToc(i, toc) == [h \in 1 .. 2 |-> <<<<"toc", i, h>>, TocChunk(h, toc)>>]

\* The other table first, then the one that was read.
WriteTocs_SameFirst(valid, toc) == WriteToc(valid, toc) \o WriteToc(3 - valid, toc)
WriteTocs(valid, toc) == WriteToc(3 - valid, toc) \o WriteToc(valid, toc)

-----------------------------------------------------------------------------
(* The notes *)

__read_note(s) ==
    LET tnote == pak[<<"note", s>>]
    IN  tnote # Garbage /\ tnote.inode \in Blocks /\ ValidRegion(tnote.region)

\* The blocks of the note in a slot; none if it is not one.
get_mempak_entry(s) ==
    IF ~validate_mempak \/ ~__read_note(s) THEN <<>>
    ELSE NoteBlocks(TocLinks(__get_valid_toc), pak[<<"note", s>>].inode)

read_mempak_entry_data(blocks) == [i \in DOMAIN blocks |-> pak[<<"data", blocks[i]>>]]

ReadEntry(s) ==
    LET blocks == get_mempak_entry(s)
    IN  IF blocks = <<>> THEN None
        ELSE [name |-> NoteName(pak[<<"note", s>>]), data |-> read_mempak_entry_data(blocks)]

-----------------------------------------------------------------------------
(* The calls that write.  op is the value live has when all is written. *)

Idle == todo = <<>>

Begin(chunks, before, after) ==
    /\ todo' = chunks
    /\ live' = before /\ op' = after
    /\ UNCHANGED pak

format_mempak ==
    LET blank == [b \in Blocks |-> BLOCK_EMPTY]
        none == [s \in Slots |-> None]
    IN  /\ Idle
        /\ Begin(<< <<<<"header">>, "header">> >>
                    \o [n \in 1 .. NoteCount |-> <<<<"note", n - 1>>, BlankNote>>]
                    \o WriteToc(1, blank) \o WriteToc(2, blank), none, none)
        /\ failed' = FALSE

\* Allocation: the lowest free blocks, each linked to the one before it.
Lowest(toc, n) ==
    LET Free == {b \in Blocks : toc[b] = BLOCK_EMPTY}
    IN  CHOOSE free \in [1 .. n -> Free] :
            /\ \A i, j \in 1 .. n : i < j => free[i] < free[j]
            /\ \A b \in Free : b < free[n] => b \in ToSet(free)

Allocated(toc, free) ==
    LET place(b) == CHOOSE i \in DOMAIN free : free[i] = b
    IN  [b \in Blocks |-> IF b \notin ToSet(free) THEN toc[b]
                          ELSE IF place(b) = 1 THEN BLOCK_LAST ELSE free[place(b) - 1]]

\* A note is unlike the other notes.
Fresh == CHOOSE d \in DOMAIN Titles : \A s \in Slots : live[s] = None \/ live[s].data[1].of # d
Data(n) == [i \in 1 .. n |-> [of |-> Fresh, part |-> i]]

FreeSlots == {s \in Slots : ~__read_note(s)}

\* write_mempak_entry_data: the data, both tables and at last the note.  Only
\* after the data does it look for a slot; with none it returns an error.
write_mempak_entry_data == \E n \in Lengths :
    LET valid == __get_valid_toc
        free == Lowest(TocLinks(valid), n)
        toc == Allocated(TocLinks(valid), free)
        blocks == Walk(toc, Last(free)).blocks
        data == [i \in 1 .. n |-> <<<<"data", blocks[i]>>, Data(n)[i]>>]
        slot == Min(FreeSlots)
    IN  /\ Idle /\ valid # 0 /\ ValidRegion(Titles[Fresh].region)
        /\ __get_free_space(TocLinks(valid)) >= n
        /\ IF FreeSlots = {} THEN Begin(data, live, live)
           ELSE Begin(data \o WriteTocs(valid, toc)
                       \o << <<<<"note", slot>>, __write_note(Titles[Fresh], Last(free))>> >>,
                      live, [live EXCEPT ![slot] = [name |-> Titles[Fresh].name, data |-> Data(n)]])
        /\ UNCHANGED failed

Emptied_ButLast(toc, blocks) ==
    [b \in Blocks |-> IF b \in ToSet(Front(blocks)) THEN BLOCK_EMPTY ELSE toc[b]]
Emptied(toc, blocks) == [b \in Blocks |-> IF b \in ToSet(blocks) THEN BLOCK_EMPTY ELSE toc[b]]

\* delete_mempak_entry, with the entry the client got some time before; the
\* inode is all that is compared.  The note goes first, then its blocks.
delete_mempak_entry == \E s \in Slots :
    LET valid == __get_valid_toc
        inode == pak[<<"note", s>>].inode
        blocks == NoteBlocks(TocLinks(valid), inode)
        toc == Emptied(TocLinks(valid), blocks)
        gone == [live EXCEPT ![s] = None]
    IN  /\ Idle /\ __read_note(s)
        /\ Begin(<< <<<<"note", s>>, BlankNote>> >>
                    \o (IF valid = 0 \/ blocks = <<>> THEN <<>> ELSE WriteTocs(valid, toc)), gone, gone)
        /\ UNCHANGED failed

-----------------------------------------------------------------------------
(* write_mempak_address *)

WriteChunk ==
    /\ ~Idle
    /\ pak' = [pak EXCEPT ![todo[1][1]] = todo[1][2]]
    /\ todo' = Tail(todo)
    /\ live' = IF todo' = <<>> THEN op ELSE live
    /\ UNCHANGED <<op, failed>>

\* The card reports an error, having written the chunk, something or nothing,
\* or power is lost: the call ends.
CutShort ==
    /\ ~Idle
    /\ \/ UNCHANGED pak
       \/ \E v \in {Garbage, todo[1][2]} : pak' = [pak EXCEPT ![todo[1][1]] = v]
    /\ todo' = <<>> /\ op' = live
    /\ failed' = TRUE
    /\ UNCHANGED live

MempakNext ==
    \/ format_mempak \/ write_mempak_entry_data \/ delete_mempak_entry
    \/ WriteChunk \/ CutShort

MempakSpec == MempakInit /\ [][MempakNext]_mempakVars

-----------------------------------------------------------------------------
(* Properties. *)

MempakTypeOK ==
    /\ pak[<<"header">>] \in {Garbage, "header"}
    /\ \A s \in Slots : pak[<<"note", s>>] = Garbage \/ pak[<<"note", s>>].inode \in Blocks \cup {0}
    /\ \A i \in DOMAIN todo : todo[i][1] \in Chunk

\* A note whose writing returned 0, and that nobody has begun to delete, can
\* be read as it was written, name and data, whatever calls came after it,
\* between any two chunks they write and wherever they were cut short.
NotesIntact ==
    /\ MempakTypeOK
    /\ \A s \in Slots : live[s] # None => ReadEntry(s) = live[s]

\* Without an error since the card was formatted, every block belongs to a
\* note or is free.
NothingLost ==
    ~failed /\ Idle =>
        /\ validate_mempak
        /\ get_mempak_free_space =
            Cardinality(Blocks \ UNION {ToSet(get_mempak_entry(s)) : s \in {s \in Slots : live[s] # None}})
=============================================================================
