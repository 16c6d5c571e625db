------------------------------ MODULE DragonFs ------------------------------
(***************************************************************************)
(* dragonfs.c: a read-only image of directories and files, the stack of    *)
(* directories the working directory is at the top of, one directory       *)
(* listing, and the open files, each with a copy of the sector it is in.   *)
(* Every call is given as what it returns, and as the action that changes  *)
(* the state.  A path is a sequence of names and slashes.                  *)
(*                                                                         *)
(* A definition named X_... is X with a bug the code does not have.        *)
(***************************************************************************)
EXTENDS Integers, Sequences, FiniteSets, SequencesExt

CONSTANTS
    image,              \* of each directory entry: name, dir, first, next, size
    Root,               \* the first entry of the root
    SECTOR_PAYLOAD, MAX_OPEN_FILES, MAX_DIRECTORY_DEPTH

Entries == DOMAIN image

ASSUME DragonFsAssumption ==
    /\ IsFiniteSet(Entries)
    /\ SECTOR_PAYLOAD \in Nat \ {0} /\ MAX_OPEN_FILES \in Nat /\ MAX_DIRECTORY_DEPTH \in Nat
    /\ Entries \subseteq Nat \ {0} /\ Root \in Entries
    /\ \A e \in Entries :
        /\ image[e].next \in Entries \cup {0} /\ image[e].first \in Entries \cup {0}
        /\ image[e].dir <=> image[e].first # 0
        /\ image[e].size \in Nat

VARIABLES
    directories,        \* up to directory_top: the first entry of each directory
    next_entry,
    open_files,         \* NoFile or what an open_file_t holds; cur is the sector copied
    next_handle

dragonFs == <<directories, next_entry, open_files, next_handle>>

NoFile == [handle |-> 0]
EBAD == <<-1>>          \* every error that a caller is told of

DfsInit ==
    /\ directories = <<>> /\ next_entry = 0
    /\ open_files = [i \in 1 .. MAX_OPEN_FILES |-> NoFile]
    /\ next_handle = 1

-----------------------------------------------------------------------------
(* Directories *)

\* push_directory ignores a directory too deep, pop_directory stays in the root.
Push(stack, first) == IF Len(stack) < MAX_DIRECTORY_DEPTH THEN Append(stack, first) ELSE stack
Pop_Empty(stack) == <<>>
Pop(stack) == IF stack = <<>> THEN stack ELSE Front(stack)
Peek(stack) == IF stack = <<>> THEN Root ELSE Last(stack)

\* The entries of a directory, one after the other, and 0s behind the last.
Siblings(first) ==
    LET at[n \in 0 .. Cardinality(Entries)] ==
            IF n = 0 THEN first ELSE IF at[n - 1] = 0 THEN 0 ELSE image[at[n - 1]].next
    IN  at

Listing(first) ==
    [n \in 1 .. Min({m \in 0 .. Cardinality(Entries) : Siblings(first)[m] = 0}) |-> Siblings(first)[n - 1]]

\* 0 if there is none.
find_dirent(name, first) ==
    LET named == {n \in 0 .. Cardinality(Entries) :
                    Siblings(first)[n] # 0 /\ image[Siblings(first)[n]].name = name}
    IN  IF named = {} THEN 0 ELSE Siblings(first)[Min(named)]

\* A slash is a token if it is not the one that ends a name.
get_next_token(path) ==
    IF path[1] = "/" THEN [token |-> "/", rest |-> Tail(path)]
    ELSE [token |-> path[1], rest |-> SubSeq(path, 3, Len(path))]

\* recurse_path, token by token: an absolute path starts from the root; a
\* file may come last only, and not at all in a walk to change the directory.
Token(w, mode) ==
    LET token == get_next_token(w.path).token
        on == [w EXCEPT !.path = get_next_token(w.path).rest]
        e == find_dirent(token, Peek(w.stack))
    IN  CASE token \in {"/", "."} -> [on EXCEPT !.type = "DIR"]
          [] token = ".." -> [on EXCEPT !.type = "DIR", !.stack = Pop(@)]
          [] OTHER ->
                IF e # 0 /\ image[e].dir
                THEN [on EXCEPT !.type = "DIR", !.stack = Push(@, image[e].first)]
                ELSE IF e # 0 /\ mode = "OPEN" /\ on.path = <<>>
                     THEN [on EXCEPT !.type = "FILE", !.stack = Push(@, e)]
                     ELSE [on EXCEPT !.found = FALSE]

recurse_path(stack, path, mode) ==
    LET start == [stack |-> IF path # <<>> /\ path[1] = "/" THEN <<>> ELSE stack,
                  path |-> path, type |-> "ANY", found |-> path # <<>>]
        w[n \in 0 .. Len(path)] ==
            IF n = 0 THEN start
            ELSE IF ~w[n - 1].found \/ w[n - 1].path = <<>> THEN w[n - 1]
            ELSE Token(w[n - 1], mode)
    IN  w[Len(path)]

\* On failure the stack that was saved comes back.
ChDirFound(path) == recurse_path(directories, path, "CHDIR").found

dfs_chdir(path) ==
    /\ next_entry' = 0
    /\ directories' =
        IF ChDirFound(path) THEN recurse_path(directories, path, "CHDIR").stack ELSE directories
    /\ UNCHANGED <<open_files, next_handle>>

FirstOf(path) ==
    LET w == recurse_path(directories, path, "OPEN")
    IN  IF w.found /\ w.type = "DIR" THEN Peek(w.stack) ELSE 0

EntryOr(e) == IF e = 0 THEN EBAD ELSE <<e>>

dfs_dir_findfirst(path) ==
    /\ next_entry' = IF FirstOf(path) = 0 THEN 0 ELSE image[FirstOf(path)].next
    /\ UNCHANGED <<directories, open_files, next_handle>>

dfs_dir_findnext ==
    /\ next_entry' = IF next_entry = 0 THEN 0 ELSE image[next_entry].next
    /\ UNCHANGED <<directories, open_files, next_handle>>

-----------------------------------------------------------------------------
(* Files *)

FreeFiles == {i \in DOMAIN open_files : open_files[i] = NoFile}
FileAt(stack, path) ==
    LET w == recurse_path(stack, path, "OPEN")
    IN  IF w.found /\ w.type = "FILE" THEN Peek(w.stack) ELSE 0

CanOpen(stack, path) == FreeFiles # {} /\ FileAt(stack, path) # 0

\* dfs_open, from a working directory, as far as the open files go.
OpenFile(stack, path) ==
    LET i == Min(FreeFiles)
        e == FileAt(stack, path)
    IN  IF CanOpen(stack, path)
        THEN /\ open_files' = [open_files EXCEPT ![i] =
                    [handle |-> next_handle, start |-> e, size |-> image[e].size,
                     loc |-> 0, sector_number |-> 0, cur |-> 0]]
             /\ next_handle' = next_handle + 1
        ELSE UNCHANGED <<open_files, next_handle>>

OpenHandle(h) == h # 0 /\ \E i \in DOMAIN open_files : open_files[i].handle = h
SlotOf(h) == CHOOSE i \in DOMAIN open_files : open_files[i].handle = h
FileOf(h) == open_files[SlotOf(h)]

DFS_EBADHANDLE == -5
dfs_size(h) == IF OpenHandle(h) THEN FileOf(h).size ELSE DFS_EBADHANDLE

CloseFile(h) ==
    open_files' = [i \in DOMAIN open_files |->
                    IF h # 0 /\ open_files[i].handle = h THEN NoFile ELSE open_files[i]]

\* dfs_seek and dfs_tell
Clamp(loc, size) == IF loc < 0 THEN 0 ELSE IF loc > size THEN size ELSE loc

SeekTo(f, offset, origin) ==
    LET base == CASE origin = "SET" -> 0 [] origin = "CUR" -> f.loc [] origin = "END" -> f.size
    IN  Clamp(offset + base, f.size)

Seek(h, offset, origin) ==
    open_files' = IF OpenHandle(h)
                  THEN [open_files EXCEPT ![SlotOf(h)].loc = SeekTo(FileOf(h), offset, origin)]
                  ELSE open_files

\* dfs_read: every byte comes from the copied sector, reached by walking on
\* from it or, for a sector before it, by starting over.
sector_from_loc(loc) == loc \div SECTOR_PAYLOAD

Reached(f, t) == IF t >= f.sector_number THEN f.cur + (t - f.sector_number) ELSE t

ToRead(f, n) == IF f.loc + n > f.size THEN f.size - f.loc ELSE n
SectorRead(f, at) ==
    Reached(f, sector_from_loc(f.loc)) + sector_from_loc(at) - sector_from_loc(f.loc)

\* A byte is named by its file and its place.
Byte(e, place) == 100 * e + place
Bytes(f, n) ==
    [i \in 1 .. ToRead(f, n) |->
        LET at == f.loc + i - 1
        IN  Byte(f.start, SectorRead(f, at) * SECTOR_PAYLOAD + (at % SECTOR_PAYLOAD))]

AfterRead(f, n) ==
    LET last == f.loc + ToRead(f, n) - 1 IN
    IF ToRead(f, n) = 0 THEN f
    ELSE [f EXCEPT !.loc = last + 1, !.cur = SectorRead(f, last),
                   !.sector_number = sector_from_loc(last)]

Read(h, n) ==
    open_files' = IF OpenHandle(h) THEN [open_files EXCEPT ![SlotOf(h)] = AfterRead(FileOf(h), n)]
                  ELSE open_files
=============================================================================
