------------------------------- MODULE Newlib -------------------------------
(***************************************************************************)
(* system.c: the file calls of newlib over the filesystems attached under  *)
(* a prefix, all of them DragonFs here, the only one in the repository.  A *)
(* name is a prefix and a path.  As in DragonFs a call is what it returns  *)
(* and an action.                                                          *)
(*                                                                         *)
(* A definition named X_... is X with a bug the code does not have.        *)
(***************************************************************************)
EXTENDS DragonFs

CONSTANTS
    Mounts,             \* what filesystems are attached under
    NoPrefix,
    MAX_FILESYSTEMS, MAX_OPEN_HANDLES

ASSUME NewlibAssumption ==
    /\ NoPrefix \notin Mounts \cup {"rom"}
    /\ MAX_FILESYSTEMS \in Nat /\ MAX_OPEN_HANDLES \in Nat

VARIABLES
    filesystems,        \* the prefix of each
    handles,            \* fileno, handle and fs_mapping; never freed
    fileno              \* __get_new_handle: handle

newlib == <<filesystems, handles, fileno>>

Unused == [fileno |-> 0]

NewlibInit ==
    /\ filesystems = [i \in 1 .. MAX_FILESYSTEMS |-> NoPrefix]
    /\ handles = [i \in 1 .. MAX_OPEN_HANDLES |-> Unused]
    /\ fileno = 3

-----------------------------------------------------------------------------
(* Filesystems *)

Mapped(prefix) == {i \in DOMAIN filesystems : filesystems[i] = prefix}
Attachable(prefix) == Mapped(prefix) = {} /\ Mapped(NoPrefix) # {}

attach_filesystem(prefix) ==
    /\ filesystems' = IF Attachable(prefix)
                      THEN [filesystems EXCEPT ![Min(Mapped(NoPrefix))] = prefix]
                      ELSE filesystems
    /\ UNCHANGED <<handles, fileno>>

\* dfs_init with a good image; it does not look at what attaching returns.
dfs_init ==
    /\ directories' = <<>>
    /\ open_files' = [i \in DOMAIN open_files |-> NoFile]
    /\ attach_filesystem("rom")
    /\ UNCHANGED <<next_entry, next_handle>>

\* detach_filesystem closes what is open there.
Belong_All(h, i) == TRUE
Belong(h, i) == h.fs_mapping = i

detach_filesystem(prefix) ==
    LET i == Min(Mapped(prefix))
        those == {j \in DOMAIN handles : handles[j] # Unused /\ Belong(handles[j], i)}
        closed == {handles[j].handle : j \in those}
    IN  /\ Mapped(prefix) # {}
        /\ open_files' = [k \in DOMAIN open_files |->
                            IF open_files[k].handle \in closed THEN NoFile ELSE open_files[k]]
        /\ filesystems' = [filesystems EXCEPT ![i] = NoPrefix]
        /\ UNCHANGED <<directories, next_entry, next_handle, handles, fileno>>

-----------------------------------------------------------------------------
(* Files.  __get_fs_pointer_by_handle and __get_fs_handle *)

Known(fd) ==
    \E i \in DOMAIN handles : handles[i].fileno = fd /\ filesystems[handles[i].fs_mapping] # NoPrefix
HandleOf(fd) == handles[CHOOSE i \in DOMAIN handles : handles[i].fileno = fd].handle

\* open: __open changes to the root directory first.  What dfs_open returns
\* for an error is a pointer like any other: the file gets its number all
\* the same, with a handle that is none.
Missing == -1
FreeHandles == {i \in DOMAIN handles : handles[i] = Unused}
OpenReturns(prefix) == Mapped(prefix) # {} /\ FreeHandles # {}

TakeHandle(prefix, path) ==
    /\ handles' = [handles EXCEPT ![Min(FreeHandles)] =
            [fileno |-> fileno, handle |-> IF CanOpen(<<>>, path) THEN next_handle ELSE Missing,
             fs_mapping |-> Min(Mapped(prefix))]]
    /\ fileno' = fileno + 1
    /\ directories' = <<>> /\ next_entry' = 0
    /\ UNCHANGED filesystems

open(prefix, path) ==
    IF OpenReturns(prefix) THEN TakeHandle(prefix, path) /\ OpenFile(<<>>, path)
    ELSE UNCHANGED <<dragonFs, newlib>>

\* The slot in handles stays taken.
close(fd) ==
    /\ IF Known(fd) THEN CloseFile(HandleOf(fd)) ELSE UNCHANGED open_files
    /\ UNCHANGED <<directories, next_entry, next_handle, newlib>>

lseek(fd, offset, origin) ==
    /\ IF Known(fd) THEN Seek(HandleOf(fd), offset, origin) ELSE UNCHANGED open_files
    /\ UNCHANGED <<directories, next_entry, next_handle, newlib>>

read(fd, n) ==
    /\ IF Known(fd) THEN Read(HandleOf(fd), n) ELSE UNCHANGED open_files
    /\ UNCHANGED <<directories, next_entry, next_handle, newlib>>

\* stat opens, asks and closes: a slot of handles is gone.
stat(prefix, path) ==
    IF OpenReturns(prefix)
    THEN /\ TakeHandle(prefix, path)
         /\ next_handle' = IF CanOpen(<<>>, path) THEN next_handle + 1 ELSE next_handle
         /\ UNCHANGED open_files
    ELSE UNCHANGED <<dragonFs, newlib>>

\* dir_findfirst and dir_findnext, from the working directory.
dir_findfirst(prefix, path) ==
    /\ IF Mapped(prefix) # {} THEN dfs_dir_findfirst(path) ELSE UNCHANGED dragonFs
    /\ UNCHANGED newlib

dir_findnext(prefix) ==
    /\ IF Mapped(prefix) # {} THEN dfs_dir_findnext ELSE UNCHANGED dragonFs
    /\ UNCHANGED newlib

\* What they return.
DirEntry(prefix, e) == IF Mapped(prefix) # {} THEN EntryOr(e) ELSE EBAD
Closed(fd) == IF Known(fd) /\ OpenHandle(HandleOf(fd)) THEN <<0>> ELSE EBAD
Sought(fd, offset, origin) ==
    IF Known(fd) /\ OpenHandle(HandleOf(fd))
    THEN <<SeekTo(FileOf(HandleOf(fd)), offset, origin)>> ELSE EBAD
BytesRead(fd, n) ==
    IF Known(fd) /\ OpenHandle(HandleOf(fd)) THEN Bytes(FileOf(HandleOf(fd)), n) ELSE EBAD

\* What fstat and stat return, and st_size: __fstat returns 0 whatever dfs_size
\* gave it, which for a file that is not open, or not there, is an error.
SizeOf(fd) == IF Known(fd) THEN <<0, dfs_size(HandleOf(fd))>> ELSE EBAD
StatOf(prefix, path) ==
    IF OpenReturns(prefix)
    THEN <<0, IF CanOpen(<<>>, path) THEN image[FileAt(<<>>, path)].size ELSE DFS_EBADHANDLE>>
    ELSE EBAD
=============================================================================
