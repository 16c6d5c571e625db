-------------------------------- MODULE Files -------------------------------
(***************************************************************************)
(* A client of newlib's calls and of DragonFs's own, beside a plain        *)
(* picture of the same files: a working directory that is a directory, a   *)
(* listing that is what is left of one, and open files that are a file and *)
(* a place in it.                                                          *)
(***************************************************************************)
EXTENDS Newlib

CONSTANTS
    WalkPaths,      \* paths for directories
    OpenPaths,      \* paths of files, from the root
    RelativePaths,  \* and from any directory
    Counts,         \* bytes read at a time
    Offsets,        \* arguments of lseek
    MaxHandle       \* bound: files opened and asked for

\* Names have slashes between them, and may have some before them and one behind.
Spelled(path) ==
    /\ path \in Seq(STRING)
    /\ \A i \in 1 .. Len(path) - 1 :
        /\ path[i] # "/" => path[i + 1] = "/"
        /\ i + 1 = Len(path) => path[i] # "/" \/ path[i + 1] # "/"

ASSUME FilesAssumption ==
    /\ \A path \in WalkPaths \cup OpenPaths \cup RelativePaths : Spelled(path)
    /\ Counts \subseteq Nat /\ Offsets \subseteq Int

VARIABLES
    cwd,            \* the directory: its entry, 0 the root
    listing,        \* entries still to be listed
    opened,         \* of each open file: file, pos and prefix
    client,         \* bound: it explores directories, or uses files
    right           \* the last call answered as the picture says

picture == <<cwd, listing, opened, client, right>>
filesVars == <<dragonFs, newlib, picture>>

FilesInit ==
    /\ DfsInit /\ NewlibInit
    /\ cwd = 0 /\ listing = <<>> /\ opened = <<>> /\ right = TRUE
    /\ client \in {"walker", "reader"}

-----------------------------------------------------------------------------
(* What a path names: entries with their parents, no stack and no slashes. *)

Directories == {0} \cup {d \in Entries : image[d].dir}
FirstIn(dir) == IF dir = 0 THEN Root ELSE image[dir].first
Children(dir) == ToSet(Listing(FirstIn(dir)))
Parent(e) == CHOOSE dir \in Directories : e \in Children(dir)

\* The image is a tree of directories that end, and a name in one is one entry's.
ASSUME ImageAssumption ==
    /\ \A e \in Entries : \E dir \in Directories : e \in Children(dir)
    /\ \A dir \in Directories : Siblings(FirstIn(dir))[Cardinality(Entries)] = 0
    /\ \A d, e \in Directories : d # e => Children(d) \cap Children(e) = {}
    /\ \A dir \in Directories : \A d, e \in Children(dir) : image[d].name = image[e].name => d = e

Nothing == -1
IsDir(e) == e \in Directories

Named(e, name) ==
    LET named == {c \in Children(e) : image[c].name = name}
    IN  CASE name = "/" -> e
          [] name # "/" /\ ~IsDir(e) -> Nothing
          [] name = "." /\ IsDir(e) -> e
          [] name = ".." /\ IsDir(e) -> IF e = 0 THEN 0 ELSE Parent(e)
          [] OTHER -> IF named = {} THEN Nothing ELSE CHOOSE c \in named : TRUE

Names(from, path) ==
    LET at[n \in 0 .. Len(path)] ==
            IF n = 0 THEN (IF path[1] = "/" THEN 0 ELSE from) ELSE Named(at[n - 1], path[n])
    IN  IF path = <<>> THEN Nothing ELSE at[Len(path)]

IsFile(e) == e \in Entries /\ ~image[e].dir

-----------------------------------------------------------------------------
(* The calls *)

Answered(got, due) == right' = (got = due) /\ UNCHANGED client

Start ==
    /\ dfs_init
    /\ cwd' = 0 /\ opened' = <<>>
    /\ UNCHANGED <<listing, client, right>>

Attach == \E p \in Mounts :
    /\ attach_filesystem(p)
    /\ UNCHANGED <<dragonFs, picture>>

Detach == \E p \in Mounts :
    /\ detach_filesystem(p)
    /\ opened' = Restrict(opened, {k \in DOMAIN opened : opened[k].prefix # p})
    /\ UNCHANGED <<cwd, listing, client, right>>

ChDir == \E path \in WalkPaths :
    LET dir == Names(cwd, path) IN
    /\ dfs_chdir(path)
    /\ Answered(ChDirFound(path), IsDir(dir))
    /\ cwd' = IF IsDir(dir) THEN dir ELSE cwd
    /\ listing' = <<>>
    /\ UNCHANGED <<newlib, opened>>

\* The next of the entries that are left.
Lists(got, entries) ==
    /\ Answered(got, IF entries = <<>> THEN EBAD ELSE <<Head(entries)>>)
    /\ listing' = IF entries = <<>> THEN <<>> ELSE Tail(entries)
    /\ UNCHANGED <<cwd, opened>>

EntriesAt(path) ==
    LET dir == Names(cwd, path) IN IF IsDir(dir) THEN Listing(FirstIn(dir)) ELSE <<>>

FindFirst == \E path \in WalkPaths :
    /\ dfs_dir_findfirst(path)
    /\ Lists(EntryOr(FirstOf(path)), EntriesAt(path))
    /\ UNCHANGED newlib

FindNext ==
    /\ dfs_dir_findnext
    /\ Lists(EntryOr(next_entry), listing)
    /\ UNCHANGED newlib

\* The same through newlib; without a filesystem nothing happens.
Mounted(prefix) == Mapped(prefix) # {}

DirFindFirst == \E p \in Mounts, path \in WalkPaths :
    /\ dir_findfirst(p, path)
    /\ IF Mounted(p) THEN Lists(DirEntry(p, FirstOf(path)), EntriesAt(path)) ELSE UNCHANGED picture

DirFindNext == \E p \in Mounts :
    /\ dir_findnext(p)
    /\ IF Mounted(p) THEN Lists(DirEntry(p, next_entry), listing) ELSE UNCHANGED picture

Room == Cardinality(DOMAIN opened) < MAX_OPEN_FILES
NowOpen(key, e, prefix) ==
    opened' = [k \in DOMAIN opened \cup {key} |->
                IF k = key THEN [file |-> e, pos |-> 0, prefix |-> prefix] ELSE opened[k]]

\* Opening through newlib ends a listing and leaves for the root.  Whether a
\* file was found only shows when it is used.
ToRoot(prefix) ==
    IF OpenReturns(prefix) THEN cwd' = 0 /\ listing' = <<>> ELSE UNCHANGED <<cwd, listing>>

Open == \E p \in Mounts, path \in OpenPaths :
    /\ next_handle < MaxHandle
    /\ open(p, path)
    /\ IF OpenReturns(p) /\ IsFile(Names(0, path)) /\ Room
       THEN NowOpen(fileno, Names(0, path), p) ELSE UNCHANGED opened
    /\ ToRoot(p)
    /\ UNCHANGED <<client, right>>

\* A size is answered with success, also where there is no file to have one, as
\* long as there is a filesystem to ask.
AskedFor(answers, found, e) ==
    IF answers THEN <<0, IF found THEN image[e].size ELSE DFS_EBADHANDLE>> ELSE EBAD

Stat == \E p \in Mounts, path \in OpenPaths :
    /\ next_handle < MaxHandle
    /\ stat(p, path)
    /\ Answered(StatOf(p, path), AskedFor(OpenReturns(p), IsFile(Names(0, path)) /\ Room, Names(0, path)))
    /\ ToRoot(p)
    /\ UNCHANGED opened

DfsOpen == \E path \in RelativePaths :
    LET e == Names(cwd, path) IN
    /\ next_handle < MaxHandle
    /\ OpenFile(directories, path)
    /\ Answered(CanOpen(directories, path), IsFile(e) /\ Room)
    /\ IF IsFile(e) /\ Room THEN NowOpen(-next_handle, e, NoPrefix) ELSE UNCHANGED opened
    /\ UNCHANGED <<directories, next_entry, newlib, cwd, listing>>

\* The numbers newlib has given out.
Numbers == 3 .. fileno - 1

Close == \E fd \in Numbers :
    /\ close(fd)
    /\ Answered(Closed(fd), IF fd \in DOMAIN opened THEN <<0>> ELSE EBAD)
    /\ opened' = Restrict(opened, DOMAIN opened \ {fd})
    /\ UNCHANGED <<cwd, listing>>

DfsClose == \E key \in DOMAIN opened :
    /\ key < 0
    /\ CloseFile(-key)
    /\ Answered(FileOf(-key).start, opened[key].file)
    /\ opened' = Restrict(opened, DOMAIN opened \ {key})
    /\ UNCHANGED <<directories, next_entry, next_handle, newlib, cwd, listing>>

Within(pos, size) == IF pos < 0 THEN 0 ELSE IF pos > size THEN size ELSE pos
Base(f, origin) ==
    CASE origin = "SET" -> 0 [] origin = "CUR" -> f.pos [] origin = "END" -> image[f.file].size

LSeek == \E fd \in Numbers, offset \in Offsets, origin \in {"SET", "CUR", "END"} :
    LET f == opened[fd]
        pos == Within(Base(f, origin) + offset, image[f.file].size)
    IN  /\ lseek(fd, offset, origin)
        /\ Answered(Sought(fd, offset, origin), IF fd \in DOMAIN opened THEN <<pos>> ELSE EBAD)
        /\ opened' = IF fd \in DOMAIN opened THEN [opened EXCEPT ![fd].pos = pos] ELSE opened
        /\ UNCHANGED <<cwd, listing>>

\* The bytes from a place on, as many as there are.
Due(f, n) ==
    LET size == image[f.file].size
    IN  [i \in 1 .. Within(n, size - f.pos) |-> Byte(f.file, f.pos + i - 1)]

ReadFile == \E fd \in Numbers, n \in Counts :
    LET f == opened[fd] IN
    /\ read(fd, n)
    /\ Answered(BytesRead(fd, n), IF fd \in DOMAIN opened THEN Due(f, n) ELSE EBAD)
    /\ opened' = IF fd \in DOMAIN opened THEN [opened EXCEPT ![fd].pos = @ + Len(Due(f, n))] ELSE opened
    /\ UNCHANGED <<cwd, listing>>

FStat == \E fd \in Numbers :
    /\ Answered(SizeOf(fd), AskedFor(Known(fd), fd \in DOMAIN opened, opened[fd].file))
    /\ UNCHANGED <<dragonFs, newlib, cwd, listing, opened>>

Explore == ChDir \/ FindFirst \/ FindNext \/ DirFindFirst \/ DirFindNext \/ DfsOpen \/ DfsClose
Use == Start \/ Attach \/ Detach \/ Stat \/ Close \/ LSeek \/ ReadFile \/ FStat
FilesNext == Open \/ (client = "walker" /\ (Explore \/ Start)) \/ (client = "reader" /\ Use)

FilesSpec == FilesInit /\ [][FilesNext]_filesVars

-----------------------------------------------------------------------------
(* Properties. *)

\* No entry is deeper than the stack.  dragonfs.c:36 allows directories as deep
\* as it is, but has no room left then for a file in the deepest.
StackSuffices ==
    \E level \in [Entries -> 1 .. MAX_DIRECTORY_DEPTH] :
        \A d \in Directories \ {0} : \A e \in Children(d) : level[d] < level[e]

\* Paths lead where they say from wherever the client has gone, also after
\* walks that failed half way, and a listing gives every entry once.
PathsLead == StackSuffices /\ client = "walker" => right

FilesTypeOK ==
    /\ Len(directories) <= MAX_DIRECTORY_DEPTH /\ next_entry \in Entries \cup {0}
    /\ \A f \in ToSet(open_files) : f = NoFile \/ f.loc \in 0 .. f.size

\* A number refers to its file and the place in it until it is closed or its
\* filesystem detached, and to nothing after that, whatever is opened, asked
\* for and closed in between and whenever the tables are full: close, lseek and
\* read then fail.  fstat, and stat of what is no file, do not, where system.c:658
\* and 1013 have them return a negative value on error: while a filesystem answers
\* for the number they return 0, and the error is in st_size.
NumbersHold == FilesTypeOK /\ (StackSuffices /\ client = "reader" => right)
=============================================================================
