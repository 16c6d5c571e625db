------------------------------- MODULE FatDir -------------------------------
(***************************************************************************)
(* Mounting a volume and opening a file by its path: fatInit and the       *)
(* directory half of fat.c.  A component of the path is looked up by       *)
(* reading its directory into a table of record locations (fatReadDir),    *)
(* then reading the records of the table one by one (FatReadRecord),       *)
(* through one sector of cache, until a name matches.  A record is a       *)
(* group: the pieces of a long name, if it has one, in front of the        *)
(* standard record; it may lie across two sectors and two clusters.        *)
(*                                                                         *)
(* One action per access to the card, per record looked at and per return. *)
(* A step along a chain is one action: the sector of the table is loaded,  *)
(* unless the cache's index says it is there, and its entry used.  Both    *)
(* caches set their index before they read, so that after a failure they   *)
(* answer for sectors they do not hold.                                    *)
(*                                                                         *)
(* A definition named X_... is X with a bug the code does not have; runs   *)
(* use it to see that a property notices.                                  *)
(***************************************************************************)
EXTENDS Integers, Sequences, FiniteSets

CONSTANTS
    ClusterSize,    \* sectors in a cluster
    RecsPerSec,     \* 16: records in a sector
    DataEntry,      \* where the data of the volumes begins
    EntriesPerSec,  \* 128: entries of the table in a sector of it
    Word,           \* 2^32: sectors and locations are u32
    MaxRecords,     \* 1024: how many entries of a directory are read
    Names,          \* the names there are; a path is a sequence of them
    Paths,          \* the paths looked up
    Volumes,        \* the directories: see VolumeAssumption
    MaxCalls,       \* bound: calls made
    CardFails       \* reads of the card may fail

Root == 2           \* the root directory is taken to be at the first cluster
NoName == "no name"
Eoc == -1           \* stands for 0x0FFFFFFF, the end of a chain

\* A record: the end mark, a deleted or dot record, one of a hidden file or a
\* label, a piece of a long name (top: with the mark of a name's last piece,
\* which comes first), a file or a directory.
Record ==
    [k : {"end", "del", "hidden"}]
    \cup [k : {"lfn"}, top : BOOLEAN, name : Names]
    \cup [k : {"file", "dir"}, name : Names, cluster : Nat]

RecsPerCluster == ClusterSize * RecsPerSec

\* A volume's directories by first cluster, each with its chain of clusters and
\* all its records in order, no two of them sharing a cluster.  A location is a
\* u32: a directory lies where its records have one.  other: what a record looks
\* like in a sector that is no directory's, as is the boot sector, in the cache
\* when a volume has been mounted; entry: what an entry of the table holds
\* that is no directory's, and the table's buffer before a sector is read to it.
\* disk: whether the first sector is signed, and whether it is the boot sector;
\* if not, the type of its partition and where that begins; the boot sector's
\* fields, its own sector being one of the reserved.
ASSUME VolumeAssumption ==
    \A v \in Volumes :
        /\ Root \in DOMAIN v.dirs
        /\ \A c \in DOMAIN v.dirs :
            LET d == v.dirs[c]
            IN  /\ d.chain \in Seq(Nat \ {0, 1}) /\ d.chain # <<>> /\ d.chain[1] = c
                /\ \A i, j \in DOMAIN d.chain : d.chain[i] = d.chain[j] => i = j
                /\ \A i \in DOMAIN d.chain :
                    ((d.chain[i] - 1) * ClusterSize + DataEntry) * RecsPerSec <= Word
                /\ d.recs \in Seq(Record)
                /\ Len(d.recs) = Len(d.chain) * RecsPerCluster
                /\ \A i \in DOMAIN d.recs :
                    d.recs[i].k = "dir" => d.recs[i].cluster \in DOMAIN v.dirs
        /\ \A c1, c2 \in DOMAIN v.dirs :
            \A i \in DOMAIN v.dirs[c1].chain, j \in DOMAIN v.dirs[c2].chain :
                v.dirs[c1].chain[i] = v.dirs[c2].chain[j] => c1 = c2
        /\ v.other \in Record
        /\ v.entry \in Nat \cup {Eoc}
        /\ v.disk \in [signed : BOOLEAN, boot : BOOLEAN, type : 0 .. 255, at : Nat,
                       fat32 : BOOLEAN, reserved : Nat \ {0}, sectors_per_fat : Nat]
        /\ v.disk.fat32 =>
            DataEntry = (IF v.disk.boot THEN 0 ELSE v.disk.at) + v.disk.reserved
                        + 2 * v.disk.sectors_per_fat

ASSUME DirAssumption ==
    /\ ClusterSize \in Nat \ {0} /\ RecsPerSec \in Nat \ {0, 1}
    /\ DataEntry \in Nat /\ DataEntry >= 2 * ClusterSize
    /\ EntriesPerSec \in Nat \ {0} /\ Word \in Nat \ {0}
    /\ MaxRecords \in Nat \ {0} /\ MaxCalls \in Nat
    /\ Paths \subseteq Seq(Names) \ {<<>>} /\ Paths # {}
    /\ NoName \notin Names
    /\ CardFails \in BOOLEAN

VARIABLES
    vol,
    data_entry,     \* current_fat.data_entry; 0 until mounted
    path,           \* the path looked up
    k,              \* the component of it the search is at
    hdr_idx,        \* the record of the directory so far: 0 for the root
    dir,            \* currentDir: [pos, size, is_root, entry_cluster]
    i,              \* the record of the sector, then the entry of the table
    skip,           \* fatReadDir: the entry has its long name in the table
    recordTable,    \* [0 .. MaxRecords - 1 -> locations]
    rec,            \* currentRecord: [pos, hdr_idx]
    why,            \* whose FatReadRecord this is: "dir", "match" or "file"
    name,           \* frec.name as far as it is decoded
    data_sec_idx,   \* fat_cache.data_sec_idx
    data,           \* which sector the data cache really holds
    table_sec_idx,  \* fat_cache.table_sec_idx, from the table's beginning
    table_data,     \* which sector of the table its cache really holds
    pc,
    ret,
    opened,         \* currentFile.pos.cluster after fatOpenFile
    calls,          \* calls made, for the bound
    broken,         \* history: a read of the card has failed
    misled          \* history: this search has used a buffer that does not hold
                    \* the sector its index says, an earlier read having failed

volume == <<vol, data_entry>>
search == <<path, k, hdr_idx>>
table == <<dir, skip, recordTable>>
tablecache == <<table_sec_idx, table_data>>
cache == <<data_sec_idx, data, tablecache>>
vars == <<volume, search, table, i, rec, why, name, cache, pc, ret, opened, calls,
          broken, misled>>

-----------------------------------------------------------------------------
(* Places on the volume. *)

NoSector == -1

fatClusterToSector(c) == ((c - 2) * ClusterSize + data_entry) % Word
fatSectorToCluster(s) == (((s - data_entry) % Word) \div ClusterSize) + 2

Zero == [cluster |-> 0, sector |-> 0, in_cluster_ptr |-> 0]

\* FatSetCluster and FatSetSector; sector - fatClusterToSector(cluster) is what
\* the division leaves over.
SetCluster(c) == [cluster |-> c, sector |-> fatClusterToSector(c), in_cluster_ptr |-> 0]
SetSector(s) ==
    [cluster |-> fatSectorToCluster(s), sector |-> s,
     in_cluster_ptr |-> ((s - data_entry) % Word) % ClusterSize]

\* The directory a cluster belongs to, and where it is in its chain.
InDirs(v, cluster) ==
    \E c \in DOMAIN v.dirs :
        \E n \in DOMAIN v.dirs[c].chain : v.dirs[c].chain[n] = cluster
HomeOf(cluster) ==
    CHOOSE c \in DOMAIN vol.dirs :
        \E n \in DOMAIN vol.dirs[c].chain : vol.dirs[c].chain[n] = cluster
DirOf(cluster) == vol.dirs[HomeOf(cluster)]
PlaceOf(cluster) ==
    CHOOSE n \in DOMAIN DirOf(cluster).chain : DirOf(cluster).chain[n] = cluster

\* What the table has for a cluster.
IsLast(cluster) == PlaceOf(cluster) = Len(DirOf(cluster).chain)
Following(cluster) == DirOf(cluster).chain[PlaceOf(cluster) + 1]
Entry(cluster) ==
    IF ~InDirs(vol, cluster) THEN vol.entry
    ELSE IF IsLast(cluster) THEN Eoc ELSE Following(cluster)

\* Record n of a sector.
RecordAt(sector, n) ==
    LET cluster == ((sector - DataEntry) \div ClusterSize) + 2
    IN  IF sector < DataEntry \/ ~InDirs(vol, cluster)
        THEN vol.other
        ELSE DirOf(cluster).recs[
                (PlaceOf(cluster) - 1) * RecsPerCluster
                + ((sector - DataEntry) % ClusterSize) * RecsPerSec + n + 1]

-----------------------------------------------------------------------------
(* The caches. *)

\* fatCacheLoadData: nothing to do, or a sector read.
LoadData(sector) ==
    /\ data_sec_idx' = sector
    /\ data' = IF data_sec_idx = sector THEN data ELSE sector
    /\ UNCHANGED broken

Return(result) == pc' = "idle" /\ ret' = result

\* The card fails, with the index set and the buffer as it was.
LoadDataFail(sector) ==
    /\ CardFails
    /\ data_sec_idx # sector
    /\ data_sec_idx' = sector
    /\ broken' = TRUE
    /\ Return("D3")
    /\ UNCHANGED data

\* fatCacheLoadTable, of the sector with a cluster's entry.
TableSector(cluster) == cluster \div EntriesPerSec
TableLoaded(cluster) ==
    IF table_sec_idx = TableSector(cluster) THEN table_data ELSE TableSector(cluster)

LoadTable(cluster) ==
    /\ table_sec_idx' = TableSector(cluster)
    /\ table_data' = TableLoaded(cluster)

LoadTableFail(cluster) ==
    /\ CardFails
    /\ table_sec_idx # TableSector(cluster)
    /\ table_sec_idx' = TableSector(cluster)
    /\ broken' = TRUE
    /\ Return("D3")
    /\ UNCHANGED table_data

\* fatGetTableRecord: the entry in the cluster's place, of the sector the buffer
\* holds.
TableRecord(cluster) ==
    IF TableLoaded(cluster) = NoSector
    THEN vol.entry
    ELSE Entry(TableLoaded(cluster) * EntriesPerSec + (cluster % EntriesPerSec))

\* A step uses a buffer that is not what its index says.
Stale(sector) == data_sec_idx = sector /\ data # sector
StaleTable(cluster) ==
    table_sec_idx = TableSector(cluster) /\ table_data # TableSector(cluster)
Uses(stale) == misled' = (misled \/ stale)

-----------------------------------------------------------------------------
(* fatInit: the first sector is the boot sector or leads to it. *)

searching == <<vol, search, table, i, rec, why, name, opened, calls, misled>>

MountRead ==
    /\ pc = "mount"
    /\ \/ LoadData(0) /\ pc' = "mbr" /\ UNCHANGED ret
       \/ LoadDataFail(0)
    /\ UNCHANGED <<data_entry, tablecache, searching>>

HasPartition == vol.disk.type \in {11, 12}
pbr_entry == IF vol.disk.boot THEN 0 ELSE vol.disk.at

MountPartition ==
    /\ pc = "mbr" /\ vol.disk.signed /\ (vol.disk.boot \/ HasPartition)
    /\ \/ LoadData(pbr_entry) /\ pc' = "pbr" /\ UNCHANGED ret
       \/ LoadDataFail(pbr_entry)
    /\ UNCHANGED <<data_entry, tablecache, searching>>

MountFails ==
    /\ \/ pc = "mbr" /\ ~(vol.disk.signed /\ (vol.disk.boot \/ HasPartition))
       \/ pc = "pbr" /\ ~vol.disk.fat32
    /\ Return("F8")
    /\ UNCHANGED <<data_entry, cache, broken, searching>>

Mounted ==
    /\ pc = "pbr" /\ vol.disk.fat32
    /\ data_entry' = pbr_entry + vol.disk.reserved + 2 * vol.disk.sectors_per_fat
    /\ pc' = "idle"
    /\ UNCHANGED <<ret, cache, broken, searching>>

-----------------------------------------------------------------------------
(* fatReadDir *)

EmptyTable == [n \in 0 .. MaxRecords - 1 |-> 0]

\* fatOpenDir begins: the root needs no record, another directory's is read.
OpenDir(idx) ==
    /\ hdr_idx' = idx
    /\ dir' = [dir EXCEPT !.size = 0, !.is_root = FALSE, !.entry_cluster = idx,
                          !.pos = IF idx > 2 THEN @ ELSE SetCluster(Root)]
    /\ skip' = FALSE
    /\ i' = 0
    /\ why' = "dir"
    /\ pc' = IF idx > 2 THEN "openrec" ELSE "load"
    /\ UNCHANGED recordTable

\* fatOpenFileByName and fatFindRecord, of a volume that is mounted.
Call(p) ==
    /\ pc = "idle" /\ data_entry # 0
    /\ calls < MaxCalls
    /\ calls' = calls + 1
    /\ path' = p
    /\ k' = 1
    /\ OpenDir(0)
    /\ misled' = FALSE
    /\ UNCHANGED <<volume, rec, name, cache, ret, opened, broken>>

LoadDir ==
    /\ pc = "load"
    /\ \/ LoadData(dir.pos.sector) /\ i' = 0 /\ pc' = "scan" /\ UNCHANGED ret
       \/ LoadDataFail(dir.pos.sector) /\ UNCHANGED i
    /\ Uses(Stale(dir.pos.sector))
    /\ UNCHANGED <<volume, search, table, rec, why, name, tablecache, opened, calls>>

\* The directory has been read; its entries are tried one by one.
TryEntries == pc' = "try" /\ i' = 0

\* One record, for (i = 0; i < 16; i++).
Goon == i' = i + 1 /\ UNCHANGED pc

Here == (dir.pos.sector * RecsPerSec + i) % Word

ScanEnd ==
    /\ pc = "scan" /\ i < RecsPerSec
    /\ RecordAt(data, i).k = "end"
    /\ TryEntries
    /\ UNCHANGED <<volume, search, table, rec, why, name, cache, ret, opened, calls,
                   broken, misled>>

ScanSkipped ==
    /\ pc = "scan" /\ i < RecsPerSec
    /\ RecordAt(data, i).k \in {"del", "hidden"}
    /\ skip' = FALSE
    /\ Goon
    /\ UNCHANGED <<volume, search, dir, recordTable, rec, why, name, cache, ret,
                   opened, calls, broken, misled>>

\* The record in front of a long name is the entry's location.
ScanLfn ==
    LET r == RecordAt(data, i)
    IN  /\ pc = "scan" /\ i < RecsPerSec
        /\ r.k = "lfn"
        /\ IF r.top
           THEN recordTable' = [recordTable EXCEPT ![dir.size] = Here] /\ skip' = TRUE
           ELSE UNCHANGED <<recordTable, skip>>
        /\ Goon
        /\ UNCHANGED <<volume, search, dir, rec, why, name, cache, ret, opened,
                       calls, broken, misled>>

Located_ForgetsLongNames == [recordTable EXCEPT ![dir.size] = Here]
Located == IF skip THEN recordTable ELSE [recordTable EXCEPT ![dir.size] = Here]

TableFull == dir.size + 1 = MaxRecords

\* A file or a directory; the table is full at 1024.
ScanEntry ==
    /\ pc = "scan" /\ i < RecsPerSec
    /\ RecordAt(data, i).k \in {"file", "dir"}
    /\ recordTable' = Located
    /\ dir' = [dir EXCEPT !.size = @ + 1]
    /\ IF TableFull
       THEN TryEntries /\ UNCHANGED skip
       ELSE Goon /\ skip' = FALSE
    /\ UNCHANGED <<volume, search, rec, why, name, cache, ret, opened, calls, broken, misled>>

NextSectorOf(pos) ==
    [pos EXCEPT !.sector = @ + 1, !.in_cluster_ptr = @ + 1]

\* The next sector of the directory, following the chain at a cluster's end;
\* where the chain ends (0xF3) the directory does.
ScanNext ==
    LET next == NextSectorOf(dir.pos)
        cluster == dir.pos.cluster
        follow ==
            \/ /\ LoadTable(cluster) /\ UNCHANGED broken
               /\ \/ /\ TableRecord(cluster) # Eoc
                     /\ dir' = [dir EXCEPT !.pos = SetCluster(TableRecord(cluster))]
                     /\ pc' = "load" /\ UNCHANGED <<i, ret>>
                  \/ /\ TableRecord(cluster) = Eoc
                     /\ dir' = [dir EXCEPT !.pos = next, !.is_root = TRUE]
                     /\ TryEntries /\ UNCHANGED ret
            \/ /\ LoadTableFail(cluster)
               /\ dir' = [dir EXCEPT !.pos = next]
               /\ UNCHANGED i
    IN  /\ pc = "scan" /\ i = RecsPerSec
        /\ \/ /\ next.in_cluster_ptr # ClusterSize
              /\ dir' = [dir EXCEPT !.pos = next]
              /\ pc' = "load" /\ UNCHANGED <<i, ret, broken, misled, tablecache>>
           \/ /\ next.in_cluster_ptr = ClusterSize
              /\ follow
              /\ Uses(StaleTable(cluster))
        /\ UNCHANGED <<volume, search, skip, recordTable, rec, why, name, data_sec_idx,
                       data, opened, calls>>

-----------------------------------------------------------------------------
(* FatReadRecord *)

\* The record it is called with: that of a directory, of an entry of the
\* table, or of the file found.
Wanted == IF why = "match" THEN recordTable[i] ELSE hdr_idx

\* FatOpenRecord
OpenRecord ==
    LET sector == Wanted \div RecsPerSec
    IN  /\ pc = "openrec"
        /\ \/ /\ LoadData(sector)
              /\ rec' = [pos |-> SetSector(sector), hdr_idx |-> Wanted]
              /\ name' = IF why = "match" THEN NoName ELSE name
              /\ pc' = "decode" /\ UNCHANGED ret
           \/ /\ LoadDataFail(sector)
              /\ rec' = [rec EXCEPT !.pos = SetSector(sector)]
              /\ UNCHANGED name
        /\ Uses(Stale(sector))
        /\ UNCHANGED <<volume, search, table, i, why, tablecache, opened, calls>>

\* The record currentRecord.hdr points at: always into the one buffer.
Current == RecordAt(data, rec.hdr_idx % RecsPerSec)

DecodeLfn ==
    /\ pc = "decode"
    /\ Current.k = "lfn"
    /\ name' = IF why = "match" THEN Current.name ELSE name
    /\ pc' = "nextrec"
    /\ UNCHANGED <<volume, search, table, i, rec, why, cache, ret, opened, calls,
                   broken, misled>>

SectorDone_Never == FALSE
SectorDone == (rec.hdr_idx + 1) % RecsPerSec = 0

\* FatNextRecord, FatGetNextSector: the next record of the sector, or the
\* first one of the next sector.
NextRecord ==
    LET next == NextSectorOf(rec.pos)
        cluster == rec.pos.cluster
        moveTo(pos, stale) ==
            /\ rec' = [pos |-> pos, hdr_idx |-> (pos.sector * RecsPerSec) % Word]
            /\ Uses(stale \/ Stale(pos.sector))
            /\ \/ LoadData(pos.sector) /\ pc' = "decode" /\ UNCHANGED ret
               \/ LoadDataFail(pos.sector)
        follow ==
            \/ /\ LoadTable(cluster)
               /\ TableRecord(cluster) # Eoc
               /\ moveTo(SetCluster(TableRecord(cluster)), StaleTable(cluster))
            \/ /\ LoadTable(cluster)
               /\ TableRecord(cluster) = Eoc
               /\ rec' = [rec EXCEPT !.pos = next]
               /\ Uses(StaleTable(cluster))
               /\ Return("F3") /\ UNCHANGED <<data_sec_idx, data, broken>>
            \/ /\ LoadTableFail(cluster)
               /\ rec' = [rec EXCEPT !.pos = next]
               /\ UNCHANGED <<data_sec_idx, data, misled>>
    IN  /\ pc = "nextrec"
        /\ \/ /\ ~SectorDone
              /\ rec' = [rec EXCEPT !.hdr_idx = @ + 1]
              /\ pc' = "decode" /\ UNCHANGED <<cache, ret, broken, misled>>
           \/ /\ SectorDone
              /\ next.in_cluster_ptr # ClusterSize
              /\ moveTo(next, FALSE) /\ UNCHANGED tablecache
           \/ /\ SectorDone
              /\ next.in_cluster_ptr = ClusterSize
              /\ follow
        /\ UNCHANGED <<volume, search, table, i, why, name, opened, calls>>

\* A standard record: what is done with it depends on the caller.
Decoded(whose, ks) == pc = "decode" /\ why = whose /\ Current.k \in ks

\* A deleted record is 0xFA to every caller.
DecodeDeleted ==
    /\ pc = "decode"
    /\ Current.k = "del"
    /\ Return("FA")
    /\ UNCHANGED <<volume, search, table, i, rec, why, name, cache, opened, calls,
                   broken, misled>>

-----------------------------------------------------------------------------
(* fatOpenDir, fatFindRecord and fatOpenFile, with the record they read. *)

\* fatOpenDir goes on, clusters up to 2 being the root's.
DirOpened ==
    /\ Decoded("dir", {"dir"})
    /\ dir' = [dir EXCEPT !.pos =
                    SetCluster(IF Current.cluster <= 2 THEN Root ELSE Current.cluster)]
    /\ pc' = "load"
    /\ UNCHANGED <<volume, search, skip, recordTable, i, rec, why, name, cache, ret,
                   opened, calls, broken, misled>>

NoDir ==
    /\ Decoded("dir", {"file", "end", "hidden"})
    /\ Return("F6")
    /\ UNCHANGED <<volume, search, table, i, rec, why, name, cache, opened, calls,
                   broken, misled>>

\* for (i = 0; i < currentDir.size; i++)
TryEntry ==
    /\ pc = "try"
    /\ i < dir.size
    /\ why' = "match"
    /\ pc' = "openrec"
    /\ UNCHANGED <<volume, search, table, i, rec, name, cache, ret, opened, calls,
                   broken, misled>>

NotFound ==
    /\ pc = "try"
    /\ i = dir.size
    /\ Return(IF k = Len(path) THEN "F0" ELSE "F7")
    /\ UNCHANGED <<volume, search, table, i, rec, why, name, cache, opened, calls,
                   broken, misled>>

\* The name is the long one, if there is one.
FullName == IF name = NoName /\ Current.k \in {"file", "dir"} THEN Current.name ELSE name

Matches == FullName = path[k]

AfterEntry_SameAgain == i
AfterEntry == i + 1

NextEntry ==
    /\ Decoded("match", {"file", "dir", "end", "hidden"})
    /\ ~Matches
    /\ i' = AfterEntry
    /\ pc' = "try"
    /\ UNCHANGED <<volume, search, table, rec, why, name, cache, ret, opened, calls,
                   broken, misled>>

\* The last component is opened as a file, another one as a directory.
Found ==
    /\ Decoded("match", {"file", "dir", "end", "hidden"})
    /\ Matches
    /\ IF k = Len(path)
       THEN /\ hdr_idx' = Wanted
            /\ why' = "file"
            /\ pc' = "openrec"
            /\ UNCHANGED <<k, table, i>>
       ELSE k' = k + 1 /\ OpenDir(Wanted)
    /\ UNCHANGED <<volume, path, rec, name, cache, ret, opened, calls, broken, misled>>

FileOpened ==
    /\ Decoded("file", {"file", "end", "hidden"})
    /\ opened' = IF Current.k = "file" THEN Current.cluster ELSE 0
    /\ Return("ok")
    /\ UNCHANGED <<volume, search, table, i, rec, why, name, cache, calls, broken, misled>>

NoFile ==
    /\ Decoded("file", {"dir"})
    /\ Return("F5")
    /\ UNCHANGED <<volume, search, table, i, rec, why, name, cache, opened, calls,
                   broken, misled>>

-----------------------------------------------------------------------------

\* fatInit has reset the cache.
Init ==
    /\ vol \in Volumes
    /\ path = CHOOSE p \in Paths : TRUE
    /\ k = 1
    /\ hdr_idx = 0
    /\ data_entry = 0
    /\ dir = [pos |-> Zero, size |-> 0, is_root |-> FALSE, entry_cluster |-> 0]
    /\ i = 0
    /\ skip = FALSE
    /\ recordTable = EmptyTable
    /\ rec = [pos |-> Zero, hdr_idx |-> 0]
    /\ why = "dir"
    /\ name = NoName
    /\ data_sec_idx = NoSector
    /\ data = NoSector
    /\ table_sec_idx = NoSector
    /\ table_data = NoSector
    /\ pc = "mount"
    /\ ret = "none"
    /\ opened = 0
    /\ calls = 0
    /\ broken = FALSE
    /\ misled = FALSE

Mount == MountRead \/ MountPartition \/ MountFails \/ Mounted
ReadDir == LoadDir \/ ScanEnd \/ ScanSkipped \/ ScanLfn \/ ScanEntry \/ ScanNext
ReadRecord == OpenRecord \/ DecodeLfn \/ NextRecord \/ DecodeDeleted
Search == DirOpened \/ NoDir \/ TryEntry \/ NotFound \/ NextEntry \/ Found \/ FileOpened \/ NoFile

Work == Mount \/ ReadDir \/ ReadRecord \/ Search

Next == (\E p \in Paths : Call(p)) \/ Work

Spec == Init /\ [][Next]_vars

\* The processor keeps running.
FairSpec == Spec /\ WF_vars(Work)

-----------------------------------------------------------------------------
(* What a path names. *)

\* The entries of a directory, by the index of their standard records: what
\* stands before the end mark and is a file or a directory, at most the
\* first MaxRecords of them.
Entries(recs) ==
    LET ends == {n \in DOMAIN recs : recs[n].k = "end"}
        shown == {n \in DOMAIN recs :
                    recs[n].k \in {"file", "dir"} /\ \A e \in ends : n < e}
    IN  {n \in shown : Cardinality({m \in shown : m < n}) < MaxRecords}

\* An entry's name is the long name in front of it, from the piece with the
\* mark on, or its own; pieces without that one are nobody's.
HasLong(recs, n) ==
    \E t \in 1 .. n - 1 :
        recs[t].k = "lfn" /\ recs[t].top /\ \A m \in t .. n - 1 : recs[m].k = "lfn"
NameOf(recs, n) == IF HasLong(recs, n) THEN recs[n - 1].name ELSE recs[n].name

Named(recs, nm) == {n \in Entries(recs) : NameOf(recs, n) = nm}
FirstNamed(recs, nm) == CHOOSE n \in Named(recs, nm) : \A m \in Named(recs, nm) : n <= m

\* What looking up component n of a path comes to after those before it.
Within(v, before, p, n) ==
    LET recs == v.dirs[before.cluster].recs
        r == recs[FirstNamed(recs, p[n])]
    IN  IF before.res = "file" THEN [res |-> "F6", cluster |-> 0]
        ELSE IF before.res # "dir" THEN before
        ELSE IF Named(recs, p[n]) = {}
             THEN [res |-> IF n = Len(p) THEN "F0" ELSE "F7", cluster |-> 0]
             ELSE [res |-> r.k, cluster |-> r.cluster]

\* The same of the first n components, for every n.
Lookup(v, p) ==
    LET at[n \in 0 .. Len(p)] ==
            IF n = 0 THEN [res |-> "dir", cluster |-> Root] ELSE Within(v, at[n - 1], p, n)
    IN  at

Outcome == Lookup(vol, path)[Len(path)]
Result == IF Outcome.res = "file" THEN "ok" ELSE IF Outcome.res = "dir" THEN "F5" ELSE Outcome.res

-----------------------------------------------------------------------------
(* Properties. *)

Positions == [cluster : Nat, sector : Nat, in_cluster_ptr : 0 .. ClusterSize]
Directories ==
    [pos : Positions, size : 0 .. MaxRecords, is_root : BOOLEAN, entry_cluster : Nat]

TypeOK ==
    /\ k \in 1 .. Len(path)
    /\ dir \in Directories
    /\ rec \in [pos : Positions, hdr_idx : Nat]
    /\ i \in 0 .. MaxRecords + RecsPerSec
    /\ recordTable \in [0 .. MaxRecords - 1 -> Nat]
    /\ pc \in {"mount", "mbr", "pbr", "idle", "load", "scan", "try", "openrec", "decode", "nextrec"}
    /\ why \in {"dir", "match", "file"}
    /\ ret \in {"none", "ok", "D3", "F0", "F3", "F5", "F6", "F7", "F8", "FA"}

\* As long as the card has not failed, opening a path of a FAT32 volume finds
\* the file the path names, or returns the error for what there is instead:
\* wherever the volume begins and the records' groups lie, and though one
\* buffer serves the boot sector, the directory, the records and the file.
IsFat32 == vol.disk.signed /\ vol.disk.fat32 /\ (vol.disk.boot \/ HasPartition)

FindsTheFile ==
    pc = "idle" /\ ret # "none" /\ ~broken =>
        /\ ret = IF IsFat32 THEN Result ELSE "F8"
        /\ ret = "ok" => opened = Outcome.cluster

\* Whenever a record is decoded, the buffer holds the sector its location
\* names, and pos is that sector's place: no step between has refilled it; and
\* nothing is put beyond the end of the table.
BufferIsCurrent ==
    /\ TypeOK
    /\ pc \in {"decode", "nextrec"} /\ ~broken =>
        /\ data = rec.hdr_idx \div RecsPerSec
        /\ rec.pos = SetSector(data)

\* Every search ends, on directories whose chains do, whenever the card fails
\* it and whatever earlier failures have left in the caches; but for a search
\* that uses a buffer whose load had failed.  That one may be sent anywhere, and
\* along entries that lead in a circle.
SearchEnds == pc # "idle" ~> pc = "idle" \/ misled
=============================================================================
