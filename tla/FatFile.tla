------------------------------- MODULE FatFile ------------------------------
(***************************************************************************)
(* Reading an open file through its cluster chain: the second half of      *)
(* fat.c without the directories.  currentFile is a position (cluster,     *)
(* sector, offset in the cluster) and the sectors left; fat_cache holds    *)
(* one sector of the FAT.  A read goes chunk by chunk, each as long as the *)
(* cluster and the call allow, and follows the chain at cluster ends.      *)
(*                                                                         *)
(* One action per access to the card, per step along the chain and per     *)
(* return; the card (disk.c) either does what it is asked or fails.        *)
(* A file is opened on a volume whose chain is as long as the file.        *)
(*                                                                         *)
(* A definition named X_... is X with a bug the code does not have; runs   *)
(* use it to see that a property notices.                                  *)
(***************************************************************************)
EXTENDS Integers, Sequences

CONSTANTS
    ClusterSize,    \* sectors in a cluster, a u8
    EntriesPerSec,  \* 128: FAT entries in a sector
    DataEntry,      \* the first data sector
    RamWrap,        \* 128 = 2^16 / 512: where (u16)(512 * len) wraps
    PtrWrap,        \* 2^8: in_cluster_ptr is a u8
    LenWrap,        \* 2^16: chunk lengths are u16
    Volumes,        \* the files on their volumes: [chain, size, mark]
    MaxCount,       \* bound: sectors of the longest call
    MaxCalls,       \* bound: calls made
    Calls,          \* the calls callers make: "rom", "ram", "skip"
    CardFails       \* reads of the card may fail

Eoc == 0            \* stands for 0x0FFFFFFF, the only mark the code knows

ASSUME FileAssumption ==
    /\ ClusterSize \in 1 .. PtrWrap - 1
    /\ EntriesPerSec \in Nat \ {0}
    /\ DataEntry \in Nat /\ DataEntry >= 2 * ClusterSize
    /\ RamWrap \in Nat \ {0}
    /\ PtrWrap \in Nat \ {0}
    /\ LenWrap \in Nat /\ LenWrap >= PtrWrap
    /\ MaxCount \in Nat \ {0} /\ MaxCount < LenWrap
    /\ MaxCalls \in Nat
    /\ Calls \subseteq {"rom", "ram", "skip"}
    /\ CardFails \in BOOLEAN

\* The file is not empty (an empty one has no cluster).  Its chain runs through
\* distinct clusters, is as long as the file needs, and
\* ends with a mark.  The FAT format knows several; see Eoc.
ASSUME VolumeAssumption ==
    \A v \in Volumes :
        /\ v.chain \in Seq(Nat \ {0, 1}) /\ v.chain # <<>>
        /\ \A i, j \in 1 .. Len(v.chain) : v.chain[i] = v.chain[j] => i = j
        /\ v.size \in Nat
        /\ (Len(v.chain) - 1) * ClusterSize < v.size
        /\ v.size <= Len(v.chain) * ClusterSize
        /\ v.mark \in Nat

VARIABLES
    vol,            \* the file: its chain of clusters, its size in sectors,
                    \* the mark after the last cluster
    pos,            \* currentFile.pos
    sec_available,
    table_sec_idx,  \* fat_cache.table_sec_idx
    table,          \* whose contents the table cache really holds
    pc,             \* "idle", "read", "skip" or, at a cluster's end, "next"
    call,           \* the call in progress, or the last one: [fn, n]
    left,           \* its `sectors', counting down
    dst,            \* its `dst', in sectors from where it began
    memory,         \* what it has put there
    ret,            \* what the last call returned
    calls,          \* calls made, for the bound
    at,             \* history: how many sectors of the file have been passed
    broken          \* history: a call has failed half way

cache == <<table_sec_idx, table>>
progress == <<call, left, dst, memory>>
history == <<at, broken>>
vars == <<vol, pos, sec_available, cache, pc, progress, ret, calls, history>>

Nowhere == -1       \* 0xFFFFFFFF in an index; a buffer nothing was read to

Least(a, b) == IF a < b THEN a ELSE b

-----------------------------------------------------------------------------
(* The volume. *)

fatClusterToSector(c) == (c - 2) * ClusterSize + DataEntry

\* What the FAT says of a cluster; nothing but the chain is allocated.
Entry(c) ==
    IF \E i \in 1 .. Len(vol.chain) : vol.chain[i] = c
    THEN LET i == CHOOSE j \in 1 .. Len(vol.chain) : vol.chain[j] = c
         IN  IF i = Len(vol.chain) THEN vol.mark ELSE vol.chain[i + 1]
    ELSE 1

Entries == {vol.chain[i] : i \in 1 .. Len(vol.chain)} \cup {1, vol.mark}

\* Where sector n of the file is, counting from 0.
FileSector(n) ==
    fatClusterToSector(vol.chain[n \div ClusterSize + 1]) + (n % ClusterSize)

\* FatSetCluster
SetCluster(c) == [cluster |-> c, sector |-> fatClusterToSector(c), in_cluster_ptr |-> 0]

TypeOK ==
    /\ vol \in Volumes
    /\ pos \in [cluster : Nat, sector : Nat, in_cluster_ptr : 0 .. PtrWrap - 1]
    /\ sec_available \in 0 .. vol.size
    /\ table_sec_idx \in Nat \cup {Nowhere}
    /\ table \in Nat \cup {Nowhere}
    /\ pc \in {"idle", "read", "skip", "next"}
    /\ call \in [fn : {"rom", "ram", "skip"}, n : 0 .. MaxCount]
    /\ left \in 0 .. MaxCount
    /\ dst \in 0 .. MaxCount
    /\ DOMAIN memory = 0 .. MaxCount - 1
    /\ ret \in {"ok", "D3", "F3"}
    /\ calls \in 0 .. MaxCalls
    /\ at \in Nat
    /\ broken \in BOOLEAN

-----------------------------------------------------------------------------
(* Calls and returns. *)

Empty == [d \in 0 .. MaxCount - 1 |-> Nowhere]

Return(result) ==
    /\ pc' = "idle"
    /\ ret' = result

\* A return with an error, once the call has begun.
Abort(result) ==
    /\ Return(result)
    /\ broken' = TRUE

Enter(c, n) ==
    /\ pc = "idle"
    /\ calls < MaxCalls
    /\ calls' = calls + 1
    /\ call' = [fn |-> c, n |-> n]
    /\ left' = n
    /\ dst' = 0
    /\ memory' = Empty
    /\ UNCHANGED <<vol, pos, cache, history>>

\* FatReadFileRom and FatReadFileRam: the sectors are taken off at once.
CallRead(c, n) ==
    /\ c \in Calls \ {"skip"}
    /\ Enter(c, n)
    /\ IF n > sec_available
       THEN Return("F3") /\ UNCHANGED sec_available
       ELSE pc' = "read" /\ sec_available' = sec_available - n /\ UNCHANGED ret

\* fatSkipSectors.  It compares nothing; a caller skips what the file has, for
\* more would wrap sec_available.
CallSkip(n) ==
    /\ "skip" \in Calls
    /\ n <= sec_available
    /\ Enter("skip", n)
    /\ sec_available' = sec_available - n
    /\ pc' = "skip"
    /\ UNCHANGED ret

\* The loop is done.
Finish ==
    /\ pc \in {"read", "skip"}
    /\ left = 0
    /\ Return("ok")
    /\ UNCHANGED <<vol, pos, sec_available, cache, progress, calls, history>>

-----------------------------------------------------------------------------
(* Following the chain: fatGetTableRecord and fatGetNextCluster. *)

TableSector == pos.cluster \div EntriesPerSec

\* fatCacheLoadTable on a miss.
TableLoad ==
    /\ pc = "next"
    /\ table_sec_idx # TableSector
    /\ table_sec_idx' = TableSector
    /\ table' = TableSector
    /\ UNCHANGED <<vol, pos, sec_available, pc, progress, ret, calls, history>>

\* The card fails with the index set.  The buffer is as it was: bi_sd_to_ram
\* gives up on a sector before any of it has come.
TableLoadFail ==
    /\ CardFails
    /\ pc = "next"
    /\ table_sec_idx # TableSector
    /\ table_sec_idx' = TableSector
    /\ Abort("D3")
    /\ UNCHANGED <<vol, pos, sec_available, table, progress, calls, at>>

\* The entry read out of the cache, which may hold another sector or none.
CachedEntries ==
    IF table = Nowhere
    THEN Entries
    ELSE {Entry(table * EntriesPerSec + (pos.cluster % EntriesPerSec))}

NextCluster ==
    /\ pc = "next"
    /\ table_sec_idx = TableSector
    /\ \E c \in CachedEntries :
        /\ c # Eoc
        /\ pos' = SetCluster(c)
    /\ pc' = IF call.fn = "skip" THEN "skip" ELSE "read"
    /\ UNCHANGED <<vol, sec_available, cache, progress, ret, calls, history>>

\* 0x0FFFFFFF ends the chain.
ChainEnd ==
    /\ pc = "next"
    /\ table_sec_idx = TableSector
    /\ Eoc \in CachedEntries
    /\ Abort("F3")
    /\ UNCHANGED <<vol, pos, sec_available, cache, progress, calls, at>>

-----------------------------------------------------------------------------
(* FatRWFileRom and FatRWFileRam, mode 0. *)

FatGetRWLen_WholeCluster == Least(ClusterSize, left)
\* FatGetRWLen: u16 arithmetic on what is left of the cluster.
FatGetRWLen ==
    Least(IF pos.in_cluster_ptr = 0
          THEN ClusterSize
          ELSE (ClusterSize - pos.in_cluster_ptr) % LenWrap,
          left)

\* dst += len, or dst += (u16)(512 * len).
DstStep(len) == IF call.fn = "ram" THEN len % RamWrap ELSE len

ClusterDone_IfMoved(ptr, len) == ptr = ClusterSize /\ len > 0
ClusterDone(ptr, len) == ptr = ClusterSize

\* FatRWStepSectors, unless it has to follow the chain: then pc' = "next".
StepSectors(len) ==
    LET ptr == (pos.in_cluster_ptr + len) % PtrWrap
    IN  IF ClusterDone(ptr, len)
        THEN /\ pos' = [pos EXCEPT !.in_cluster_ptr = ptr]
             /\ pc' = "next"
        ELSE /\ pos' = [pos EXCEPT !.in_cluster_ptr = ptr, !.sector = @ + len]
             /\ pc' = "read"

\* A chunk arrives.  The position stays where it is when the file is used up.
ReadChunk ==
    LET len == FatGetRWLen
    IN  /\ pc = "read"
        /\ left > 0
        /\ memory' = [d \in 0 .. MaxCount - 1 |->
                        IF d \in dst .. dst + len - 1
                        THEN pos.sector + d - dst
                        ELSE memory[d]]
        /\ left' = left - len
        /\ dst' = dst + DstStep(len)
        /\ at' = at + len
        /\ IF left' = 0 /\ sec_available = 0
           THEN UNCHANGED <<pos, pc>>
           ELSE StepSectors(len)
        /\ UNCHANGED <<vol, sec_available, cache, call, ret, calls, broken>>

\* The card fails, in the middle of a chunk or before.
ReadFail ==
    /\ CardFails
    /\ pc = "read"
    /\ left > 0
    /\ Abort("D3")
    /\ UNCHANGED <<vol, pos, sec_available, cache, progress, calls, at>>

-----------------------------------------------------------------------------
(* fatSkipSectors *)

\* A whole cluster at a time from the beginning of one.
SkipCluster ==
    /\ pc = "skip"
    /\ left >= ClusterSize
    /\ pos.in_cluster_ptr = 0
    /\ left' = left - ClusterSize
    /\ at' = at + ClusterSize
    /\ pc' = "next"
    /\ UNCHANGED <<vol, pos, sec_available, cache, call, dst, memory, ret, calls,
                   broken>>

AfterSkip_StaysInCluster(ptr) == "skip"
AfterSkip(ptr) == IF ptr = ClusterSize THEN "next" ELSE "skip"

\* FatGetNextSector, and the chain at the end of the cluster.
SkipSector ==
    LET ptr == (pos.in_cluster_ptr + 1) % PtrWrap
    IN  /\ pc = "skip"
        /\ left > 0
        /\ left < ClusterSize \/ pos.in_cluster_ptr # 0
        /\ pos' = [pos EXCEPT !.in_cluster_ptr = ptr, !.sector = @ + 1]
        /\ pc' = AfterSkip(ptr)
        /\ left' = left - 1
        /\ at' = at + 1
        /\ UNCHANGED <<vol, sec_available, cache, call, dst, memory, ret, calls,
                       broken>>

-----------------------------------------------------------------------------

\* A file has just been opened (fatOpenFile) on a mounted volume (fatInit).
Init ==
    /\ vol \in Volumes
    /\ pos = SetCluster(vol.chain[1])
    /\ sec_available = vol.size
    /\ table_sec_idx = Nowhere
    /\ table = Nowhere
    /\ pc = "idle"
    /\ call = [fn |-> "rom", n |-> 0]
    /\ left = 0
    /\ dst = 0
    /\ memory = Empty
    /\ ret = "ok"
    /\ calls = 0
    /\ at = 0
    /\ broken = FALSE

Work == TableLoad \/ NextCluster \/ ChainEnd
        \/ ReadChunk \/ SkipCluster \/ SkipSector \/ Finish
Fail == TableLoadFail \/ ReadFail

Next ==
    \/ \E c \in {"rom", "ram"}, n \in 0 .. MaxCount : CallRead(c, n)
    \/ \E n \in 0 .. MaxCount : CallSkip(n)
    \/ Work
    \/ Fail

Spec == Init /\ [][Next]_vars

\* The processor keeps running.  The card need not fail to end a call.
FairSpec == Spec /\ WF_vars(Work)

-----------------------------------------------------------------------------
(* Properties. *)

\* Between calls, a file no call has failed on is where its sectors passed
\* say: in the cluster of the chain that holds the next sector and at the
\* right offset in it, with sec_available the sectors that remain.  (A file
\* that is used up keeps the position of its last chunk.)
InPlace ==
    /\ TypeOK
    /\ pc = "idle" /\ ~broken =>
        /\ sec_available = vol.size - at
        /\ at < vol.size =>
            /\ pos.sector = FileSector(at)
            /\ pos.cluster = vol.chain[(at \div ClusterSize) + 1]
            /\ pos.in_cluster_ptr = at % ClusterSize

\* No read and no skip runs for ever, whatever failed before it: a chunk of no
\* sectors, which a retry after a failed step along the chain asks for, is
\* followed by that step.
EveryCallReturns == pc # "idle" ~> pc = "idle"

\* The file half of fat.c implements the file reader.
Reader == INSTANCE FileReader WITH
    Nothing <- Nowhere,
    file <- [i \in 1 .. vol.size |-> FileSector(i - 1)],
    todo <- IF pc = "idle" THEN 0 ELSE left,
    active <- pc # "idle"

ReaderSpec == Reader!Spec
=============================================================================
