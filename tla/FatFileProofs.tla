---------------------------- MODULE FatFileProofs ---------------------------
(***************************************************************************)
(* Proofs about FatFile, for every size of cluster and of FAT sector, all  *)
(* volumes, and calls of any length and number: between calls an open file *)
(* is where it should be, and the file half of fat.c implements the file   *)
(* reader, as long as no cluster is of 64 KB.                              *)
(***************************************************************************)
EXTENDS FatFile, TLAPS

-----------------------------------------------------------------------------
(* The inductive invariant. *)

\* What the types need: a chunk ends inside the buffer of its call.
CallInv ==
    /\ dst + left <= MaxCount
    /\ pc = "read" => call.fn # "skip"
    /\ pc = "skip" => call.fn = "skip"
    /\ pc # "idle" => call.fn \in Calls

\* The sectors passed, those to be passed and those available are the file.
Rest == IF pc = "idle" THEN 0 ELSE left
InFile == at + Rest + sec_available = vol.size

\* The position is that of the next sector, if there is one ...
PosIsAt ==
    /\ pos.sector = FileSector(at)
    /\ pos.cluster = vol.chain[(at \div ClusterSize) + 1]
    /\ pos.in_cluster_ptr = at % ClusterSize

\* ... but while the chain is followed it is still in the cluster before.
Placed ==
    /\ at < vol.size /\ pc # "next" => PosIsAt
    /\ pc = "next" =>
        /\ at % ClusterSize = 0 /\ at >= ClusterSize
        /\ pos.cluster = vol.chain[at \div ClusterSize]

\* Only a load that fails lets the index and the contents come apart.
CacheInv == table = table_sec_idx

Inv ==
    /\ TypeOK /\ CallInv
    /\ ~broken => InFile /\ Placed /\ CacheInv

\* The buffer is filled from its beginning up to dst.
Filled ==
    ~broken /\ pc # "idle" /\ call.fn # "skip" =>
        /\ \A d \in 0 .. dst - 1 : memory[d] # Nowhere
        /\ \A d \in dst .. MaxCount - 1 : memory[d] = Nowhere

\* In FatRWFileRam (u16)(512 * len) is 512 * len.
NarrowClusters == "ram" \in Calls => ClusterSize < RamWrap

-----------------------------------------------------------------------------
(* Arithmetic. *)

\* Quotient and remainder make the number ...
LEMMA DivMod ==
    ASSUME NEW a \in Nat, NEW c \in Nat \ {0}
    PROVE  /\ a \div c \in Nat /\ a % c \in 0 .. c - 1
           /\ a = c * (a \div c) + (a % c)
OBVIOUS

\* ... and no others do.
LEMMA DivModUnique ==
    ASSUME NEW c \in Nat \ {0}, NEW q \in Nat, NEW r \in 0 .. c - 1
    PROVE  (c * q + r) \div c = q /\ (c * q + r) % c = r
OBVIOUS

\* A number below b times c is in one of the first b parts of c.
LEMMA Below ==
    ASSUME NEW a \in Nat, NEW b \in Nat, NEW c \in Nat \ {0}, a < b * c
    PROVE  a \div c < b
<1>1. c * (a \div c) <= a /\ a \div c \in Nat
    BY DivMod
<1>2. SUFFICES ASSUME a \div c >= b PROVE FALSE
    BY <1>1
<1>3. \A x, y, z \in Nat : x >= y => z * x >= y * z
    BY SMT
<1> QED
    BY <1>1, <1>2, <1>3

\* Going on by k, no further than the end of the part.
LEMMA Advance ==
    ASSUME NEW a \in Nat, NEW k \in Nat, NEW c \in Nat \ {0}, (a % c) + k <= c
    PROVE  /\ (a % c) + k < c => (a + k) \div c = a \div c /\ (a + k) % c = (a % c) + k
           /\ (a % c) + k = c => (a + k) \div c = (a \div c) + 1 /\ (a + k) % c = 0
<1> DEFINE q == a \div c  r == a % c
<1>1. q \in Nat /\ r \in 0 .. c - 1 /\ a = c * q + r
    BY DivMod
<1>2. CASE r + k < c
    <2>1. a + k = c * q + (r + k) /\ r + k \in 0 .. c - 1
        BY <1>1, <1>2
    <2>2. (c * q + (r + k)) \div c = q /\ (c * q + (r + k)) % c = r + k
        BY <1>1, <2>1, DivModUnique
    <2> QED
        BY <1>1, <1>2, <2>1, <2>2
<1>3. CASE r + k = c
    <2>1. c * (q + 1) = c * q + c
        BY <1>1
    <2>2. a + k = c * (q + 1) + 0 /\ 0 \in 0 .. c - 1 /\ q + 1 \in Nat
        BY <1>1, <1>3, <2>1
    <2>3. (c * (q + 1) + 0) \div c = q + 1 /\ (c * (q + 1) + 0) % c = 0
        BY <2>2, DivModUnique
    <2> QED
        BY <1>3, <2>2, <2>3
<1> QED
    BY <1>1, <1>2, <1>3

-----------------------------------------------------------------------------
(* The volume. *)

\* The file's chain, as the proofs use it.
LEMMA VolumeFacts ==
    ASSUME vol \in Volumes
    PROVE  /\ Len(vol.chain) \in Nat
           /\ \A i \in 1 .. Len(vol.chain) : vol.chain[i] \in Nat \ {0, 1}
           /\ \A i, j \in 1 .. Len(vol.chain) : vol.chain[i] = vol.chain[j] => i = j
           /\ vol.size \in Nat \ {0} /\ vol.size <= Len(vol.chain) * ClusterSize
           /\ vol.mark \in Nat
           /\ ClusterSize \in Nat \ {0}
<1>1. /\ vol.chain \in Seq(Nat \ {0, 1}) /\ vol.chain # <<>>
      /\ vol.size \in Nat /\ (Len(vol.chain) - 1) * ClusterSize < vol.size
      /\ ClusterSize \in Nat \ {0}
    BY VolumeAssumption, FileAssumption
<1>2. Len(vol.chain) - 1 \in Nat
    BY <1>1
<1>3. (Len(vol.chain) - 1) * ClusterSize >= 0
    BY <1>1, <1>2
<1> QED
    BY <1>1, <1>2, <1>3, VolumeAssumption

\* Every sector of the file is in a cluster of the chain.
LEMMA IndexFacts ==
    ASSUME vol \in Volumes, NEW n \in Nat, n < vol.size
    PROVE  /\ (n \div ClusterSize) + 1 \in 1 .. Len(vol.chain)
           /\ vol.chain[(n \div ClusterSize) + 1] \in Nat
<1>1. (n \div ClusterSize) \in Nat /\ (n \div ClusterSize) < Len(vol.chain)
    <2>1. n < Len(vol.chain) * ClusterSize /\ Len(vol.chain) \in Nat /\ ClusterSize \in Nat \ {0}
        BY VolumeFacts
    <2> QED
        BY <2>1, DivMod, Below
<1> QED
    BY <1>1, VolumeFacts

Positions == [cluster : Nat, sector : Nat, in_cluster_ptr : 0 .. PtrWrap - 1]

\* A cluster's first sector is one.
LEMMA ClusterFacts ==
    ASSUME NEW c \in Nat
    PROVE  /\ fatClusterToSector(c) \in Nat
           /\ SetCluster(c) \in Positions
<1>1. c * ClusterSize \in Nat /\ (c - 2) * ClusterSize = c * ClusterSize - 2 * ClusterSize
    BY FileAssumption
<1>2. fatClusterToSector(c) \in Nat
    BY <1>1, FileAssumption DEF fatClusterToSector
<1> QED
    BY <1>2, FileAssumption DEF SetCluster, Positions

\* Within a cluster the sectors of the file follow each other.
LEMMA SectorFacts ==
    ASSUME vol \in Volumes, NEW n \in Nat, n < vol.size
    PROVE  /\ FileSector(n) \in Nat
           /\ \A k \in Nat : (n % ClusterSize) + k < ClusterSize
                => FileSector(n + k) = FileSector(n) + k
<1> DEFINE c == vol.chain[(n \div ClusterSize) + 1]
<1>0. ClusterSize \in Nat \ {0}
    BY VolumeFacts
<1>1. c \in Nat /\ n % ClusterSize \in Nat
    <2>1. c \in Nat
        BY IndexFacts
    <2>2. n % ClusterSize \in Nat
        BY <1>0, DivMod
    <2> QED
        BY <2>1, <2>2
<1>2. fatClusterToSector(c) \in Nat
    BY <1>1, ClusterFacts
<1>3. FileSector(n) = fatClusterToSector(c) + (n % ClusterSize)
    BY DEF FileSector
<1>4. ASSUME NEW k \in Nat, (n % ClusterSize) + k < ClusterSize
      PROVE  FileSector(n + k) = FileSector(n) + k
    <2>1. (n + k) \div ClusterSize = n \div ClusterSize
          /\ (n + k) % ClusterSize = (n % ClusterSize) + k
        <3>1. (n % ClusterSize) + k <= ClusterSize
            BY <1>0, <1>1, <1>4
        <3> QED
            BY <1>0, <1>4, <3>1, Advance
    <2>2. FileSector(n + k) = fatClusterToSector(c) + ((n % ClusterSize) + k)
        BY <2>1 DEF FileSector
    <2> QED
        BY <1>1, <1>2, <1>3, <2>2
<1> QED
    BY <1>1, <1>2, <1>3, <1>4

\* The FAT leads from each cluster of the chain to the next, and is a table
\* of numbers everywhere.
LEMMA EntryFacts ==
    ASSUME vol \in Volumes
    PROVE  /\ \A c : Entry(c) \in Nat
           /\ Entries \subseteq Nat
           /\ \A i \in 1 .. Len(vol.chain) :
                i < Len(vol.chain) => Entry(vol.chain[i]) = vol.chain[i + 1]
<1> USE VolumeFacts
<1>1. ASSUME NEW i \in 1 .. Len(vol.chain)
      PROVE  Entry(vol.chain[i]) = IF i = Len(vol.chain) THEN vol.mark ELSE vol.chain[i + 1]
    <2> DEFINE j == CHOOSE k \in 1 .. Len(vol.chain) : vol.chain[k] = vol.chain[i]
    <2>1. j \in 1 .. Len(vol.chain) /\ vol.chain[j] = vol.chain[i]
        OBVIOUS
    <2>2. j = i
        BY <2>1
    <2> QED
        BY <2>2 DEF Entry
<1>2. ASSUME NEW c PROVE Entry(c) \in Nat
    <2>1. CASE \E i \in 1 .. Len(vol.chain) : vol.chain[i] = c
        <3>1. PICK i \in 1 .. Len(vol.chain) : vol.chain[i] = c
            BY <2>1, Zenon
        <3>2. Entry(vol.chain[i]) \in Nat
            <4>1. CASE i = Len(vol.chain)
                BY <1>1, <4>1
            <4>2. CASE i # Len(vol.chain)
                <5>1. i + 1 \in 1 .. Len(vol.chain)
                    BY <4>2
                <5>2. Entry(vol.chain[i]) = vol.chain[i + 1]
                    BY <1>1, <4>2
                <5>3. vol.chain[i + 1] \in Nat \ {0, 1}
                    BY <5>1
                <5> QED
                    BY <5>2, <5>3
            <4> QED
                BY <4>1, <4>2
        <3> QED
            BY <3>1, <3>2, Zenon
    <2>2. CASE ~ \E i \in 1 .. Len(vol.chain) : vol.chain[i] = c
        <3>1. Entry(c) = 1
            BY <2>2, Zenon DEF Entry
        <3> QED
            BY <3>1
    <2> QED
        BY <2>1, <2>2
<1> QED
    BY <1>1, <1>2 DEF Entries

\* A chunk is no longer than the call allows, and not empty inside a cluster,
\* whose end it does not pass.
LEMMA ChunkFacts ==
    ASSUME TypeOK, left > 0
    PROVE  /\ FatGetRWLen \in 0 .. left
           /\ pos.in_cluster_ptr < ClusterSize =>
                FatGetRWLen > 0 /\ pos.in_cluster_ptr + FatGetRWLen <= ClusterSize
<1> DEFINE room == ClusterSize - pos.in_cluster_ptr
<1>1. /\ left \in Nat /\ pos.in_cluster_ptr \in Nat /\ room \in Int /\ ClusterSize \in Nat
      /\ LenWrap \in Nat \ {0} /\ ClusterSize < LenWrap /\ room <= ClusterSize
    BY FileAssumption DEF TypeOK
<1>2. room % LenWrap \in Nat /\ (room >= 0 => room % LenWrap = room)
    BY <1>1, Z3
<1> QED
    BY <1>1, <1>2 DEF FatGetRWLen, Least

\* A position that moves is one, wherever it moves to.
LEMMA MovedFacts ==
    ASSUME pos \in Positions, NEW k \in Nat
    PROVE  /\ (pos.in_cluster_ptr + k) % PtrWrap \in 0 .. PtrWrap - 1
           /\ \A p \in 0 .. PtrWrap - 1 :
                /\ [pos EXCEPT !.in_cluster_ptr = p] \in Positions
                /\ [pos EXCEPT !.in_cluster_ptr = p, !.sector = @ + k] \in Positions
<1>1. PtrWrap \in Nat \ {0} /\ pos.in_cluster_ptr + k \in Nat /\ pos.sector + k \in Nat
    BY FileAssumption DEF Positions
<1>2. (pos.in_cluster_ptr + k) % PtrWrap \in 0 .. PtrWrap - 1
    BY <1>1, DivMod
<1> QED
    BY <1>1, <1>2 DEF Positions

LEMMA StepType ==
    ASSUME pos \in Positions, NEW len \in Nat, StepSectors(len)
    PROVE  pos' \in Positions /\ pc' \in {"read", "next"}
<1> DEFINE ptr == (pos.in_cluster_ptr + len) % PtrWrap
<1>1. ptr \in 0 .. PtrWrap - 1
    BY MovedFacts
<1>2. /\ [pos EXCEPT !.in_cluster_ptr = ptr] \in Positions
      /\ [pos EXCEPT !.in_cluster_ptr = ptr, !.sector = @ + len] \in Positions
    BY <1>1, MovedFacts
<1>3. \/ pos' = [pos EXCEPT !.in_cluster_ptr = ptr] /\ pc' = "next"
      \/ pos' = [pos EXCEPT !.in_cluster_ptr = ptr, !.sector = @ + len] /\ pc' = "read"
    BY DEF StepSectors
<1> QED
    BY <1>2, <1>3

-----------------------------------------------------------------------------
(* Types, whatever has failed. *)

LEMMA InvInit == Init => Inv
<1> SUFFICES ASSUME Init PROVE Inv
    OBVIOUS
<1>1. vol \in Volumes /\ vol.size \in Nat \ {0}
    BY VolumeFacts DEF Init
<1>2. 0 \div ClusterSize = 0 /\ 0 % ClusterSize = 0
    BY FileAssumption
<1>3. vol.chain[1] \in Nat
    BY <1>1, <1>2, IndexFacts
<1>4. pos = SetCluster(vol.chain[1]) /\ fatClusterToSector(vol.chain[1]) \in Nat
    BY <1>3, ClusterFacts DEF Init
<1>5. PosIsAt
    BY <1>2, <1>4 DEF Init, PosIsAt, FileSector, SetCluster
<1>6. TypeOK
    <2>1. pos \in Positions
        BY <1>3, <1>4, ClusterFacts
    <2>2. broken \in BOOLEAN /\ DOMAIN memory = 0 .. MaxCount - 1
        BY DEF Init, Empty
    <2> QED
        BY <1>1, <2>1, <2>2, FileAssumption DEF Init, TypeOK, Nowhere, Positions
<1> QED
    BY <1>1, <1>5, <1>6, FileAssumption
       DEF Init, Inv, CallInv, InFile, Rest, Placed, CacheInv

\* Whatever the cache holds, what is read out of it is a number.
LEMMA CachedFacts == ASSUME TypeOK PROVE CachedEntries \subseteq Nat
BY EntryFacts DEF TypeOK, CachedEntries

LEMMA TypeStep == TypeOK /\ CallInv /\ [Next]_vars => TypeOK' /\ CallInv'
<1> SUFFICES ASSUME TypeOK, CallInv, [Next]_vars PROVE TypeOK' /\ CallInv'
    OBVIOUS
<1> USE FileAssumption DEF TypeOK, CallInv, cache, progress, history, Return, Abort
<1>1. ASSUME NEW c \in {"rom", "ram"}, NEW n \in 0 .. MaxCount, CallRead(c, n)
      PROVE  TypeOK' /\ CallInv'
    <2>1. DOMAIN memory' = 0 .. MaxCount - 1 /\ call' = [fn |-> c, n |-> n] /\ c \in Calls
        BY <1>1 DEF CallRead, Enter, Empty
    <2>2. /\ \/ pc' = "idle" /\ ret' = "F3" /\ sec_available' = sec_available
             \/ pc' = "read" /\ ret' = ret /\ sec_available' = sec_available - n /\ n <= sec_available
          /\ left' = n /\ dst' = 0 /\ calls' = calls + 1 /\ calls < MaxCalls
          /\ UNCHANGED <<vol, pos, table_sec_idx, table, at, broken>>
        BY <1>1 DEF CallRead, Enter
    <2>3. n \in Nat /\ vol.size \in Nat /\ sec_available \in 0 .. vol.size
        BY VolumeFacts
    <2>4. sec_available' \in 0 .. vol.size
        BY <2>2, <2>3
    <2> QED
        BY <2>1, <2>2, <2>4
<1>2. ASSUME NEW n \in 0 .. MaxCount, CallSkip(n) PROVE TypeOK' /\ CallInv'
    BY <1>2, VolumeFacts DEF CallSkip, Enter, Empty
<1>3. CASE TableLoad \/ TableLoadFail
    <2>1. TableSector \in Nat
        BY DivMod DEF TableSector
    <2> QED
        BY <1>3, <2>1 DEF TableLoad, TableLoadFail
<1>4. CASE NextCluster
    <2>1. pos' \in Positions
        BY <1>4, CachedFacts, ClusterFacts DEF NextCluster
    <2> QED
        BY <1>4, <2>1 DEF NextCluster, Positions
<1>5. CASE ChainEnd \/ ReadFail \/ Finish
    BY <1>5 DEF ChainEnd, ReadFail, Finish
<1>6. CASE ReadChunk
    <2> DEFINE len == FatGetRWLen
    <2>1. /\ len \in 0 .. left /\ left' = left - len /\ dst' = dst + DstStep(len)
          /\ at' = at + len /\ DOMAIN memory' = 0 .. MaxCount - 1 /\ pc = "read"
          /\ UNCHANGED <<vol, sec_available, table_sec_idx, table, call, ret, calls, broken>>
        BY <1>6, ChunkFacts DEF ReadChunk
    <2>2. DstStep(len) \in 0 .. len
        <3>1. len % RamWrap \in Nat /\ len % RamWrap <= len
            BY <2>1, Z3
        <3> QED
            BY <2>1, <3>1 DEF DstStep
    <2>3. pos \in Positions /\ len \in Nat
        BY <2>1 DEF Positions
    <2>4. /\ pos' \in Positions
          /\ pc' \in {"read", "next"}
        <3>1. StepSectors(len) \/ UNCHANGED <<pos, pc>>
            BY <1>6 DEF ReadChunk
        <3> QED
            BY <2>1, <2>3, <3>1, StepType
    <2>5. left' \in 0 .. MaxCount /\ dst' \in 0 .. MaxCount /\ dst' + left' <= MaxCount /\ at' \in Nat
        BY <2>1, <2>2
    <2> QED
        BY <2>1, <2>4, <2>5 DEF Positions
<1>7. CASE SkipCluster
    BY <1>7 DEF SkipCluster
<1>8. CASE SkipSector
    <2>1. pos' \in Positions
        BY <1>8, MovedFacts DEF SkipSector, Positions
    <2> QED
        <3>1. /\ pc = "skip" /\ pc' \in {"next", "skip"} /\ left > 0 /\ left' = left - 1 /\ at' = at + 1
              /\ UNCHANGED <<vol, sec_available, table_sec_idx, table, call, dst, memory, ret,
                             calls, broken>>
            BY <1>8 DEF SkipSector, AfterSkip
        <3> QED
            BY <2>1, <3>1 DEF Positions
<1>9. CASE UNCHANGED vars
    BY <1>9 DEF vars
<1> QED
    BY <1>1, <1>2, <1>3, <1>4, <1>5, <1>6, <1>7, <1>8, <1>9 DEF Next, Work, Fail

-----------------------------------------------------------------------------
(* Where a file is that no call has failed on. *)

\* Passing k sectors of the cluster the position is in: either the position
\* after them is k sectors on in it, or they were the last ones.
LEMMA PassFacts ==
    ASSUME TypeOK, PosIsAt, at < vol.size, NEW k \in Nat, pos.in_cluster_ptr + k <= ClusterSize
    PROVE  /\ (pos.in_cluster_ptr + k) % PtrWrap = pos.in_cluster_ptr + k
           /\ pos.in_cluster_ptr + k < ClusterSize =>
                /\ FileSector(at + k) = pos.sector + k
                /\ (at + k) % ClusterSize = pos.in_cluster_ptr + k
                /\ vol.chain[((at + k) \div ClusterSize) + 1] = pos.cluster
           /\ pos.in_cluster_ptr + k = ClusterSize =>
                /\ (at + k) % ClusterSize = 0 /\ at + k >= ClusterSize
                /\ vol.chain[(at + k) \div ClusterSize] = pos.cluster
<1>1. /\ at \in Nat /\ ClusterSize \in Nat \ {0} /\ vol \in Volumes
      /\ ClusterSize < PtrWrap /\ PtrWrap \in Nat \ {0}
    BY FileAssumption DEF TypeOK
<1>2. /\ pos.in_cluster_ptr = at % ClusterSize /\ pos.sector = FileSector(at)
      /\ pos.cluster = vol.chain[(at \div ClusterSize) + 1]
    BY DEF PosIsAt
<1>3. at % ClusterSize \in Nat /\ at % ClusterSize <= at
      /\ at \div ClusterSize \in Nat
    BY <1>1, Z3
<1>4. (pos.in_cluster_ptr + k) % PtrWrap = pos.in_cluster_ptr + k
    <2>1. \A a, b \in Nat : a < b => a % b = a
        BY SMT
    <2> QED
        BY <1>1, <1>2, <1>3, <2>1
<1>5. ASSUME pos.in_cluster_ptr + k < ClusterSize
      PROVE  /\ FileSector(at + k) = pos.sector + k
             /\ (at + k) % ClusterSize = pos.in_cluster_ptr + k
             /\ vol.chain[((at + k) \div ClusterSize) + 1] = pos.cluster
    <2>1. (at + k) \div ClusterSize = at \div ClusterSize
          /\ (at + k) % ClusterSize = (at % ClusterSize) + k
        BY <1>1, <1>2, <1>3, <1>5, Advance
    <2>2. FileSector(at + k) = FileSector(at) + k
        BY <1>1, <1>2, <1>5, SectorFacts
    <2> QED
        BY <1>2, <2>1, <2>2
<1>6. ASSUME pos.in_cluster_ptr + k = ClusterSize
      PROVE  /\ (at + k) % ClusterSize = 0 /\ at + k >= ClusterSize
             /\ vol.chain[(at + k) \div ClusterSize] = pos.cluster
    <2>1. (at + k) \div ClusterSize = (at \div ClusterSize) + 1 /\ (at + k) % ClusterSize = 0
        <3>1. (at % ClusterSize) + k = ClusterSize /\ (at % ClusterSize) + k <= ClusterSize
            BY <1>1, <1>2, <1>6
        <3> QED
            BY <1>1, <3>1, Advance
    <2>2. at + k >= ClusterSize
        BY <1>1, <1>2, <1>3, <1>6
    <2> QED
        BY <1>2, <2>1, <2>2
<1> QED
    BY <1>4, <1>5, <1>6

\* A step of len sectors within the file, and where it leads.
LEMMA StepPlaces ==
    ASSUME TypeOK, PosIsAt, at < vol.size, NEW len \in Nat,
           pos.in_cluster_ptr + len <= ClusterSize,
           StepSectors(len), at' = at + len, vol' = vol
    PROVE  Placed'
<1> DEFINE ptr == pos.in_cluster_ptr + len
<1>1. (pos.in_cluster_ptr + len) % PtrWrap = ptr /\ ptr \in Nat /\ ClusterSize \in Nat
    <2>1. (pos.in_cluster_ptr + len) % PtrWrap = ptr
        BY PassFacts
    <2>2. ptr \in Nat /\ ClusterSize \in Nat
        BY FileAssumption DEF TypeOK
    <2> QED
        BY <2>1, <2>2
<1>2. CASE ptr = ClusterSize
    <2>1. pc' = "next" /\ pos'.cluster = pos.cluster
        BY <1>1, <1>2 DEF StepSectors, ClusterDone, TypeOK
    <2>2. /\ (at + len) % ClusterSize = 0 /\ at + len >= ClusterSize
          /\ vol.chain[(at + len) \div ClusterSize] = pos.cluster
        BY <1>2, PassFacts
    <2> QED
        BY <2>1, <2>2 DEF Placed
<1>3. CASE ptr < ClusterSize
    <2>1. /\ pc' = "read" /\ pos'.cluster = pos.cluster
          /\ pos'.sector = pos.sector + len /\ pos'.in_cluster_ptr = ptr
        <3> DEFINE wrapped == (pos.in_cluster_ptr + len) % PtrWrap
        <3>1. wrapped = ptr /\ wrapped # ClusterSize
            BY <1>1, <1>3
        <3>2. /\ pc' = "read"
              /\ pos' = [pos EXCEPT !.in_cluster_ptr = wrapped, !.sector = @ + len]
            BY <3>1 DEF StepSectors, ClusterDone
        <3> QED
            BY <3>1, <3>2 DEF TypeOK
    <2>2. /\ FileSector(at + len) = pos.sector + len
          /\ (at + len) % ClusterSize = ptr
          /\ vol.chain[((at + len) \div ClusterSize) + 1] = pos.cluster
        BY <1>3, PassFacts
    <2> QED
        BY <2>1, <2>2 DEF Placed, PosIsAt, FileSector
<1> QED
    BY <1>1, <1>2, <1>3

Trusted == InFile /\ Placed /\ CacheInv

LEMMA PlaceStep == Inv /\ ~broken /\ ~broken' /\ [Next]_vars => Trusted'
<1> SUFFICES ASSUME Inv, ~broken, ~broken', [Next]_vars PROVE Trusted'
    OBVIOUS
<1>t. TypeOK /\ CallInv /\ InFile /\ Placed /\ CacheInv /\ TypeOK'
    BY TypeStep DEF Inv
<1>n. /\ at \in Nat /\ left \in Nat /\ sec_available \in Nat /\ vol \in Volumes
      /\ vol.size \in Nat /\ ClusterSize \in Nat \ {0}
    <2>1. vol \in Volumes
        BY <1>t, Zenon DEF TypeOK
    <2>2. vol.size \in Nat /\ ClusterSize \in Nat \ {0}
        BY <2>1, VolumeFacts
    <2>3. at \in Nat /\ left \in 0 .. MaxCount /\ sec_available \in 0 .. vol.size
        BY <1>t, Zenon DEF TypeOK
    <2>4. MaxCount \in Nat
        BY FileAssumption
    <2> QED
        BY <2>1, <2>2, <2>3, <2>4
<1> USE DEF Trusted, cache, progress, history, Return, Abort
<1>1. ASSUME NEW c \in {"rom", "ram"}, NEW n \in 0 .. MaxCount, CallRead(c, n)
      PROVE  Trusted'
    BY <1>1, <1>n, <1>t DEF CallRead, Enter, InFile, Rest, Placed, PosIsAt, FileSector, CacheInv
<1>2. ASSUME NEW n \in 0 .. MaxCount, CallSkip(n) PROVE Trusted'
    BY <1>2, <1>n, <1>t DEF CallSkip, Enter, InFile, Rest, Placed, PosIsAt, FileSector, CacheInv
<1>3. CASE TableLoad
    BY <1>3, <1>t DEF TableLoad, InFile, Rest, Placed, PosIsAt, FileSector, CacheInv
<1>4. CASE TableLoadFail \/ ChainEnd \/ ReadFail
    BY <1>4 DEF TableLoadFail, ChainEnd, ReadFail
<1>5. CASE Finish
    BY <1>5, <1>n, <1>t DEF Finish, InFile, Rest, Placed, PosIsAt, FileSector, CacheInv
<1>6. CASE NextCluster
    <2>1. /\ pc = "next" /\ pc' \in {"read", "skip"} /\ table = TableSector
          /\ UNCHANGED <<vol, at, left, sec_available, table_sec_idx, table>>
        BY <1>6, <1>t DEF NextCluster, CacheInv
    <2>2. InFile' /\ CacheInv'
        BY <1>t, <2>1 DEF InFile, Rest, CacheInv
    <2>3. SUFFICES ASSUME at < vol.size PROVE PosIsAt'
        BY <2>1, <2>2 DEF Placed
    <2> DEFINE i == at \div ClusterSize
    <2>4. /\ at % ClusterSize = 0 /\ at >= ClusterSize /\ pos.cluster = vol.chain[i]
        BY <1>t, <2>1 DEF Placed
    <2>5. i + 1 \in 1 .. Len(vol.chain) /\ i \in Nat
        BY <1>n, <2>3, IndexFacts, DivMod
    <2>6. i # 0
        BY <1>n, <2>4, DivMod
    <2>7. CachedEntries = {Entry(pos.cluster)}
        <3>1. pos.cluster \in Nat /\ EntriesPerSec \in Nat \ {0}
            BY <1>t, FileAssumption DEF TypeOK
        <3>2. table = pos.cluster \div EntriesPerSec /\ table \in Nat
            BY <2>1, <3>1, DivMod DEF TableSector
        <3>3. table * EntriesPerSec + (pos.cluster % EntriesPerSec) = pos.cluster
            <4>1. pos.cluster = EntriesPerSec * table + (pos.cluster % EntriesPerSec)
                BY <3>1, <3>2, DivMod
            <4>2. EntriesPerSec * table = table * EntriesPerSec
                BY <3>1, <3>2
            <4> QED
                BY <4>1, <4>2
        <3> QED
            BY <3>2, <3>3 DEF CachedEntries, Nowhere
    <2>8. Entry(pos.cluster) = vol.chain[i + 1]
        <3>1. i \in 1 .. Len(vol.chain) /\ i < Len(vol.chain)
            BY <1>n, <2>5, <2>6, VolumeFacts
        <3> QED
            BY <1>n, <2>4, <3>1, EntryFacts
    <2>9. pos' = SetCluster(vol.chain[i + 1])
        BY <1>6, <2>7, <2>8 DEF NextCluster
    <2>10. fatClusterToSector(vol.chain[i + 1]) \in Nat
        BY <1>n, <2>3, IndexFacts, ClusterFacts
    <2> QED
        BY <2>1, <2>4, <2>9, <2>10 DEF PosIsAt, FileSector, SetCluster
<1>7. CASE ReadChunk
    <2> DEFINE len == FatGetRWLen
    <2>1. /\ pc = "read" /\ left > 0 /\ left' = left - len /\ at' = at + len
          /\ UNCHANGED <<vol, sec_available, table_sec_idx, table>>
          /\ \/ left' = 0 /\ sec_available = 0 /\ UNCHANGED <<pos, pc>>
             \/ StepSectors(len)
        BY <1>7 DEF ReadChunk
    <2>2. at < vol.size /\ PosIsAt
        BY <1>t, <1>n, <2>1 DEF InFile, Rest, Placed
    <2>3. pos.in_cluster_ptr < ClusterSize
        BY <1>n, <2>2, DivMod DEF PosIsAt
    <2>4. len \in 1 .. left /\ pos.in_cluster_ptr + len <= ClusterSize
        BY <1>t, <2>1, <2>3, ChunkFacts
    <2> HIDE DEF len
    <2>5. pc' # "idle" /\ InFile' /\ CacheInv'
        BY <1>t, <1>n, <2>1, <2>4 DEF InFile, Rest, CacheInv, StepSectors
    <2>6. CASE left' = 0 /\ sec_available = 0 /\ UNCHANGED <<pos, pc>>
        BY <1>t, <1>n, <2>1, <2>4, <2>5, <2>6 DEF InFile, Rest, Placed
    <2>7. CASE StepSectors(len)
        BY <1>t, <1>n, <2>2, <2>4, <2>5, <2>7, <2>1, StepPlaces
    <2> QED
        BY <2>1, <2>6, <2>7
<1>8. CASE SkipCluster
    <2>1. /\ pc = "skip" /\ left >= ClusterSize /\ pos.in_cluster_ptr = 0
          /\ left' = left - ClusterSize /\ at' = at + ClusterSize /\ pc' = "next"
          /\ UNCHANGED <<vol, pos, sec_available, table_sec_idx, table>>
        BY <1>8 DEF SkipCluster
    <2>2. at < vol.size
        BY <1>t, <1>n, <2>1 DEF InFile, Rest
    <2>3. PosIsAt
        BY <1>t, <2>1, <2>2 DEF Placed
    <2>4. pos.in_cluster_ptr + ClusterSize = ClusterSize /\ pos.in_cluster_ptr + ClusterSize <= ClusterSize
        BY <1>n, <2>1
    <2>5. /\ (at + ClusterSize) % ClusterSize = 0 /\ at + ClusterSize >= ClusterSize
          /\ vol.chain[(at + ClusterSize) \div ClusterSize] = pos.cluster
        BY <1>t, <1>n, <2>2, <2>3, <2>4, PassFacts
    <2> QED
        BY <1>t, <1>n, <2>1, <2>5 DEF InFile, Rest, Placed, CacheInv
<1>9. CASE SkipSector
    <2>1. /\ pc = "skip" /\ left > 0 /\ left' = left - 1 /\ at' = at + 1
          /\ pos' = [pos EXCEPT !.in_cluster_ptr = (@ + 1) % PtrWrap, !.sector = @ + 1]
          /\ pc' = AfterSkip((pos.in_cluster_ptr + 1) % PtrWrap)
          /\ UNCHANGED <<vol, sec_available, table_sec_idx, table>>
        BY <1>9 DEF SkipSector
    <2>2. at < vol.size /\ PosIsAt
        BY <1>t, <1>n, <2>1 DEF InFile, Rest, Placed
    <2>3. InFile' /\ CacheInv'
        BY <1>t, <1>n, <2>1 DEF InFile, Rest, CacheInv, AfterSkip
    <2>4. pos.in_cluster_ptr \in Nat /\ pos.in_cluster_ptr + 1 <= ClusterSize
        BY <1>n, <2>2, DivMod DEF PosIsAt
    <2>5. (pos.in_cluster_ptr + 1) % PtrWrap = pos.in_cluster_ptr + 1
        BY <1>t, <1>n, <2>2, <2>4, PassFacts
    <2>6. /\ pos'.in_cluster_ptr = pos.in_cluster_ptr + 1 /\ pos'.sector = pos.sector + 1
          /\ pos'.cluster = pos.cluster
        BY <1>t, <2>1, <2>5 DEF TypeOK
    <2>7. CASE pos.in_cluster_ptr + 1 = ClusterSize
        <3>1. pc' = "next"
            BY <2>1, <2>5, <2>7 DEF AfterSkip
        <3>2. /\ (at + 1) % ClusterSize = 0 /\ at + 1 >= ClusterSize
              /\ vol.chain[(at + 1) \div ClusterSize] = pos.cluster
            BY <1>t, <2>2, <2>4, <2>7, PassFacts
        <3> QED
            BY <2>1, <2>3, <2>6, <3>1, <3>2 DEF Placed
    <2>8. CASE pos.in_cluster_ptr + 1 < ClusterSize
        <3>1. /\ FileSector(at + 1) = pos.sector + 1
              /\ (at + 1) % ClusterSize = pos.in_cluster_ptr + 1
              /\ vol.chain[((at + 1) \div ClusterSize) + 1] = pos.cluster
            BY <1>t, <2>2, <2>4, <2>8, PassFacts
        <3>2. pc' = "skip"
            BY <1>n, <2>1, <2>4, <2>5, <2>8 DEF AfterSkip
        <3>3. PosIsAt'
            BY <2>1, <2>6, <3>1 DEF PosIsAt, FileSector
        <3> QED
            BY <2>1, <2>3, <3>2, <3>3 DEF Placed
    <2> QED
        BY <1>n, <2>4, <2>7, <2>8
<1>10. CASE UNCHANGED vars
    BY <1>10, <1>t DEF vars, InFile, Rest, Placed, PosIsAt, FileSector, CacheInv
<1> QED
    BY <1>1, <1>2, <1>3, <1>4, <1>5, <1>6, <1>7, <1>8, <1>9, <1>10 DEF Next, Work, Fail

LEMMA InvHolds == Spec => []Inv
<1>1. Inv /\ [Next]_vars => Inv'
    <2>1. broken /\ [Next]_vars => broken'
        BY DEF Next, Work, Fail, CallRead, CallSkip, Enter, TableLoad, TableLoadFail, NextCluster,
               ChainEnd, ReadFail, Finish, ReadChunk, SkipCluster, SkipSector, Abort, history, vars
    <2> QED
        BY <2>1, TypeStep, PlaceStep DEF Inv, Trusted
<1> QED
    BY <1>1, InvInit, PTL DEF Spec

-----------------------------------------------------------------------------

\* Between calls a file no call has failed on is where its sectors passed say
\* (FatRWStepSectors, FatGetNextSector, fatGetNextCluster).
THEOREM PositionRight == Spec => []InPlace
<1>1. Inv => InPlace
    BY DEF Inv, InPlace, InFile, Rest, Placed, PosIsAt, TypeOK
<1> QED
    BY <1>1, InvHolds, PTL

-----------------------------------------------------------------------------
(* FatFile implements FileReader.  A call that has not failed fills its     *)
(* buffer from the beginning, without a gap.                                *)

File == [i \in 1 .. vol.size |-> FileSector(i - 1)]

\* The file is a sequence as long as its size says.
LEMMA FileFacts ==
    ASSUME vol \in Volumes
    PROVE  Len(File) = vol.size
<1>1. vol.size \in Nat
    BY VolumeFacts
<1>2. \A i \in 1 .. vol.size : FileSector(i - 1) \in Nat
    BY <1>1, SectorFacts
<1>3. File \in [1 .. vol.size -> Nat]
    BY <1>2 DEF File
<1>4. File \in Seq(Nat)
    BY <1>1, <1>3
<1> QED
    BY <1>1, <1>3, <1>4

\* What a chunk of a read is: sectors of one cluster, put behind those that
\* have come before.
LEMMA ChunkRead ==
    ASSUME NarrowClusters, Inv, ~broken, ReadChunk
    PROVE  \E len \in 0 .. MaxCount :
            /\ len <= left /\ left' = left - len /\ at' = at + len /\ dst' = dst + len
            /\ at + len <= vol.size
            /\ memory' = [d \in 0 .. MaxCount - 1 |->
                            IF d \in dst .. dst + len - 1
                            THEN FileSector(at + (d - dst))
                            ELSE memory[d]]
<1> DEFINE len == FatGetRWLen
<1>t. TypeOK /\ InFile /\ Placed /\ CallInv
    BY DEF Inv
<1>n. /\ at \in Nat /\ left \in Nat /\ sec_available \in Nat /\ vol \in Volumes
      /\ vol.size \in Nat /\ ClusterSize \in Nat \ {0} /\ dst \in Nat
    BY <1>t, FileAssumption, VolumeFacts DEF TypeOK
<1>1. /\ pc = "read" /\ left > 0 /\ left' = left - len /\ at' = at + len
      /\ dst' = dst + DstStep(len)
      /\ memory' = [d \in 0 .. MaxCount - 1 |->
                      IF d \in dst .. dst + len - 1 THEN pos.sector + d - dst ELSE memory[d]]
    BY DEF ReadChunk
<1>2. at < vol.size /\ PosIsAt
    BY <1>t, <1>n, <1>1 DEF InFile, Rest, Placed
<1>3. pos.in_cluster_ptr \in Nat /\ pos.in_cluster_ptr < ClusterSize
    BY <1>n, <1>2, DivMod DEF PosIsAt
<1>4. len \in 1 .. left /\ pos.in_cluster_ptr + len <= ClusterSize
    BY <1>t, <1>1, <1>3, ChunkFacts
<1> HIDE DEF len
<1>5. DstStep(len) = len
    <2>1. CASE call.fn = "ram"
        <3>1. RamWrap \in Nat \ {0} /\ len \in Nat /\ len < RamWrap
            BY <1>t, <1>n, <1>1, <1>3, <1>4, <2>1, FileAssumption DEF CallInv, NarrowClusters
        <3>2. \A a, b \in Nat : a < b => a % b = a
            BY SMT
        <3> QED
            BY <2>1, <3>1, <3>2 DEF DstStep
    <2>2. CASE call.fn # "ram"
        BY <2>2 DEF DstStep
    <2> QED
        BY <2>1, <2>2
<1>6. ASSUME NEW d \in dst .. dst + len - 1
      PROVE  pos.sector + d - dst = FileSector(at + (d - dst))
    <2>1. d - dst \in Nat /\ (at % ClusterSize) + (d - dst) < ClusterSize
        BY <1>n, <1>2, <1>3, <1>4 DEF PosIsAt
    <2>2. FileSector(at) \in Nat /\ FileSector(at + (d - dst)) = FileSector(at) + (d - dst)
        BY <1>n, <1>2, <2>1, SectorFacts
    <2> QED
        BY <1>n, <1>2, <2>2 DEF PosIsAt
<1>7. at + len <= vol.size /\ len \in 0 .. MaxCount
    <2>1. at + left + sec_available = vol.size
        BY <1>t, <1>1 DEF InFile, Rest
    <2>2. left \in 0 .. MaxCount
        BY <1>t DEF TypeOK
    <2> QED
        BY <1>n, <1>4, <2>1, <2>2, FileAssumption
<1>8. memory' = [d \in 0 .. MaxCount - 1 |->
                    IF d \in dst .. dst + len - 1 THEN FileSector(at + (d - dst)) ELSE memory[d]]
    BY <1>1, <1>6, Zenon
<1> QED
    BY <1>n, <1>1, <1>4, <1>5, <1>7, <1>8

\* The buffer is filled from its beginning.
LEMMA FilledStep == NarrowClusters /\ Inv /\ Filled /\ [Next]_vars => Filled'
<1> SUFFICES ASSUME NarrowClusters, Inv, Filled, [Next]_vars, ~broken', pc' # "idle",
                    call'.fn # "skip"
             PROVE  /\ \A d \in 0 .. dst' - 1 : memory'[d] # Nowhere
                    /\ \A d \in dst' .. MaxCount - 1 : memory'[d] = Nowhere
    BY DEF Filled
<1>t. TypeOK /\ CallInv /\ (~broken => InFile)
    BY DEF Inv
<1>1. ASSUME NEW c \in {"rom", "ram"}, NEW n \in 0 .. MaxCount, CallRead(c, n)
      PROVE  dst' = 0 /\ memory' = Empty
    BY <1>1 DEF CallRead, Enter
<1>2. ASSUME NEW n \in 0 .. MaxCount, CallSkip(n) PROVE FALSE
    BY <1>2 DEF CallSkip, Enter
<1>3. CASE ReadChunk
    <2>1. ~broken /\ pc = "read" /\ call' = call
        BY <1>3 DEF ReadChunk
    <2>2. PICK len \in 0 .. MaxCount :
            /\ len <= left /\ at + len <= vol.size /\ dst' = dst + len
            /\ memory' = [d \in 0 .. MaxCount - 1 |->
                            IF d \in dst .. dst + len - 1
                            THEN FileSector(at + (d - dst))
                            ELSE memory[d]]
        BY <1>3, <2>1, ChunkRead
    <2>3. /\ at \in Nat /\ dst \in Nat /\ left \in Nat /\ MaxCount \in Nat /\ vol.size \in Nat
          /\ vol \in Volumes /\ dst + left <= MaxCount
        BY <1>t, FileAssumption, VolumeFacts DEF TypeOK, CallInv
    <2>4. \A d \in dst .. dst + len - 1 : FileSector(at + (d - dst)) \in Nat
        <3>1. SUFFICES ASSUME NEW d \in dst .. dst + len - 1
                       PROVE  FileSector(at + (d - dst)) \in Nat
            OBVIOUS
        <3>2. at + (d - dst) \in Nat /\ at + (d - dst) < vol.size
            BY <2>2, <2>3
        <3> QED
            BY <2>3, <3>2, SectorFacts
    <2>5. /\ \A d \in 0 .. dst - 1 : memory[d] # Nowhere
          /\ \A d \in dst .. MaxCount - 1 : memory[d] = Nowhere
        BY <2>1 DEF Filled
    <2>6. ASSUME NEW d \in 0 .. dst + len - 1 PROVE memory'[d] # Nowhere
        <3>1. d \in 0 .. MaxCount - 1 /\ (d \in 0 .. dst - 1 \/ d \in dst .. dst + len - 1)
            BY <2>2, <2>3
        <3>2. d \in dst .. dst + len - 1 => memory'[d] \in Nat
            BY <2>2, <2>4, <3>1
        <3>3. d \notin dst .. dst + len - 1 => memory'[d] = memory[d]
            BY <2>2, <3>1
        <3> QED
            BY <2>5, <3>1, <3>2, <3>3 DEF Nowhere
    <2>7. ASSUME NEW d \in dst + len .. MaxCount - 1 PROVE memory'[d] = Nowhere
        <3>1. d \in 0 .. MaxCount - 1 /\ d \in dst .. MaxCount - 1 /\ d \notin dst .. dst + len - 1
            BY <2>2, <2>3
        <3> QED
            BY <2>2, <2>5, <3>1
    <2>8. dst' = dst + len
        BY <2>2
    <2>9. \A d \in 0 .. dst' - 1 : memory'[d] # Nowhere
        <3>1. dst' - 1 = dst + len - 1
            BY <2>2, <2>3
        <3> QED
            BY <2>6, <3>1
    <2>10. \A d \in dst' .. MaxCount - 1 : memory'[d] = Nowhere
        BY <2>7, <2>8
    <2> QED
        BY <2>9, <2>10, Zenon
<1>4. CASE TableLoad \/ NextCluster \/ SkipCluster \/ SkipSector \/ UNCHANGED vars
    <2>1. ~broken /\ pc # "idle" /\ UNCHANGED <<call, dst, memory>>
        BY <1>4 DEF TableLoad, NextCluster, SkipCluster, SkipSector, vars, progress, history
    <2> QED
        BY <2>1 DEF Filled
<1>5. CASE TableLoadFail \/ ChainEnd \/ ReadFail \/ Finish
    BY <1>5 DEF TableLoadFail, ChainEnd, ReadFail, Finish, Abort, Return
<1>6. dst' = 0 /\ memory' = Empty => \A d \in dst' .. MaxCount - 1 : memory'[d] = Nowhere
    BY DEF Empty
<1> QED
    BY <1>1, <1>2, <1>3, <1>4, <1>5, <1>6 DEF Next, Work, Fail

-----------------------------------------------------------------------------

\* An opened file is an unread one.
LEMMA ReaderInit == Init => Reader!Init
<1> SUFFICES ASSUME Init PROVE Reader!Init
    OBVIOUS
<1> QED
    BY DEF Init, Reader!Init, Empty, Reader!Empty

\* Each step reads, skips, begins or ends a call as the reader does, breaks
\* the file, or moves no sector.
LEMMA ReaderStep ==
    NarrowClusters /\ Inv /\ Filled /\ [Next]_vars => [Reader!Next]_Reader!vars
<1> SUFFICES ASSUME NarrowClusters, Inv, Filled, [Next]_vars
             PROVE  Reader!Next \/ UNCHANGED Reader!vars
    OBVIOUS
<1>t. TypeOK /\ CallInv /\ (~broken => InFile)
    BY DEF Inv
<1>n. /\ at \in Nat /\ left \in Nat /\ sec_available \in Nat /\ vol \in Volumes
      /\ vol.size \in Nat /\ ClusterSize \in Nat \ {0} /\ dst \in Nat /\ MaxCount \in Nat
      /\ left <= MaxCount /\ dst <= MaxCount /\ broken \in BOOLEAN
    BY <1>t, FileAssumption, VolumeFacts DEF TypeOK
<1>f. vol' = vol /\ Len(File) = vol.size
    <2>1. vol' = vol
        BY DEF Next, Work, Fail, CallRead, CallSkip, Enter, TableLoad, TableLoadFail, NextCluster,
               ChainEnd, ReadFail, Finish, ReadChunk, SkipCluster, SkipSector, vars
    <2> QED
        BY <1>n, <2>1, FileFacts
<1>g. File' = File
    BY <1>f DEF File, FileSector
<1> USE DEF progress, history, cache, Return, Abort
<1>1. CASE broken
    <2>1. broken'
        BY <1>1 DEF Next, Work, Fail, CallRead, CallSkip, Enter, TableLoad, TableLoadFail, NextCluster,
               ChainEnd, ReadFail, Finish, ReadChunk, SkipCluster, SkipSector, vars
    <2> QED
        BY <1>1, <2>1 DEF Reader!Next, Reader!Break
<1>2. CASE ~broken
    <2>1. ASSUME NEW c \in {"rom", "ram"}, NEW n \in 0 .. MaxCount, CallRead(c, n)
          PROVE  Reader!Next
        <3>1. /\ pc = "idle" /\ memory' = Empty /\ UNCHANGED <<at, broken>>
              /\ \/ pc' = "idle"
                 \/ pc' = "read" /\ n <= sec_available /\ left' = n
            <4>1. pc = "idle" /\ memory' = Empty /\ left' = n /\ UNCHANGED <<at, broken>>
                BY <2>1 DEF CallRead, Enter
            <4>2. CASE n > sec_available
                <5>1. pc' = "idle"
                    BY <2>1, <4>2 DEF CallRead
                <5> QED
                    BY <4>1, <5>1
            <4>3. CASE ~(n > sec_available)
                <5>1. pc' = "read" /\ n <= sec_available
                    BY <2>1, <1>n, <4>3 DEF CallRead
                <5> QED
                    BY <4>1, <5>1
            <4> QED
                BY <4>2, <4>3
        <3>e. Empty = Reader!Empty
            BY DEF Empty, Reader!Empty
        <3>2. CASE pc' = "idle"
            <4>1. Reader!Refuse
                BY <3>1, <3>e, <3>2, <1>g, <1>2 DEF Reader!Refuse, File
            <4> QED
                BY <4>1 DEF Reader!Next
        <3>3. CASE pc' = "read" /\ n <= sec_available /\ left' = n
            <4>1. n <= Len(File) - at
                BY <1>t, <1>n, <1>f, <1>2, <3>1, <3>3 DEF InFile, Rest
            <4>2. Reader!Begin(n)
                BY <3>1, <3>e, <3>3, <4>1, <1>g DEF Reader!Begin, Reader!Left, File
            <4> QED
                BY <4>2 DEF Reader!Next
        <3> QED
            BY <3>1, <3>2, <3>3
    <2>2. ASSUME NEW n \in 0 .. MaxCount, CallSkip(n) PROVE Reader!Next
        <3>1. /\ pc = "idle" /\ memory' = Empty /\ UNCHANGED <<at, broken>>
              /\ pc' = "skip" /\ n <= sec_available /\ left' = n
            BY <2>2 DEF CallSkip, Enter
        <3>2. n <= Len(File) - at
            BY <1>t, <1>n, <1>f, <1>2, <3>1 DEF InFile, Rest
        <3>3. Empty = Reader!Empty
            BY DEF Empty, Reader!Empty
        <3>4. Reader!Begin(n)
            BY <3>1, <3>2, <3>3, <1>g DEF Reader!Begin, Reader!Left, File
        <3> QED
            BY <3>4 DEF Reader!Next
    <2>3. CASE TableLoad \/ NextCluster \/ UNCHANGED vars
        <3>1. /\ UNCHANGED <<at, left, memory, broken>> /\ (pc' = "idle" <=> pc = "idle")
            BY <2>3 DEF TableLoad, NextCluster, vars
        <3> QED
            BY <3>1, <1>g DEF Reader!vars, File
    <2>4. CASE TableLoadFail \/ ChainEnd \/ ReadFail
        <3>1. pc # "idle" /\ broken' = TRUE
            BY <2>4 DEF TableLoadFail, ChainEnd, ReadFail
        <3> QED
            BY <3>1 DEF Reader!Next, Reader!Break
    <2>5. CASE Finish
        <3>1. pc # "idle" /\ pc' = "idle" /\ left = 0 /\ UNCHANGED <<at, memory, broken>>
            BY <2>5 DEF Finish
        <3>2. Reader!End
            BY <3>1, <1>g DEF Reader!End, File
        <3> QED
            BY <3>2 DEF Reader!Next
    <2>6. CASE ReadChunk
        <3>1. pc = "read" /\ pc' \in {"read", "next"} /\ UNCHANGED broken
            BY <2>6 DEF ReadChunk, StepSectors
        <3>2. PICK len \in 0 .. MaxCount :
                /\ len <= left /\ left' = left - len /\ at' = at + len
                /\ at + len <= vol.size
                /\ memory' = [d \in 0 .. MaxCount - 1 |->
                                IF d \in dst .. dst + len - 1
                                THEN FileSector(at + (d - dst))
                                ELSE memory[d]]
            BY <1>2, <2>6, ChunkRead
        <3>3. ASSUME NEW d \in dst .. dst + len - 1
              PROVE  FileSector(at + (d - dst)) = File[at + 1 + d - dst]
            <4>1. /\ at + 1 + d - dst \in 1 .. vol.size
                  /\ (at + 1 + d - dst) - 1 = at + (d - dst)
                BY <1>n, <3>2
            <4> QED
                BY <4>1 DEF File
        <3>4. memory' = [d \in 0 .. MaxCount - 1 |->
                            IF d \in dst .. dst + len - 1
                            THEN File[at + 1 + d - dst]
                            ELSE memory[d]]
            BY <3>2, <3>3, Zenon
        <3>5. /\ \A d \in 0 .. dst - 1 : memory[d] # Nowhere
              /\ \A d \in dst .. MaxCount - 1 : memory[d] = Nowhere
            BY <1>2, <1>t, <3>1 DEF Filled, CallInv
        <3>6. Reader!Pass(len)
            BY <3>1, <3>2 DEF Reader!Pass
        <3>7. Reader!Deliver(len, dst)
            BY <3>1, <3>4, <3>5, <3>6, <1>g DEF Reader!Deliver, File
        <3>8. dst \in 0 .. MaxCount
            BY <1>n
        <3> QED
            BY <3>2, <3>7, <3>8 DEF Reader!Next
    <2>7. CASE SkipCluster \/ SkipSector
        <3>1. /\ pc = "skip" /\ pc' \in {"skip", "next"} /\ UNCHANGED <<memory, broken>>
              /\ \E n \in {1, ClusterSize} : n <= left /\ left' = left - n /\ at' = at + n
            BY <1>n, <2>7 DEF SkipCluster, SkipSector, AfterSkip
        <3>2. PICK n \in {1, ClusterSize} : n <= left /\ left' = left - n /\ at' = at + n
            BY <3>1
        <3>3. n \in 0 .. MaxCount
            BY <1>n, <3>2
        <3>4. Reader!Skip(n)
            BY <3>1, <3>2, <1>g DEF Reader!Skip, Reader!Pass, File
        <3> QED
            BY <3>3, <3>4 DEF Reader!Next
    <2> QED
        BY <2>1, <2>2, <2>3, <2>4, <2>5, <2>6, <2>7 DEF Next, Work, Fail
<1> QED
    BY <1>1, <1>2, <1>n

\* The file half of fat.c is a file reader, with clusters of less than 64 KB
\* or no reads into RAM: a call passes the next sectors of the file, in order
\* and all of them, or breaks the file.
THEOREM ImplementsReader == NarrowClusters => (Spec => ReaderSpec)
<1> SUFFICES ASSUME NarrowClusters PROVE Spec => ReaderSpec
    OBVIOUS
<1>1. Init => Filled
    BY DEF Init, Filled
<1>2. Inv /\ Filled /\ [Next]_vars => Filled'
    BY FilledStep
<1>3. Inv /\ Filled /\ [Next]_vars => [Reader!Next]_Reader!vars
    BY ReaderStep
<1> QED
    BY <1>1, <1>2, <1>3, InvHolds, ReaderInit, PTL DEF Spec, ReaderSpec, Reader!Spec
=============================================================================
