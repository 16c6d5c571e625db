---------------------------- MODULE FatDirProofs ----------------------------
(***************************************************************************)
(* Proofs about FatDir, for every size of sector, cluster and table, all   *)
(* volumes and paths: though one buffer serves the boot sector, the        *)
(* directory and the records, a record is decoded in the sector it is in;  *)
(* and the file a path names is the one that is opened.                    *)
(***************************************************************************)
EXTENDS FatDir, TLAPS, FiniteSetTheorems, WellFoundedInduction

-----------------------------------------------------------------------------
(* The inductive invariant. *)

\* The sectors of the directories and their records.
DirSector(v, sector) ==
    /\ sector \in Nat /\ sector >= DataEntry
    /\ InDirs(v, ((sector - DataEntry) \div ClusterSize) + 2)
DirRecord(v, idx) == idx \in Nat /\ DirSector(v, idx \div RecsPerSec)

\* The place of a sector, once the volume is mounted.
PlaceIn(sector) ==
    LET c == ((sector - DataEntry) \div ClusterSize) + 2
    IN  [cluster |-> c, sector |-> sector,
         in_cluster_ptr |-> sector - ((c - 2) * ClusterSize + DataEntry)]

Mounting == pc \in {"mount", "mbr", "pbr"}
Scanning == pc \in {"load", "scan"}
Reading == pc \in {"openrec", "decode", "nextrec"}

\* The data of a volume begin where they do, and as long as it is not mounted
\* only the sectors in front of them have been read.
MountInv ==
    /\ vol \in Volumes
    /\ data_entry \in {0, DataEntry}
    /\ data_entry = 0 => Mounting \/ pc = "idle"
    /\ data_entry = 0 => data \in {NoSector, 0, pbr_entry}
    /\ data_entry # 0 => ~Mounting
    /\ pc = "pbr" => vol.disk.signed /\ (vol.disk.boot \/ HasPartition)

\* The caches are another sector than their index says only after a failed read.
CacheInv ==
    /\ data_entry # 0 => data \in Int
    /\ ~broken => data = data_sec_idx /\ table_data = table_sec_idx
    /\ ~broken /\ data_entry # 0 => data < DataEntry \/ DirSector(vol, data)

\* What is in the table are locations of records; there is room for one more
\* while the directory is being read.
TableInv ==
    /\ ~broken => \A n \in 0 .. MaxRecords - 1 :
        n < dir.size \/ (n = dir.size /\ skip) => DirRecord(vol, recordTable[n])
    /\ Scanning => dir.size < MaxRecords /\ dir.pos.in_cluster_ptr < ClusterSize
    /\ ~broken /\ Scanning =>
        DirSector(vol, dir.pos.sector) /\ dir.pos = PlaceIn(dir.pos.sector)
    /\ pc = "scan" => i <= RecsPerSec
    /\ pc = "try" => i <= dir.size

\* A record is read at a location from the table, and its own is that of a
\* record; pos is the place of its sector.
RecordInv ==
    /\ hdr_idx \in Nat
    /\ Reading /\ why = "dir" => dir.size = 0
    /\ Reading /\ why = "match" => i < dir.size
    /\ ~broken /\ Reading /\ why # "match" => DirRecord(vol, hdr_idx)
    /\ pc \in {"decode", "nextrec"} => rec.pos.in_cluster_ptr < ClusterSize
    /\ ~broken /\ pc \in {"decode", "nextrec"} =>
        /\ DirRecord(vol, rec.hdr_idx)
        /\ rec.pos = PlaceIn(rec.hdr_idx \div RecsPerSec)
        /\ data = rec.hdr_idx \div RecsPerSec

IInv == TypeOK /\ path \in Paths /\ MountInv /\ CacheInv /\ TableInv /\ RecordInv
-----------------------------------------------------------------------------
(* Arithmetic. *)

LEMMA DivMod ==
    ASSUME NEW a \in Nat, NEW c \in Nat \ {0}
    PROVE  /\ a \div c \in Nat /\ a % c \in 0 .. c - 1
           /\ a = c * (a \div c) + (a % c)
OBVIOUS

LEMMA DivModUnique ==
    ASSUME NEW c \in Nat \ {0}, NEW q \in Nat, NEW r \in 0 .. c - 1
    PROVE  (c * q + r) \div c = q /\ (c * q + r) % c = r
OBVIOUS

\* A number and the next one are in the same part of c, unless the next one is
\* a multiple of c.
LEMMA NextInPart ==
    ASSUME NEW a \in Nat, NEW c \in Nat \ {0}
    PROVE  /\ (a % c) + 1 # c => (a + 1) \div c = a \div c /\ (a + 1) % c = (a % c) + 1
           /\ (a + 1) % c # 0 => (a + 1) \div c = a \div c
<1> DEFINE q == a \div c  r == a % c
<1>1. q \in Nat /\ r \in 0 .. c - 1 /\ a = c * q + r
    BY DivMod
<1> HIDE DEF q, r
<1>2. CASE r + 1 # c
    <2>1. r + 1 \in 0 .. c - 1
        BY <1>1, <1>2
    <2>2. (c * q + (r + 1)) \div c = q /\ (c * q + (r + 1)) % c = r + 1
        BY <1>1, <2>1, DivModUnique
    <2>3. c * q \in Nat
        BY <1>1
    <2>4. a + 1 = c * q + (r + 1)
        BY <1>1, <2>3
    <2> QED
        BY <2>2, <2>4 DEF q, r
<1>3. CASE r + 1 = c
    <2>1. (c * (q + 1) + 0) \div c = q + 1 /\ (c * (q + 1) + 0) % c = 0
        BY <1>1, DivModUnique
    <2>2. c * (q + 1) = c * q + c /\ c * q \in Nat
        BY <1>1
    <2>3. a + 1 = c * (q + 1) + 0
        BY <1>1, <1>3, <2>2
    <2> QED
        BY <1>3, <2>1, <2>3 DEF r
<1> QED
    BY <1>2, <1>3

-----------------------------------------------------------------------------
(* Places on the volume. *)

\* A part's place in L groups of C parts of R.
LEMMA Product ==
    ASSUME NEW x \in Nat, NEW y \in Nat, NEW z \in Nat, x <= y
    PROVE  x * z \in Nat /\ y * z \in Nat /\ x * z <= y * z
BY SMT

LEMMA InParts ==
    ASSUME NEW p \in Nat, NEW m \in Nat, NEW c \in Nat, p < m, NEW x \in Nat, x < c
    PROVE  (p * c) + x \in Nat /\ (p * c) + x < m * c
<1>1. p * c \in Nat /\ m * c \in Nat /\ (p + 1) * c <= m * c
    BY Product
<1>2. (p + 1) * c = (p * c) + c
    OBVIOUS
<1> QED
    BY <1>1, <1>2

LEMMA Sizes ==
    /\ ClusterSize \in Nat \ {0} /\ RecsPerSec \in Nat \ {0}
    /\ DataEntry \in Nat /\ DataEntry >= 2 * ClusterSize /\ DataEntry > 0
    /\ MaxRecords \in Nat \ {0} /\ Word \in Nat \ {0} /\ EntriesPerSec \in Nat \ {0}
<1>1. /\ ClusterSize \in Nat \ {0} /\ RecsPerSec \in Nat \ {0}
      /\ DataEntry \in Nat /\ DataEntry >= 2 * ClusterSize
      /\ MaxRecords \in Nat \ {0} /\ Word \in Nat \ {0} /\ EntriesPerSec \in Nat \ {0}
    BY DirAssumption
<1> QED
    BY <1>1

\* What the volumes are assumed to be.
LEMMA DirsFacts ==
    ASSUME vol \in Volumes
    PROVE  /\ Root \in DOMAIN vol.dirs
           /\ \A c \in DOMAIN vol.dirs :
                /\ vol.dirs[c].chain \in Seq(Nat \ {0, 1}) /\ vol.dirs[c].chain # <<>>
                /\ vol.dirs[c].chain[1] = c
                /\ Len(vol.dirs[c].recs) = Len(vol.dirs[c].chain) * RecsPerCluster
                /\ vol.dirs[c].recs \in Seq(Record)
                /\ \A n \in DOMAIN vol.dirs[c].chain :
                    ((vol.dirs[c].chain[n] - 1) * ClusterSize + DataEntry) * RecsPerSec <= Word
                /\ \A n \in DOMAIN vol.dirs[c].recs :
                    vol.dirs[c].recs[n].k = "dir"
                        => vol.dirs[c].recs[n].cluster \in DOMAIN vol.dirs
           /\ vol.other \in Record /\ vol.entry \in Nat \cup {Eoc}
BY VolumeAssumption

LEMMA DiskFacts ==
    ASSUME vol \in Volumes
    PROVE  /\ pbr_entry \in Nat
           /\ vol.disk.fat32 =>
                pbr_entry + vol.disk.reserved + 2 * vol.disk.sectors_per_fat = DataEntry
           /\ vol.disk.fat32 => pbr_entry < DataEntry
<1>1. /\ vol.disk \in [signed : BOOLEAN, boot : BOOLEAN, type : 0 .. 255, at : Nat,
                       fat32 : BOOLEAN, reserved : Nat \ {0}, sectors_per_fat : Nat]
      /\ vol.disk.fat32 =>
            DataEntry = (IF vol.disk.boot THEN 0 ELSE vol.disk.at) + vol.disk.reserved
                        + 2 * vol.disk.sectors_per_fat
    BY VolumeAssumption
<1>2. pbr_entry \in Nat
    BY <1>1 DEF pbr_entry
<1> QED
    BY <1>1, <1>2 DEF pbr_entry

\* A directory begins at its first cluster ...
LEMMA FirstCluster ==
    ASSUME vol \in Volumes, NEW c \in DOMAIN vol.dirs
    PROVE  InDirs(vol, c)
<1>1. 1 \in DOMAIN vol.dirs[c].chain /\ vol.dirs[c].chain[1] = c
    BY DirsFacts
<1> QED
    BY <1>1 DEF InDirs

\* ... and goes on along its chain.
LEMMA ChainFacts ==
    ASSUME vol \in Volumes, NEW cluster, InDirs(vol, cluster)
    PROVE  /\ cluster \in Nat /\ cluster >= 2
           /\ \E c \in DOMAIN vol.dirs : DirOf(cluster) = vol.dirs[c]
           /\ PlaceOf(cluster) \in 1 .. Len(DirOf(cluster).chain)
           /\ ~IsLast(cluster) => InDirs(vol, Following(cluster))
<1> DEFINE c == HomeOf(cluster)
           chain == vol.dirs[c].chain
           p == PlaceOf(cluster)
<1>1. c \in DOMAIN vol.dirs /\ \E n \in DOMAIN chain : chain[n] = cluster
    BY DEF InDirs, HomeOf
<1>2. DirOf(cluster) = vol.dirs[c]
    BY DEF DirOf
<1>3. p \in DOMAIN chain /\ chain[p] = cluster
    BY <1>1, <1>2 DEF PlaceOf
<1> HIDE DEF c, p
<1>4. chain \in Seq(Nat \ {0, 1}) /\ DOMAIN chain = 1 .. Len(chain) /\ Len(chain) \in Nat
    <2>1. chain \in Seq(Nat \ {0, 1})
        BY <1>1, DirsFacts
    <2> QED
        BY <2>1
<1>5. cluster \in Nat /\ cluster >= 2
    BY <1>3, <1>4
<1>6. ASSUME ~IsLast(cluster) PROVE InDirs(vol, Following(cluster))
    <2>1. p # Len(chain)
        BY <1>2, <1>6 DEF IsLast, p
    <2>2. p + 1 \in DOMAIN chain
        BY <1>3, <1>4, <2>1
    <2>3. Following(cluster) = chain[p + 1]
        BY <1>2 DEF Following, p
    <2> QED
        BY <1>1, <2>2, <2>3 DEF InDirs
<1> QED
    BY <1>1, <1>2, <1>3, <1>4, <1>5, <1>6 DEF p

\* What the volume has a location for does not wrap round.
LEMMA Narrow ==
    ASSUME NEW x \in Nat, x < Word
    PROVE  x % Word = x
<1>1. (Word * 0 + x) % Word = x
    BY Sizes, DivModUnique
<1>2. Word * 0 + x = x
    BY Sizes
<1> QED
    BY <1>1, <1>2

LEMMA DirBounds ==
    ASSUME vol \in Volumes, NEW s, DirSector(vol, s)
    PROVE  /\ s \in Nat /\ s * RecsPerSec + RecsPerSec <= Word /\ s < Word
           /\ (s - DataEntry) % Word = s - DataEntry
           /\ s - DataEntry \in Nat /\ s * RecsPerSec \in Nat
<1> DEFINE a == s - DataEntry  q == a \div ClusterSize  top == ((q + 1) * ClusterSize) + DataEntry
<1>1. s \in Nat /\ a \in Nat /\ InDirs(vol, q + 2) /\ s = a + DataEntry
    BY Sizes DEF DirSector
<1>2. q \in Nat /\ a % ClusterSize \in 0 .. ClusterSize - 1 /\ a = ClusterSize * q + (a % ClusterSize)
    BY <1>1, Sizes, DivMod
<1>3. PICK c \in DOMAIN vol.dirs :
            \E n \in DOMAIN vol.dirs[c].chain : vol.dirs[c].chain[n] = q + 2
    BY <1>1 DEF InDirs
<1>4. (((q + 2) - 1) * ClusterSize + DataEntry) * RecsPerSec <= Word
    BY <1>3, DirsFacts
<1> HIDE DEF q
<1>5. (q + 2) - 1 = q + 1
    BY <1>2
<1>6. top * RecsPerSec <= Word
    BY <1>4, <1>5
<1>7. top \in Nat /\ s + 1 \in Nat /\ s + 1 <= top
    <2>1. (q + 1) * ClusterSize = ClusterSize * q + ClusterSize /\ ClusterSize * q \in Nat
        BY <1>2, Sizes
    <2> HIDE DEF a
    <2> QED
        BY <1>1, <1>2, <2>1, Sizes
<1> HIDE DEF top
<1>8. (s + 1) * RecsPerSec <= top * RecsPerSec /\ top * RecsPerSec \in Nat
    BY <1>7, Sizes, Product
<1>9. /\ (s + 1) * RecsPerSec = s * RecsPerSec + RecsPerSec /\ s * RecsPerSec \in Nat
      /\ s * 1 <= s * RecsPerSec
    <2>1. 1 <= RecsPerSec /\ RecsPerSec \in Nat
        BY Sizes
    <2>2. 1 * s \in Nat /\ RecsPerSec * s \in Nat /\ 1 * s <= RecsPerSec * s
        BY <1>1, <2>1, Product
    <2> QED
        BY <1>1, <2>1, <2>2
<1>10. s * RecsPerSec + RecsPerSec <= Word /\ s < Word
    BY <1>1, <1>6, <1>8, <1>9, Sizes
<1>11. a < Word
    BY <1>1, <1>10, Sizes
<1> QED
    BY <1>1, <1>9, <1>10, <1>11, Narrow

LEMMA LocationFits ==
    ASSUME vol \in Volumes, NEW s, DirSector(vol, s), NEW n \in 0 .. RecsPerSec - 1
    PROVE  (s * RecsPerSec + n) % Word = s * RecsPerSec + n
<1>1. s * RecsPerSec + n \in Nat /\ s * RecsPerSec + n < Word
    BY DirBounds, Sizes
<1> QED
    BY <1>1, Narrow

LEMMA PlaceFacts ==
    ASSUME vol \in Volumes, data_entry = DataEntry, NEW s, DirSector(vol, s)
    PROVE  SetSector(s) = PlaceIn(s)
<1> DEFINE a == s - DataEntry  q == a \div ClusterSize  r == a % ClusterSize
<1>1. a \in Nat /\ a % Word = a /\ s = a + DataEntry /\ s \in Nat
    BY DirBounds, Sizes
<1>2. q \in Nat /\ r \in 0 .. ClusterSize - 1 /\ a = ClusterSize * q + r
    BY <1>1, Sizes, DivMod
<1>3. SetSector(s) = [cluster |-> q + 2, sector |-> s, in_cluster_ptr |-> r]
    BY <1>1 DEF SetSector, fatSectorToCluster
<1> HIDE DEF q, r
<1>4. s - (((q + 2) - 2) * ClusterSize + DataEntry) = r
    <2>1. ((q + 2) - 2) * ClusterSize = ClusterSize * q /\ ClusterSize * q \in Nat
        BY <1>2, Sizes
    <2> HIDE DEF a
    <2> QED
        BY <1>1, <1>2, <2>1, Sizes
<1> QED
    BY <1>3, <1>4 DEF PlaceIn, q

\* Any position has a place in its cluster; and the next sector's is in it, or
\* at its end.
LEMMA Places ==
    ASSUME data_entry \in Nat
    PROVE  /\ \A c \in Int :
                /\ SetCluster(c) \in [cluster : {c}, sector : Nat, in_cluster_ptr : {0}]
                /\ SetCluster(c).in_cluster_ptr < ClusterSize
           /\ \A s \in Nat :
                SetSector(s) \in Positions /\ SetSector(s).in_cluster_ptr < ClusterSize
           /\ \A pos \in Positions : pos.in_cluster_ptr < ClusterSize =>
                /\ NextSectorOf(pos) \in Positions
                /\ NextSectorOf(pos).in_cluster_ptr # ClusterSize
                        => NextSectorOf(pos).in_cluster_ptr < ClusterSize
<1>1. ASSUME NEW c \in Int
      PROVE  /\ SetCluster(c) \in [cluster : {c}, sector : Nat, in_cluster_ptr : {0}]
             /\ SetCluster(c).in_cluster_ptr < ClusterSize
    <2>1. (c - 2) * ClusterSize + data_entry \in Int
        BY Sizes
    <2>2. fatClusterToSector(c) \in Nat
        BY <2>1, Sizes DEF fatClusterToSector
    <2> QED
        BY <2>2, Sizes DEF SetCluster
<1>2. ASSUME NEW s \in Nat
      PROVE  SetSector(s) \in Positions /\ SetSector(s).in_cluster_ptr < ClusterSize
    <2> DEFINE a == (s - data_entry) % Word
    <2>1. a \in Nat
        BY Sizes
    <2>2. SetSector(s) = [cluster |-> (a \div ClusterSize) + 2, sector |-> s,
                          in_cluster_ptr |-> a % ClusterSize]
        BY DEF SetSector, fatSectorToCluster
    <2> HIDE DEF a
    <2>3. a \div ClusterSize \in Nat /\ a % ClusterSize \in 0 .. ClusterSize - 1
        BY <2>1, Sizes, DivMod
    <2> QED
        BY <2>2, <2>3, Sizes DEF Positions
<1>3. ASSUME NEW pos \in Positions, pos.in_cluster_ptr < ClusterSize
      PROVE  /\ NextSectorOf(pos) \in Positions
             /\ NextSectorOf(pos).in_cluster_ptr # ClusterSize
                        => NextSectorOf(pos).in_cluster_ptr < ClusterSize
    <2> DEFINE t == pos.sector + 1  e == pos.in_cluster_ptr + 1
    <2>1. t \in Nat /\ e \in 0 .. ClusterSize
        BY <1>3, Sizes DEF Positions
    <2> DEFINE next == [pos EXCEPT !.sector = t, !.in_cluster_ptr = e]
    <2>2. NextSectorOf(pos) = next
        BY DEF NextSectorOf
    <2> HIDE DEF t, e
    <2>3. next \in Positions /\ next.in_cluster_ptr = e
        BY <2>1 DEF Positions
    <2> HIDE DEF next
    <2> QED
        BY <2>1, <2>2, <2>3, Sizes
<1> QED
    BY <1>1, <1>2, <1>3

\* A sector of a directory, and the one after it in its cluster.
LEMMA SectorFacts ==
    ASSUME vol \in Volumes, data_entry = DataEntry, NEW s, DirSector(vol, s)
    PROVE  /\ SetSector(s) \in Positions /\ SetSector(s).sector = s
           /\ SetSector(s).in_cluster_ptr < ClusterSize
           /\ InDirs(vol, SetSector(s).cluster)
           /\ SetSector(s).in_cluster_ptr + 1 # ClusterSize =>
                DirSector(vol, s + 1) /\ SetSector(s + 1) = NextSectorOf(SetSector(s))
           /\ NextSectorOf(SetSector(s)) \in Positions
           /\ NextSectorOf(SetSector(s)).sector = s + 1
           /\ NextSectorOf(SetSector(s)).in_cluster_ptr = SetSector(s).in_cluster_ptr + 1
           /\ SetSector(s).cluster = ((s - DataEntry) \div ClusterSize) + 2
           /\ SetSector(s).in_cluster_ptr = (s - DataEntry) % ClusterSize
<1> DEFINE a == s - DataEntry  q == a \div ClusterSize  r == a % ClusterSize
<1>1. s \in Nat /\ a \in Nat /\ s = DataEntry + a /\ InDirs(vol, q + 2)
    BY Sizes DEF DirSector
<1>2. q \in Nat /\ r \in 0 .. ClusterSize - 1 /\ a = ClusterSize * q + r
    BY <1>1, Sizes, DivMod
<1> HIDE DEF q, r
<1>4. ASSUME NEW t \in Nat, NEW e \in Nat, t = s + e
      PROVE  t - (((q + 2) - 2) * ClusterSize + DataEntry) = r + e
    <2>1. ((q + 2) - 2) * ClusterSize = ClusterSize * q /\ ClusterSize * q \in Nat
        BY <1>2, Sizes
    <2> HIDE DEF a
    <2> QED
        BY <1>1, <1>2, <1>4, <2>1, Sizes
<1>5. SetSector(s) = [cluster |-> q + 2, sector |-> s, in_cluster_ptr |-> r]
    <2>1. s - (((q + 2) - 2) * ClusterSize + DataEntry) = r + 0
        BY <1>1, <1>4
    <2> QED
        BY <1>1, <1>2, <2>1, PlaceFacts DEF PlaceIn, q
<1>6. ASSUME r + 1 # ClusterSize
      PROVE  /\ DirSector(vol, s + 1)
             /\ SetSector(s + 1) = [cluster |-> q + 2, sector |-> s + 1,
                                    in_cluster_ptr |-> r + 1]
    <2>1. (a + 1) \div ClusterSize = q
        BY <1>1, <1>6, NextInPart, Sizes DEF q, r
    <2>2. /\ s + 1 \in Nat /\ a + 1 \in Nat /\ s + 1 = DataEntry + (a + 1)
          /\ (s + 1) - DataEntry = a + 1
        BY <1>1, Sizes
    <2>3. (s + 1) - (((q + 2) - 2) * ClusterSize + DataEntry) = r + 1
        BY <1>1, <1>4
    <2>4. DirSector(vol, s + 1)
        BY <1>1, <2>1, <2>2, Sizes DEF DirSector
    <2> QED
        BY <2>1, <2>2, <2>3, <2>4, PlaceFacts DEF PlaceIn
<1>7. /\ q + 2 \in Nat /\ s + 1 \in Nat /\ r \in 0 .. ClusterSize
      /\ r + 1 \in 0 .. ClusterSize /\ r < ClusterSize
    BY <1>1, <1>2, Sizes
<1>8. NextSectorOf(SetSector(s)) =
        [cluster |-> q + 2, sector |-> s + 1, in_cluster_ptr |-> r + 1]
    <2> DEFINE pos == SetSector(s)  t == pos.sector + 1  e == pos.in_cluster_ptr + 1
               next == [pos EXCEPT !.sector = t, !.in_cluster_ptr = e]
    <2>1. pos \in Positions /\ pos.cluster = q + 2
        BY <1>1, <1>5, <1>7 DEF Positions
    <2>2. t = s + 1 /\ e = r + 1
        BY <1>5
    <2> HIDE DEF pos, t, e
    <2>3. next \in Positions
        BY <1>7, <2>1, <2>2 DEF Positions
    <2>4. next.cluster = q + 2 /\ next.sector = t /\ next.in_cluster_ptr = e
        BY <2>1 DEF Positions
    <2> HIDE DEF next
    <2>5. next = [cluster |-> q + 2, sector |-> t, in_cluster_ptr |-> e]
        BY <2>3, <2>4 DEF Positions
    <2>6. NextSectorOf(pos) = next
        BY DEF NextSectorOf, next, t, e
    <2> QED
        BY <2>2, <2>5, <2>6 DEF pos
<1>9. /\ SetSector(s).cluster = ((s - DataEntry) \div ClusterSize) + 2
      /\ SetSector(s).in_cluster_ptr = (s - DataEntry) % ClusterSize
    BY <1>5 DEF q, r
<1> HIDE DEF a
<1> QED
    BY <1>1, <1>5, <1>6, <1>7, <1>8, <1>9 DEF Positions

\* The first sector of a cluster.
LEMMA ClusterFacts ==
    ASSUME vol \in Volumes, data_entry = DataEntry, NEW c, InDirs(vol, c)
    PROVE  /\ DirSector(vol, SetCluster(c).sector)
           /\ SetCluster(c) = SetSector(SetCluster(c).sector)
           /\ SetCluster(c) \in Positions
           /\ SetCluster(c).sector = (c - 2) * ClusterSize + DataEntry
<1> DEFINE q == c - 2  s == q * ClusterSize + DataEntry
<1>1. q \in Nat /\ c = q + 2
    BY ChainFacts
<1> HIDE DEF q
<1>2. ClusterSize * q \in Nat /\ q * ClusterSize = ClusterSize * q
    BY <1>1, Sizes
<1>3. (ClusterSize * q + 0) \div ClusterSize = q
    BY <1>1, Sizes, DivModUnique
<1>4. s \in Nat /\ s >= DataEntry /\ s - DataEntry = ClusterSize * q + 0
    BY <1>2, Sizes
<1>6. DirSector(vol, s)
    BY <1>1, <1>3, <1>4 DEF DirSector
<1>5. SetCluster(c) = [cluster |-> c, sector |-> s, in_cluster_ptr |-> 0]
    <2>1. s % Word = s
        BY <1>6, DirBounds, Narrow
    <2> QED
        BY <2>1 DEF SetCluster, fatClusterToSector, q
<1>7. SetSector(s) = [cluster |-> c, sector |-> s, in_cluster_ptr |-> 0]
    <2>1. s - ((c - 2) * ClusterSize + DataEntry) = 0
        BY <1>1, <1>2, <1>4, Sizes DEF q
    <2>2. ((s - DataEntry) \div ClusterSize) + 2 = c
        BY <1>1, <1>3, <1>4
    <2> QED
        BY <1>6, <2>1, <2>2, PlaceFacts DEF PlaceIn
<1>8. SetCluster(c).sector = (c - 2) * ClusterSize + DataEntry
    BY <1>5 DEF q
<1> QED
    BY <1>1, <1>4, <1>5, <1>6, <1>7, <1>8, Sizes DEF Positions

\* Where FatSetCluster goes: a place, and a directory's if the cluster is one's.
LEMMA ClusterPlace ==
    ASSUME vol \in Volumes, data_entry = DataEntry, NEW c \in Nat
    PROVE  /\ SetCluster(c) \in Positions /\ SetCluster(c).in_cluster_ptr < ClusterSize
           /\ InDirs(vol, c) =>
                /\ DirSector(vol, SetCluster(c).sector)
                /\ SetCluster(c) = PlaceIn(SetCluster(c).sector)
<1>1. data_entry \in Nat /\ c \in Int
    BY Sizes
<1>2. /\ SetCluster(c) \in [cluster : {c}, sector : Nat, in_cluster_ptr : {0}]
      /\ SetCluster(c).in_cluster_ptr < ClusterSize
    BY <1>1, Places
<1>3. SetCluster(c) \in Positions
    <2> DEFINE q == SetCluster(c)
    <2> HIDE DEF q
    <2>1. q \in [cluster : {c}, sector : Nat, in_cluster_ptr : {0}]
        BY <1>2 DEF q
    <2>2. q \in Positions
        BY <2>1, Sizes DEF Positions
    <2> QED
        BY <2>2 DEF q
<1>4. ASSUME InDirs(vol, c)
      PROVE  /\ DirSector(vol, SetCluster(c).sector)
             /\ SetCluster(c) = PlaceIn(SetCluster(c).sector)
    BY <1>4, ClusterFacts, PlaceFacts
<1> QED
    BY <1>2, <1>3, <1>4

\* The records of a sector.
LEMMA LocationFacts ==
    ASSUME NEW s, DirSector(vol, s), NEW n \in 0 .. RecsPerSec - 1
    PROVE  /\ s * RecsPerSec + n \in Nat
           /\ (s * RecsPerSec + n) \div RecsPerSec = s
           /\ DirRecord(vol, s * RecsPerSec + n)
<1>1. s \in Nat
    BY DEF DirSector
<1>2. s * RecsPerSec = RecsPerSec * s /\ RecsPerSec * s \in Nat
    BY <1>1, Sizes
<1>3. (RecsPerSec * s + n) \div RecsPerSec = s
    BY <1>1, Sizes, DivModUnique
<1> QED
    BY <1>2, <1>3, Sizes DEF DirRecord

\* The next record of a sector.
LEMMA NextLocation ==
    ASSUME NEW idx, DirRecord(vol, idx), (idx + 1) % RecsPerSec # 0
    PROVE  DirRecord(vol, idx + 1) /\ (idx + 1) \div RecsPerSec = idx \div RecsPerSec
<1>1. idx \in Nat /\ (idx + 1) \div RecsPerSec = idx \div RecsPerSec
    BY Sizes, NextInPart DEF DirRecord
<1> QED
    BY <1>1 DEF DirRecord

\* Where a record is that of a directory, it has a cluster; in a directory's
\* sector, the volume has that directory.
LEMMA RecordFacts ==
    ASSUME vol \in Volumes, NEW s \in Int,
           NEW n \in 0 .. RecsPerSec - 1, RecordAt(s, n).k = "dir"
    PROVE  /\ RecordAt(s, n).cluster \in Nat
           /\ DirSector(vol, s) => RecordAt(s, n).cluster \in DOMAIN vol.dirs
<1>1. CASE s < DataEntry \/ ~InDirs(vol, ((s - DataEntry) \div ClusterSize) + 2)
    <2>1. RecordAt(s, n) = vol.other /\ ~DirSector(vol, s)
        BY <1>1, Sizes DEF RecordAt, DirSector
    <2>2. vol.other.cluster \in Nat
        BY <2>1, DirsFacts DEF Record
    <2> QED
        BY <2>1, <2>2
<1>2. CASE ~(s < DataEntry) /\ InDirs(vol, ((s - DataEntry) \div ClusterSize) + 2)
    <2> DEFINE a == s - DataEntry
               cluster == (a \div ClusterSize) + 2
               p == PlaceOf(cluster)
               r == a % ClusterSize
               at == (p - 1) * RecsPerCluster + r * RecsPerSec + n + 1
    <2>1. s \in Nat /\ a \in Nat /\ InDirs(vol, cluster)
        BY <1>2, Sizes
    <2>2. PICK c \in DOMAIN vol.dirs : DirOf(cluster) = vol.dirs[c]
        BY <2>1, ChainFacts
    <2>3. p \in 1 .. Len(vol.dirs[c].chain)
        BY <2>1, <2>2, ChainFacts
    <2>4. r \in 0 .. ClusterSize - 1
        BY <2>1, Sizes, DivMod
    <2>5. RecordAt(s, n) = vol.dirs[c].recs[at]
        BY <1>2, <2>2 DEF RecordAt
    <2> HIDE DEF p, r
    <2> DEFINE len == Len(vol.dirs[c].chain)
    <2>6. len \in Nat
        <3>1. vol.dirs[c].chain \in Seq(Nat \ {0, 1})
            BY DirsFacts
        <3> QED
            BY <3>1
    <2> HIDE DEF len
    <2>7. (r * RecsPerSec) + n \in Nat /\ (r * RecsPerSec) + n < RecsPerCluster
        <3>1. r < ClusterSize /\ n < RecsPerSec /\ r \in Nat /\ n \in Nat
            BY <2>4, Sizes
        <3> QED
            BY <3>1, Sizes, InParts DEF RecsPerCluster
    <2>8. at \in 1 .. len * RecsPerCluster
        <3> DEFINE y == (r * RecsPerSec) + n  w == RecsPerCluster  v == p - 1
        <3>1. v \in Nat /\ v < len
            BY <2>3, <2>6 DEF len
        <3>2. w \in Nat
            BY Sizes DEF RecsPerCluster
        <3>3. y \in Nat /\ y < w
            BY <2>7
        <3>4. at = (v * w) + y + 1
            <4>1. r * RecsPerSec \in Nat /\ v * w \in Nat
                BY <2>4, <3>1, <3>2, Sizes
            <4> HIDE DEF v, w
            <4>2. (p - 1) * RecsPerCluster = v * w
                BY DEF v, w
            <4> QED
                BY <4>1, <4>2
        <3> HIDE DEF y, w, v, at
        <3>5. (v * w) + y \in Nat /\ (v * w) + y < len * w /\ len * w \in Nat
            BY <2>6, <3>1, <3>2, <3>3, InParts
        <3>6. at \in 1 .. len * w
            BY <3>4, <3>5
        <3> QED
            BY <3>6 DEF w, at
    <2> HIDE DEF at
    <2>9. /\ vol.dirs[c].recs \in Seq(Record)
          /\ Len(vol.dirs[c].recs) = len * RecsPerCluster
        BY DirsFacts DEF len
    <2>10. at \in DOMAIN vol.dirs[c].recs
        BY <2>8, <2>9
    <2>11. RecordAt(s, n).cluster \in DOMAIN vol.dirs
        BY <2>5, <2>10, DirsFacts
    <2>12. \A d \in DOMAIN vol.dirs : d \in Nat
        <3> SUFFICES ASSUME NEW d \in DOMAIN vol.dirs PROVE d \in Nat
            OBVIOUS
        <3> QED
            BY FirstCluster, ChainFacts
    <2> QED
        BY <2>11, <2>12
<1> QED
    BY <1>1, <1>2

-----------------------------------------------------------------------------
(* The invariant is inductive. *)

LEMMA Initial == Init => IInv
<1> SUFFICES ASSUME Init PROVE IInv
    OBVIOUS
<1>1. path \in Paths /\ vol \in Volumes
    BY DirAssumption DEF Init
<1>2. TypeOK
    <2>1. k \in 1 .. Len(path)
        <3>1. path \in Seq(Names) /\ path # <<>>
            BY <1>1, DirAssumption
        <3> QED
            BY <3>1 DEF Init
    <2>2. Zero \in Positions
        BY Sizes DEF Zero, Positions
    <2>3. recordTable \in [0 .. MaxRecords - 1 -> Nat]
        BY DEF Init, EmptyTable
    <2> QED
        BY <2>1, <2>2, <2>3, Sizes DEF Init, TypeOK, Directories
<1>3. MountInv /\ CacheInv
    BY <1>1, Sizes DEF Init, MountInv, CacheInv, Mounting
<1>4. TableInv /\ RecordInv
    BY Sizes DEF Init, TableInv, RecordInv, Scanning, Reading
<1> QED
    BY <1>1, <1>2, <1>3, <1>4 DEF IInv

LEMMA Kept ==
    ASSUME vol' = vol
    PROVE  pbr_entry' = pbr_entry /\ (HasPartition' <=> HasPartition)
BY DEF pbr_entry, HasPartition

LEMMA MountStep == IInv /\ Mount => IInv'
<1> SUFFICES ASSUME IInv, Mount PROVE IInv'
    OBVIOUS
<1>i. TypeOK /\ path \in Paths /\ MountInv /\ CacheInv /\ TableInv /\ RecordInv
    BY DEF IInv
<1>1. UNCHANGED searching /\ Mounting /\ vol' = vol
    BY DEF Mount, MountRead, MountPartition, MountFails, Mounted, searching, Mounting
<1>2. pc' \in {"mbr", "pbr", "idle"}
    BY DEF Mount, MountRead, MountPartition, MountFails, Mounted, Return, LoadDataFail
<1>3. ret' \in {ret, "D3", "F8"}
    BY DEF Mount, MountRead, MountPartition, MountFails, Mounted, Return, LoadDataFail
<1>4. TypeOK' /\ path' \in Paths
    BY <1>i, <1>1, <1>2, <1>3 DEF TypeOK, searching, search, table
<1>5. TableInv' /\ RecordInv' /\ (~broken' => ~broken) /\ UNCHANGED <<table_sec_idx, table_data>>
    <2>1. ~Scanning' /\ ~Reading' /\ pc' \notin {"scan", "try", "decode", "nextrec"}
        BY <1>2 DEF Scanning, Reading
    <2>2. UNCHANGED <<recordTable, dir, skip, hdr_idx>>
        BY <1>1 DEF searching, table, search
    <2>3. (~broken' => ~broken) /\ UNCHANGED <<table_sec_idx, table_data>>
        BY DEF Mount, MountRead, MountPartition, MountFails, Mounted, LoadData, LoadDataFail,
               cache, tablecache
    <2> QED
        BY <1>i, <1>1, <2>1, <2>2, <2>3, Kept DEF TableInv, RecordInv
<1>6. data_entry = 0 /\ vol \in Volumes
    BY <1>i, <1>1 DEF MountInv
<1>7. CASE MountRead
    BY <1>i, <1>1, <1>4, <1>5, <1>6, <1>7, Kept
       DEF MountRead, LoadData, LoadDataFail, Return, MountInv, CacheInv, Mounting, IInv
<1>8. CASE MountPartition
    BY <1>i, <1>1, <1>4, <1>5, <1>6, <1>8, Kept
       DEF MountPartition, LoadData, LoadDataFail, Return, MountInv, CacheInv, Mounting, IInv
<1>9. CASE MountFails
    BY <1>i, <1>1, <1>4, <1>5, <1>6, <1>9, Kept
       DEF MountFails, Return, MountInv, CacheInv, Mounting, IInv, cache
<1>10. CASE Mounted
    <2>1. pbr_entry \in Nat /\ pbr_entry < DataEntry
          /\ pbr_entry + vol.disk.reserved + 2 * vol.disk.sectors_per_fat = DataEntry
        BY <1>6, <1>10, DiskFacts DEF Mounted
    <2>2. data_entry' = DataEntry /\ data_entry' # 0
        BY <1>10, <2>1, Sizes DEF Mounted
    <2>3. data' = data /\ data_sec_idx' = data_sec_idx /\ broken' = broken /\ pc' = "idle"
        BY <1>10 DEF Mounted, cache
    <2>4. data \in Int /\ data < DataEntry
        BY <1>i, <1>6, <2>1, Sizes DEF MountInv, NoSector
    <2> QED
        BY <1>i, <1>1, <1>4, <1>5, <1>6, <2>2, <2>3, <2>4, Kept
           DEF MountInv, CacheInv, Mounting, IInv
<1> QED
    BY <1>7, <1>8, <1>9, <1>10 DEF Mount

\* A sector is loaded, or is not; and so is one of the table.
LEMMA LoadFacts ==
    ASSUME CacheInv, data_entry # 0, UNCHANGED <<vol, data_entry>>, NEW s \in Int,
           ~broken => DirSector(vol, s), LoadData(s) \/ LoadDataFail(s),
           ~broken' => table_data' = table_sec_idx'
    PROVE  CacheInv'
<1>1. /\ data' \in {data, s}
      /\ ~broken' => ~broken /\ data' = data_sec_idx'
    BY DEF LoadData, LoadDataFail, CacheInv
<1> QED
    BY <1>1 DEF CacheInv

LEMMA TableFacts ==
    ASSUME CacheInv, NEW c, LoadTable(c), ~broken
    PROVE  table_data' = table_sec_idx' /\ TableLoaded(c) = TableSector(c)
BY DEF CacheInv, LoadTable, TableLoaded

\* What the table has for a cluster of a directory, the card not having failed.
LEMMA EntryFacts ==
    ASSUME IInv, NEW c, vol \in Volumes, InDirs(vol, c), LoadTable(c), ~broken
    PROVE  TableRecord(c) = IF IsLast(c) THEN Eoc ELSE Following(c)
<1>1. c \in Nat
    BY ChainFacts
<1>2. TableLoaded(c) = TableSector(c)
    BY TableFacts DEF IInv
<1>3. /\ c \div EntriesPerSec \in Nat
      /\ c = EntriesPerSec * (c \div EntriesPerSec) + (c % EntriesPerSec)
    BY <1>1, DivMod, Sizes
<1>4. (c \div EntriesPerSec) * EntriesPerSec = EntriesPerSec * (c \div EntriesPerSec)
    BY <1>3, Sizes
<1>5. TableLoaded(c) # NoSector
    BY <1>2, <1>3 DEF TableSector, NoSector
<1>6. TableLoaded(c) * EntriesPerSec + (c % EntriesPerSec) = c
    BY <1>2, <1>3, <1>4 DEF TableSector
<1> QED
    BY <1>5, <1>6 DEF TableRecord, Entry

\* A cluster that follows is not the end.
LEMMA FollowingFacts ==
    ASSUME vol \in Volumes, NEW c, InDirs(vol, c), ~IsLast(c)
    PROVE  Following(c) # Eoc
<1>1. InDirs(vol, Following(c))
    BY ChainFacts
<1>2. Following(c) \in Nat
    BY <1>1, ChainFacts
<1> QED
    BY <1>2 DEF Eoc

\* Whatever buffer it is read from, an entry is the end or a cluster.
LEMMA AnyEntry ==
    ASSUME vol \in Volumes, NEW c
    PROVE  TableRecord(c) = Eoc \/ TableRecord(c) \in Nat
<1>1. \A e : Entry(e) = Eoc \/ Entry(e) \in Nat
    <2> SUFFICES ASSUME NEW e PROVE Entry(e) = Eoc \/ Entry(e) \in Nat
        OBVIOUS
    <2>1. CASE ~InDirs(vol, e)
        BY <2>1, DirsFacts DEF Entry
    <2>2. CASE InDirs(vol, e) /\ ~IsLast(e)
        <3>1. InDirs(vol, Following(e))
            BY <2>2, ChainFacts
        <3>2. Following(e) \in Nat
            BY <3>1, ChainFacts
        <3> QED
            BY <2>2, <3>2 DEF Entry
    <2> QED
        BY <2>1, <2>2 DEF Entry
<1> QED
    BY <1>1, DirsFacts DEF TableRecord

\* A directory is opened.
LEMMA OpenFacts ==
    ASSUME IInv, data_entry # 0, UNCHANGED <<vol, data_entry, rec, broken>>,
           NEW idx \in Nat, idx = 0 \/ (~broken => DirRecord(vol, idx)), OpenDir(idx)
    PROVE  /\ dir' \in Directories
           /\ i' \in 0 .. MaxRecords + RecsPerSec
           /\ recordTable' \in [0 .. MaxRecords - 1 -> Nat]
           /\ pc' \in {"openrec", "load"} /\ why' = "dir"
           /\ TableInv' /\ RecordInv'
<1>1. /\ TypeOK /\ vol \in Volumes /\ data_entry = DataEntry
    BY DEF IInv, MountInv
<1>2. idx \in Nat
    OBVIOUS
<1>3. InDirs(vol, Root)
    BY <1>1, DirsFacts, FirstCluster
<1> DEFINE p == IF idx > 2 THEN dir.pos ELSE SetCluster(Root)
<1>4. /\ SetCluster(Root) \in Positions /\ DirSector(vol, SetCluster(Root).sector)
      /\ SetCluster(Root) = PlaceIn(SetCluster(Root).sector)
      /\ SetCluster(Root).in_cluster_ptr < ClusterSize
    BY <1>1, <1>3, ClusterFacts, PlaceFacts, Places, Sizes DEF Root
<1>5. p \in Positions
    BY <1>1, <1>4 DEF TypeOK, Directories
<1>6. dir' = [dir EXCEPT !.size = 0, !.is_root = FALSE, !.entry_cluster = idx, !.pos = p]
    BY DEF OpenDir
<1> HIDE DEF p
<1>7. /\ dir' \in Directories
      /\ dir'.size = 0 /\ dir'.pos = p
    <2>1. dir \in Directories /\ 0 \in 0 .. MaxRecords
        BY <1>1, Sizes DEF TypeOK, Directories
    <2>2. dir' \in Directories
        BY <1>2, <1>5, <1>6, <2>1 DEF Directories
    <2>3. dir'.size = 0 /\ dir'.pos = p
        BY <1>6, <2>1 DEF Directories
    <2> QED
        BY <2>2, <2>3
<1>8. /\ hdr_idx' = idx /\ skip' = FALSE /\ i' = 0 /\ why' = "dir"
      /\ recordTable' = recordTable
      /\ pc' = IF idx > 2 THEN "openrec" ELSE "load"
    BY DEF OpenDir
<1>9. TableInv'
    <2>1. idx <= 2 => /\ DirSector(vol, dir'.pos.sector) /\ dir'.pos = PlaceIn(dir'.pos.sector)
                      /\ dir'.pos.in_cluster_ptr < ClusterSize
        BY <1>2, <1>4, <1>7 DEF p
    <2>2. Scanning' => idx <= 2
        BY <1>2, <1>8 DEF Scanning
    <2> QED
        BY <1>7, <1>8, <2>1, <2>2, Sizes DEF TableInv
<1>10. RecordInv'
    <2>1. ~broken' /\ Reading' => DirRecord(vol, hdr_idx)'
        BY <1>2, <1>8 DEF Reading
    <2> QED
        BY <1>7, <1>8, <2>1 DEF RecordInv
<1> QED
    BY <1>1, <1>7, <1>8, <1>9, <1>10, Sizes DEF TypeOK

LEMMA CallStep == IInv /\ (\E p \in Paths : Call(p)) => IInv'
<1> SUFFICES ASSUME IInv, NEW p \in Paths, Call(p) PROVE IInv'
    OBVIOUS
<1>1. /\ path' = p /\ k' = 1 /\ OpenDir(0) /\ data_entry # 0
      /\ UNCHANGED <<vol, data_entry, rec, data_sec_idx, data, table_sec_idx, table_data,
                     broken, ret>>
    BY DEF Call, volume, cache, tablecache
<1>2. 1 \in 1 .. Len(p)
    <2>1. p \in Seq(Names) /\ p # <<>>
        BY DirAssumption
    <2> QED
        BY <2>1
<1>3. /\ dir' \in Directories
      /\ i' \in 0 .. MaxRecords + RecsPerSec
      /\ recordTable' \in [0 .. MaxRecords - 1 -> Nat]
      /\ pc' \in {"openrec", "load"} /\ why' = "dir"
      /\ TableInv' /\ RecordInv'
    BY <1>1, OpenFacts
<1>4. TypeOK'
    BY <1>1, <1>2, <1>3 DEF IInv, TypeOK
<1>5. MountInv' /\ CacheInv'
    BY <1>1, <1>3, Kept DEF IInv, MountInv, CacheInv, Mounting
<1> QED
    BY <1>1, <1>3, <1>4, <1>5 DEF IInv

\* While a directory is read: where it is, and the location of a record.
LEMMA ScanFacts ==
    ASSUME IInv, Scanning
    PROVE  /\ data_entry = DataEntry /\ data_entry # 0 /\ vol \in Volumes /\ ~Mounting
           /\ dir \in Directories /\ dir.size < MaxRecords /\ dir.size \in Nat
           /\ dir.pos \in Positions /\ dir.pos.in_cluster_ptr < ClusterSize
           /\ ~broken => DirSector(vol, dir.pos.sector) /\ dir.pos = PlaceIn(dir.pos.sector)
           /\ Here \in Nat /\ (~broken /\ i < RecsPerSec => DirRecord(vol, Here))
<1>1. /\ data_entry = DataEntry /\ data_entry # 0 /\ vol \in Volumes /\ ~Mounting
    BY Sizes DEF IInv, MountInv, Scanning, Mounting
<1>2. /\ dir \in Directories /\ dir.size < MaxRecords /\ dir.size \in Nat
      /\ dir.pos \in Positions /\ dir.pos.in_cluster_ptr < ClusterSize
      /\ ~broken => DirSector(vol, dir.pos.sector) /\ dir.pos = PlaceIn(dir.pos.sector)
    BY Sizes DEF IInv, TableInv, TypeOK, Directories
<1>3. ASSUME ~broken, i < RecsPerSec PROVE DirRecord(vol, Here)
    <2>1. i \in 0 .. RecsPerSec - 1
        BY <1>3, Sizes DEF IInv, TypeOK
    <2>2. Here = dir.pos.sector * RecsPerSec + i
        BY <1>1, <1>2, <1>3, <2>1, LocationFits DEF Here
    <2> QED
        BY <1>2, <1>3, <2>1, <2>2, LocationFacts
<1>4. Here \in Nat
    <2>1. dir.pos.sector * RecsPerSec + i \in Int
        BY <1>2, Sizes DEF Positions, IInv, TypeOK
    <2> HIDE DEF Here
    <2> QED
        BY <2>1, Sizes DEF Here
<1> QED
    BY <1>1, <1>2, <1>3, <1>4

\* The steps that read no sector.
LEMMA ScanStep == IInv /\ (ScanEnd \/ ScanSkipped \/ ScanLfn \/ ScanEntry) => IInv'
<1> SUFFICES ASSUME IInv, ScanEnd \/ ScanSkipped \/ ScanLfn \/ ScanEntry PROVE IInv'
    OBVIOUS
<1>1. pc = "scan" /\ Scanning /\ i < RecsPerSec
    BY DEF ScanEnd, ScanSkipped, ScanLfn, ScanEntry, Scanning
<1>2. /\ data_entry = DataEntry /\ data_entry # 0 /\ vol \in Volumes /\ ~Mounting
      /\ dir \in Directories /\ dir.size < MaxRecords /\ dir.size \in Nat
      /\ dir.pos.in_cluster_ptr < ClusterSize
      /\ ~broken => DirSector(vol, dir.pos.sector) /\ dir.pos = PlaceIn(dir.pos.sector)
      /\ Here \in Nat /\ (~broken => DirRecord(vol, Here))
    BY <1>1, ScanFacts
<1>3. /\ UNCHANGED <<vol, data_entry, path, k, hdr_idx, rec, why, data_sec_idx, data,
                     table_sec_idx, table_data, ret, broken>>
    BY DEF ScanEnd, ScanSkipped, ScanLfn, ScanEntry, volume, search, cache, tablecache
<1>4. /\ TypeOK /\ i \in Nat /\ i + 1 \in 0 .. MaxRecords + RecsPerSec /\ i + 1 <= RecsPerSec
      /\ 0 \in 0 .. MaxRecords + RecsPerSec
    BY <1>1, Sizes DEF IInv, TypeOK
<1>5. pc' \in {"scan", "try"} /\ i' \in {0, i + 1} /\ (pc' = "try" => i' = 0)
    BY <1>1 DEF ScanEnd, ScanSkipped, ScanLfn, ScanEntry, TryEntries, Goon
<1>6. MountInv' /\ CacheInv' /\ RecordInv' /\ path' \in Paths
    <2>1. ~Reading' /\ pc' \notin {"decode", "nextrec", "pbr", "mount", "mbr"}
        BY <1>5 DEF Reading
    <2> QED
        BY <1>2, <1>3, <1>5, <2>1, Kept
           DEF IInv, MountInv, CacheInv, RecordInv, Mounting
<1>7. ASSUME dir' \in Directories, dir'.size \in 0 .. MaxRecords, dir'.pos = dir.pos,
             recordTable' \in [0 .. MaxRecords - 1 -> Nat],
             pc' = "scan" => dir'.size < MaxRecords,
             ~broken => \A n \in 0 .. MaxRecords - 1 :
                n < dir'.size \/ (n = dir'.size /\ skip') => DirRecord(vol, recordTable'[n])
      PROVE  IInv'
    <2>1. TypeOK'
        BY <1>3, <1>4, <1>5, <1>7 DEF TypeOK
    <2>2. i' <= RecsPerSec /\ (pc' = "try" => i' <= dir'.size)
        BY <1>4, <1>5, <1>7, Sizes
    <2>3. Scanning' => dir'.size < MaxRecords
        BY <1>5, <1>7 DEF Scanning
    <2>4. TableInv'
        BY <1>2, <1>3, <1>7, <2>2, <2>3 DEF TableInv
    <2> QED
        BY <1>6, <2>1, <2>4 DEF IInv
<1>8. /\ recordTable \in [0 .. MaxRecords - 1 -> Nat] /\ dir.size \in 0 .. MaxRecords - 1
      /\ ~broken => \A n \in 0 .. MaxRecords - 1 :
            n < dir.size \/ (n = dir.size /\ skip) => DirRecord(vol, recordTable[n])
    BY <1>2, <1>4, Sizes DEF IInv, TableInv, TypeOK
<1>9. CASE ScanEnd
    <2>1. UNCHANGED <<dir, skip, recordTable>>
        BY <1>9 DEF ScanEnd, table
    <2> QED
        BY <1>2, <1>7, <1>8, <2>1, Sizes
<1>10. CASE ScanSkipped
    <2>1. UNCHANGED <<dir, recordTable>> /\ skip' = FALSE
        BY <1>10 DEF ScanSkipped
    <2> QED
        BY <1>2, <1>7, <1>8, <2>1, Sizes
<1> DEFINE put == [recordTable EXCEPT ![dir.size] = Here]
<1>11. /\ put \in [0 .. MaxRecords - 1 -> Nat] /\ put[dir.size] = Here
       /\ \A n \in 0 .. MaxRecords - 1 : n # dir.size => put[n] = recordTable[n]
    BY <1>2, <1>8
<1> HIDE DEF put
<1>12. CASE ScanLfn
    <2>1. /\ dir' = dir
          /\ \/ recordTable' = put /\ skip' = TRUE
             \/ UNCHANGED <<recordTable, skip>>
        BY <1>12 DEF ScanLfn, put
    <2>2. ASSUME ~broken, NEW n \in 0 .. MaxRecords - 1, n < dir'.size \/ (n = dir'.size /\ skip')
          PROVE  DirRecord(vol, recordTable'[n])
        <3>1. n <= dir.size
            BY <1>8, <2>1, <2>2
        <3>2. CASE recordTable' = put
            BY <1>2, <1>8, <1>11, <2>2, <3>1, <3>2
        <3>3. CASE UNCHANGED <<recordTable, skip>>
            BY <1>8, <2>1, <2>2, <3>3
        <3> QED
            BY <2>1, <3>2, <3>3
    <2>3. /\ dir' \in Directories /\ dir'.size \in 0 .. MaxRecords /\ dir'.pos = dir.pos
          /\ dir'.size < MaxRecords /\ recordTable' \in [0 .. MaxRecords - 1 -> Nat]
        BY <1>2, <1>8, <1>11, <2>1, Sizes
    <2> QED
        BY <1>7, <2>2, <2>3
<1>13. CASE ScanEntry
    <2>1. /\ recordTable' = IF skip THEN recordTable ELSE put
          /\ dir' = [dir EXCEPT !.size = @ + 1]
          /\ IF TableFull THEN pc' = "try" /\ skip' = skip ELSE pc' = "scan" /\ skip' = FALSE
        BY <1>1, <1>13 DEF ScanEntry, Located, put, TryEntries, Goon
    <2>2. /\ dir' \in Directories /\ dir'.pos = dir.pos /\ dir'.size = dir.size + 1
        <3> DEFINE n == dir.size + 1
        <3>1. n \in 0 .. MaxRecords /\ dir' = [dir EXCEPT !.size = n]
            BY <1>2, <2>1, Sizes
        <3> HIDE DEF n
        <3>2. dir' \in Directories /\ dir'.pos = dir.pos /\ dir'.size = n
            BY <1>2, <3>1 DEF Directories
        <3> QED
            BY <3>2 DEF n
    <2>3. pc' = "scan" => dir'.size < MaxRecords /\ ~skip'
        BY <1>2, <2>1, <2>2, Sizes DEF TableFull
    <2>4. recordTable' \in [0 .. MaxRecords - 1 -> Nat]
        BY <1>8, <1>11, <2>1
    <2>5. ASSUME ~broken, NEW n \in 0 .. MaxRecords - 1, n < dir'.size \/ (n = dir'.size /\ skip')
          PROVE  DirRecord(vol, recordTable'[n])
        <3>1. n < dir.size \/ n = dir.size
            BY <1>2, <1>8, <2>1, <2>2, <2>5, Sizes DEF TableFull
        <3> QED
            BY <1>2, <1>8, <1>11, <2>1, <2>5, <3>1
    <2>6. dir'.size \in 0 .. MaxRecords
        BY <2>2 DEF Directories
    <2> QED
        BY <1>7, <2>2, <2>3, <2>4, <2>5, <2>6
<1> QED
    BY <1>9, <1>10, <1>12, <1>13

\* The steps along the directory.
LEMMA AlongStep == IInv /\ (LoadDir \/ ScanNext) => IInv'
<1> SUFFICES ASSUME IInv, LoadDir \/ ScanNext PROVE IInv'
    OBVIOUS
<1>1. Scanning /\ (ScanNext => pc = "scan" /\ i = RecsPerSec)
    BY DEF LoadDir, ScanNext, Scanning
<1>2. /\ data_entry = DataEntry /\ data_entry # 0 /\ vol \in Volumes /\ ~Mounting
      /\ dir \in Directories /\ dir.size < MaxRecords /\ dir.size \in Nat
      /\ dir.pos \in Positions /\ dir.pos.in_cluster_ptr < ClusterSize
      /\ ~broken => DirSector(vol, dir.pos.sector) /\ dir.pos = PlaceIn(dir.pos.sector)
    BY <1>1, ScanFacts
<1>3. /\ UNCHANGED <<vol, data_entry, path, k, hdr_idx, rec, why, skip, recordTable>>
      /\ ~broken' => ~broken
    BY DEF LoadDir, LoadData, LoadDataFail, ScanNext, LoadTableFail, volume, search, table
<1>4. /\ TypeOK /\ i \in Nat /\ 0 \in 0 .. MaxRecords + RecsPerSec
      /\ ~broken => \A n \in 0 .. MaxRecords - 1 :
            n < dir.size \/ (n = dir.size /\ skip) => DirRecord(vol, recordTable[n])
    BY Sizes DEF IInv, TypeOK, TableInv
<1>5. ASSUME CacheInv', i' \in {0, i}, ret' \in {ret, "D3"},
             pc' \in {"load", "scan", "try", "idle"}, pc' \in {"scan", "try"} => i' = 0,
             dir' \in Directories, dir'.size = dir.size,
             pc' \in {"load", "scan"} =>
                /\ dir'.pos.in_cluster_ptr < ClusterSize
                /\ ~broken' => DirSector(vol, dir'.pos.sector) /\ dir'.pos = PlaceIn(dir'.pos.sector)
      PROVE  IInv'
    <2>1. TypeOK'
        BY <1>3, <1>4, <1>5 DEF TypeOK
    <2>2. Scanning' <=> pc' \in {"load", "scan"}
        BY <1>5 DEF Scanning
    <2>3. TableInv'
        BY <1>2, <1>3, <1>4, <1>5, <2>2, Sizes DEF TableInv
    <2>4. ~Reading' /\ pc' \notin {"decode", "nextrec", "mount", "mbr", "pbr"}
        BY <1>5 DEF Reading
    <2>5. MountInv' /\ RecordInv' /\ path' \in Paths
        BY <1>2, <1>3, <1>5, <2>4, Kept DEF IInv, MountInv, RecordInv, Mounting
    <2> QED
        BY <1>5, <2>1, <2>3, <2>5 DEF IInv
<1>6. CASE LoadDir
    <2>1. /\ LoadData(dir.pos.sector) \/ LoadDataFail(dir.pos.sector)
          /\ UNCHANGED <<table_sec_idx, table_data>> /\ dir.pos.sector \in Int
        BY <1>2, <1>6 DEF LoadDir, tablecache, Positions
    <2>2. CacheInv'
        <3>1. ~broken' => table_data' = table_sec_idx'
            BY <1>3, <2>1 DEF IInv, CacheInv
        <3> QED
            BY <1>2, <1>3, <2>1, <3>1, LoadFacts DEF IInv
    <2>3. /\ dir' = dir
          /\ \/ i' = 0 /\ pc' = "scan" /\ ret' = ret
             \/ i' = i /\ pc' = "idle" /\ ret' = "D3"
        BY <1>6 DEF LoadDir, LoadDataFail, Return, table
    <2> QED
        BY <1>2, <1>3, <1>5, <2>2, <2>3
<1>7. CASE ScanNext
    <2> DEFINE next == NextSectorOf(dir.pos)  s == dir.pos.sector  c == dir.pos.cluster
               e == TableRecord(c)
    <2>1. ~broken => /\ dir.pos = SetSector(s) /\ InDirs(vol, c)
                     /\ next.in_cluster_ptr # ClusterSize =>
                            DirSector(vol, s + 1) /\ next = PlaceIn(s + 1) /\ next.sector = s + 1
        <3> SUFFICES ASSUME ~broken
                     PROVE  /\ dir.pos = SetSector(s) /\ InDirs(vol, c)
                            /\ next.in_cluster_ptr # ClusterSize =>
                                DirSector(vol, s + 1) /\ next = PlaceIn(s + 1) /\ next.sector = s + 1
            OBVIOUS
        <3>1. dir.pos = SetSector(s) /\ DirSector(vol, s)
            BY <1>2, PlaceFacts
        <3>2. /\ InDirs(vol, c) /\ next.sector = s + 1
              /\ next.in_cluster_ptr = SetSector(s).in_cluster_ptr + 1
              /\ next.in_cluster_ptr # ClusterSize =>
                    DirSector(vol, s + 1) /\ next = SetSector(s + 1)
            BY <1>2, <3>1, SectorFacts
        <3> QED
            BY <1>2, <3>1, <3>2, PlaceFacts
    <2>2. /\ next \in Positions
          /\ next.in_cluster_ptr # ClusterSize => next.in_cluster_ptr < ClusterSize
        BY <1>2, Places, Sizes
    <2>3. /\ UNCHANGED <<data, data_sec_idx>>
          /\ \/ UNCHANGED <<table_sec_idx, table_data, broken>>
             \/ LoadTable(c) /\ broken' = broken
             \/ broken'
        BY <1>7 DEF ScanNext, tablecache, LoadTableFail
    <2>4. CacheInv'
        <3>1. ~broken' => table_data' = table_sec_idx'
            BY <2>3, TableFacts DEF IInv, CacheInv
        <3> QED
            BY <1>3, <2>3, <3>1 DEF IInv, CacheInv
    <2>5. e = Eoc \/ e \in Nat
        BY <1>2, AnyEntry
    <2>6. ~broken /\ LoadTable(c) /\ e # Eoc => InDirs(vol, e)
        BY <1>2, <2>1, EntryFacts, ChainFacts
    <2> HIDE DEF next, s, c, e
    <2>7. CASE /\ next.in_cluster_ptr # ClusterSize /\ dir' = [dir EXCEPT !.pos = next]
               /\ pc' = "load" /\ i' = i /\ ret' = ret
        <3>1. dir' \in Directories /\ dir'.size = dir.size /\ dir'.pos = next
            BY <1>2, <2>2, <2>7 DEF Directories
        <3> QED
            BY <1>3, <1>5, <2>1, <2>2, <2>4, <2>7, <3>1
    <2>8. CASE /\ LoadTable(c) /\ e # Eoc /\ dir' = [dir EXCEPT !.pos = SetCluster(e)]
               /\ pc' = "load" /\ i' = i /\ ret' = ret
        <3> DEFINE q == SetCluster(e)
        <3>1. q \in Positions /\ q.in_cluster_ptr < ClusterSize
            BY <1>2, <2>5, <2>8, Places, Sizes DEF Positions
        <3>2. ~broken => DirSector(vol, q.sector) /\ q = PlaceIn(q.sector)
            BY <1>2, <2>6, <2>8, ClusterFacts, PlaceFacts
        <3> HIDE DEF q
        <3>3. dir' \in Directories /\ dir'.size = dir.size /\ dir'.pos = q
            BY <1>2, <2>8, <3>1 DEF Directories, q
        <3> QED
            BY <1>3, <1>5, <2>4, <2>8, <3>1, <3>2, <3>3
    <2>9. CASE /\ dir' = [dir EXCEPT !.pos = next, !.is_root = TRUE]
               /\ pc' = "try" /\ i' = 0 /\ ret' = ret
        <3>1. dir' \in Directories /\ dir'.size = dir.size /\ dir'.pos = next
            BY <1>2, <2>2, <2>9 DEF Directories
        <3> QED
            BY <1>5, <2>4, <2>9, <3>1
    <2>10. CASE dir' = [dir EXCEPT !.pos = next] /\ pc' = "idle" /\ i' = i /\ ret' = "D3"
        <3>1. dir' \in Directories /\ dir'.size = dir.size /\ dir'.pos = next
            BY <1>2, <2>2, <2>10 DEF Directories
        <3> QED
            BY <1>5, <2>4, <2>10, <3>1
    <2> QED
        BY <1>7, <2>7, <2>8, <2>9, <2>10
           DEF ScanNext, TryEntries, Return, LoadTableFail, next, c, e
<1> QED
    BY <1>6, <1>7

\* While a record is read: its location, and where the reading is.
LEMMA ReadFacts ==
    ASSUME IInv, Reading
    PROVE  /\ data_entry = DataEntry /\ data_entry # 0 /\ vol \in Volumes /\ ~Mounting
           /\ dir.size \in 0 .. MaxRecords /\ i \in Nat
           /\ rec.pos \in Positions /\ rec.hdr_idx \in Nat
           /\ Wanted \in Nat /\ Wanted \div RecsPerSec \in Nat
           /\ ~broken => DirRecord(vol, Wanted) /\ DirSector(vol, Wanted \div RecsPerSec)
           /\ Current.k = "dir" => Current.cluster \in Nat
           /\ ~broken /\ pc \in {"decode", "nextrec"} /\ Current.k = "dir"
                => Current.cluster \in DOMAIN vol.dirs
<1>1. /\ data_entry = DataEntry /\ data_entry # 0 /\ vol \in Volumes /\ ~Mounting
    BY Sizes DEF IInv, MountInv, Reading, Mounting
<1>2. /\ dir.size \in 0 .. MaxRecords /\ i \in Nat
      /\ rec.pos \in Positions /\ rec.hdr_idx \in Nat
    BY Sizes DEF IInv, TypeOK, Directories
<1>5. Wanted \in Nat /\ (~broken => DirRecord(vol, Wanted))
    <2>1. CASE why = "match"
        <3>1. i < dir.size /\ i \in 0 .. MaxRecords - 1
            BY <1>2, <2>1, Sizes DEF IInv, RecordInv
        <3>2. recordTable[i] \in Nat /\ (~broken => DirRecord(vol, recordTable[i]))
            BY <3>1 DEF IInv, TableInv, TypeOK
        <3> QED
            BY <2>1, <3>2 DEF Wanted
    <2>2. CASE why # "match"
        BY <2>2 DEF IInv, RecordInv, Wanted
    <2> QED
        BY <2>1, <2>2
<1>6. Wanted \div RecsPerSec \in Nat /\ (~broken => DirSector(vol, Wanted \div RecsPerSec))
    BY <1>5, Sizes, DivMod DEF DirRecord
<1>7. ASSUME Current.k = "dir"
      PROVE  /\ Current.cluster \in Nat
             /\ ~broken /\ pc \in {"decode", "nextrec"} => Current.cluster \in DOMAIN vol.dirs
    <2>1. rec.hdr_idx % RecsPerSec \in 0 .. RecsPerSec - 1
        BY <1>2, Sizes, DivMod
    <2>2. data \in Int
        BY <1>1 DEF IInv, CacheInv
    <2>3. ~broken /\ pc \in {"decode", "nextrec"} => DirSector(vol, data)
        BY DEF IInv, RecordInv, DirRecord
    <2> QED
        BY <1>1, <1>7, <2>1, <2>2, <2>3, RecordFacts DEF Current
<1> QED
    BY <1>1, <1>2, <1>5, <1>6, <1>7

\* What is loaded is in the buffer, unless the card has failed.
LEMMA LoadedFacts ==
    ASSUME CacheInv, NEW s, LoadData(s), ~broken'
    PROVE  data' = s
BY DEF CacheInv, LoadData

LEMMA ReadRecordStep == IInv /\ ReadRecord => IInv'
<1> SUFFICES ASSUME IInv, ReadRecord PROVE IInv'
    OBVIOUS
<1>1. Reading
    BY DEF ReadRecord, OpenRecord, DecodeLfn, NextRecord, DecodeDeleted, Reading
<1>2. /\ data_entry = DataEntry /\ data_entry # 0 /\ vol \in Volumes /\ ~Mounting
      /\ dir.size \in 0 .. MaxRecords /\ i \in Nat
      /\ rec.pos \in Positions /\ rec.hdr_idx \in Nat
      /\ Wanted \in Nat /\ Wanted \div RecsPerSec \in Nat
      /\ ~broken => DirRecord(vol, Wanted) /\ DirSector(vol, Wanted \div RecsPerSec)
    BY <1>1, ReadFacts
<1>3. /\ UNCHANGED <<vol, data_entry, path, k, hdr_idx, dir, skip, recordTable, i, why>>
      /\ ~broken' => ~broken
    BY DEF ReadRecord, OpenRecord, DecodeLfn, NextRecord, DecodeDeleted, LoadData, LoadDataFail,
           LoadTableFail, volume, search, table
<1>4. TypeOK /\ CacheInv /\ rec \in [pos : Positions, hdr_idx : Nat]
    BY DEF IInv, TypeOK
<1>5. ASSUME CacheInv', ret' \in {ret, "D3", "F3", "FA"}, pc' \in {"decode", "nextrec", "idle"},
             rec' \in [pos : Positions, hdr_idx : Nat],
             pc' # "idle" => rec'.pos.in_cluster_ptr < ClusterSize,
             ~broken' /\ pc' # "idle" =>
                /\ DirRecord(vol, rec'.hdr_idx)
                /\ rec'.pos = PlaceIn(rec'.hdr_idx \div RecsPerSec)
                /\ data' = rec'.hdr_idx \div RecsPerSec
      PROVE  IInv'
    <2>1. TypeOK'
        BY <1>3, <1>4, <1>5 DEF TypeOK
    <2>2. ~Scanning' /\ pc' \notin {"scan", "try", "mount", "mbr", "pbr"}
        BY <1>5 DEF Scanning
    <2>3. TableInv'
        BY <1>3, <2>2 DEF IInv, TableInv
    <2>4. MountInv' /\ path' \in Paths
        BY <1>2, <1>3, <2>2 DEF IInv, MountInv, Mounting
    <2>5. RecordInv'
        <3>1. /\ why = "dir" => dir.size = 0
              /\ why = "match" => i < dir.size
              /\ ~broken /\ why # "match" => DirRecord(vol, hdr_idx)
              /\ hdr_idx \in Nat
            BY <1>1 DEF IInv, RecordInv
        <3> QED
            BY <1>3, <1>5, <3>1 DEF RecordInv
    <2> QED
        BY <1>5, <2>1, <2>3, <2>4, <2>5 DEF IInv
<1>6. CASE OpenRecord
    <2> DEFINE s == Wanted \div RecsPerSec  p == SetSector(s)
    <2>1. /\ p \in Positions /\ p.in_cluster_ptr < ClusterSize /\ s \in Nat
          /\ ~broken => p = PlaceIn(s) /\ DirSector(vol, s)
        BY <1>2, Places, Sizes, PlaceFacts
    <2>4. UNCHANGED <<table_sec_idx, table_data>>
        BY <1>6 DEF OpenRecord, tablecache
    <2>5. ~broken' => table_data' = table_sec_idx'
        BY <1>3, <1>4, <2>4 DEF CacheInv
    <2> HIDE DEF p
    <2>2. CASE LoadData(s) /\ rec' = [pos |-> p, hdr_idx |-> Wanted] /\ pc' = "decode" /\ ret' = ret
        <3>1. CacheInv'
            BY <1>2, <1>3, <1>4, <2>1, <2>2, <2>5, LoadFacts
        <3>2. ~broken' => data' = s
            BY <1>4, <2>2, LoadedFacts
        <3>3. rec' \in [pos : Positions, hdr_idx : Nat] /\ rec'.hdr_idx = Wanted /\ rec'.pos = p
            BY <1>2, <2>1, <2>2
        <3> QED
            BY <1>2, <1>3, <1>5, <2>1, <2>2, <3>1, <3>2, <3>3
    <2>3. CASE LoadDataFail(s) /\ rec' = [rec EXCEPT !.pos = p]
        <3>1. CacheInv'
            BY <1>2, <1>3, <1>4, <2>1, <2>3, <2>5, LoadFacts
        <3>2. rec' \in [pos : Positions, hdr_idx : Nat]
            BY <1>4, <2>1, <2>3
        <3>3. pc' = "idle" /\ ret' = "D3"
            BY <2>3 DEF LoadDataFail, Return
        <3> QED
            BY <1>5, <3>1, <3>2, <3>3
    <2> QED
        BY <1>6, <2>2, <2>3 DEF OpenRecord, p
<1>7. CASE DecodeLfn \/ DecodeDeleted
    <2>1. /\ pc = "decode"
          /\ UNCHANGED <<rec, data, data_sec_idx, table_sec_idx, table_data, broken>>
          /\ \/ pc' = "nextrec" /\ ret' = ret
             \/ pc' = "idle" /\ ret' = "FA"
        BY <1>7 DEF DecodeLfn, DecodeDeleted, Return, cache, tablecache
    <2>2. CacheInv'
        BY <1>3, <1>4, <2>1 DEF CacheInv
    <2>3. /\ rec.pos.in_cluster_ptr < ClusterSize
          /\ ~broken => /\ DirRecord(vol, rec.hdr_idx)
                        /\ rec.pos = PlaceIn(rec.hdr_idx \div RecsPerSec)
                        /\ data = rec.hdr_idx \div RecsPerSec
        BY <2>1 DEF IInv, RecordInv
    <2> QED
        BY <1>4, <1>5, <2>1, <2>2, <2>3
<1>8. CASE NextRecord
    <2> DEFINE s == rec.hdr_idx \div RecsPerSec  next == NextSectorOf(rec.pos)
               c == rec.pos.cluster  e == TableRecord(c)
               moveTo(pos) ==
                    /\ rec' = [pos |-> pos, hdr_idx |-> (pos.sector * RecsPerSec) % Word]
                    /\ \/ LoadData(pos.sector) /\ pc' = "decode" /\ ret' = ret
                       \/ LoadDataFail(pos.sector)
               tables == \/ UNCHANGED <<table_sec_idx, table_data>>
                         \/ LoadTable(c)
    <2>1. pc = "nextrec" /\ rec.pos.in_cluster_ptr < ClusterSize
        BY <1>8 DEF NextRecord, IInv, RecordInv
    <2>2. ~broken => /\ DirRecord(vol, rec.hdr_idx) /\ DirSector(vol, s) /\ rec.pos = PlaceIn(s)
                     /\ data = s
        BY <2>1 DEF IInv, RecordInv, DirRecord
    <2>3. /\ next \in Positions
          /\ next.in_cluster_ptr # ClusterSize => next.in_cluster_ptr < ClusterSize
        BY <1>2, <2>1, Places, Sizes
    <2>4. ~broken => /\ InDirs(vol, c)
                     /\ next.in_cluster_ptr # ClusterSize =>
                            DirSector(vol, next.sector) /\ next = PlaceIn(next.sector)
        <3> SUFFICES ASSUME ~broken
                     PROVE  /\ InDirs(vol, c)
                            /\ next.in_cluster_ptr # ClusterSize =>
                                    DirSector(vol, next.sector) /\ next = PlaceIn(next.sector)
            OBVIOUS
        <3>1. rec.pos = SetSector(s) /\ DirSector(vol, s)
            BY <1>2, <2>2, PlaceFacts
        <3>2. /\ InDirs(vol, c) /\ next.sector = s + 1
              /\ next.in_cluster_ptr = SetSector(s).in_cluster_ptr + 1
              /\ next.in_cluster_ptr # ClusterSize =>
                    DirSector(vol, s + 1) /\ next = SetSector(s + 1)
            BY <1>2, <3>1, SectorFacts
        <3> QED
            BY <1>2, <3>1, <3>2, PlaceFacts
    <2>5. e = Eoc \/ e \in Nat
        BY <1>2, AnyEntry
    <2>6. ~broken /\ LoadTable(c) /\ e # Eoc => InDirs(vol, e)
        BY <1>2, <2>4, EntryFacts, ChainFacts
    <2>7. tables /\ ~broken' => table_data' = table_sec_idx'
        BY <1>3, <1>4, TableFacts DEF CacheInv
    <2> HIDE DEF s, next, c, e, tables
    <2>8. ASSUME NEW pos \in Positions, pos.in_cluster_ptr < ClusterSize,
                 ~broken => DirSector(vol, pos.sector) /\ pos = PlaceIn(pos.sector),
                 moveTo(pos), tables
          PROVE  IInv'
        <3> DEFINE t == pos.sector  idx == (t * RecsPerSec) % Word
        <3>0. t \in Nat /\ idx \in Nat
            <4>1. t \in Nat
                BY DEF Positions
            <4>2. t * RecsPerSec \in Int
                BY <4>1, Sizes
            <4> HIDE DEF t
            <4> QED
                BY <4>1, <4>2, Sizes
        <3>1. ~broken => idx \div RecsPerSec = t /\ DirRecord(vol, idx)
            <4> SUFFICES ASSUME ~broken PROVE idx \div RecsPerSec = t /\ DirRecord(vol, idx)
                OBVIOUS
            <4>1. 0 \in 0 .. RecsPerSec - 1 /\ DirSector(vol, t)
                BY <2>8, Sizes
            <4>2. /\ (t * RecsPerSec + 0) \div RecsPerSec = t
                  /\ DirRecord(vol, t * RecsPerSec + 0)
                  /\ (t * RecsPerSec + 0) % Word = t * RecsPerSec + 0
                BY <1>2, <4>1, LocationFacts, LocationFits
            <4>3. t * RecsPerSec + 0 = t * RecsPerSec
                BY <3>0, Sizes
            <4> QED
                BY <4>2, <4>3
        <3> HIDE DEF t, idx
        <3>2. rec' \in [pos : Positions, hdr_idx : Nat] /\ rec'.pos = pos /\ rec'.hdr_idx = idx
            BY <2>8, <3>0 DEF idx, t
        <3>3. CacheInv'
            <4>1. t \in Int /\ (~broken => DirSector(vol, t)) /\ (LoadData(t) \/ LoadDataFail(t))
                BY <2>8, <3>0 DEF t
            <4> QED
                BY <1>2, <1>3, <1>4, <2>7, <2>8, <4>1, LoadFacts
        <3>4. CASE LoadData(t) /\ pc' = "decode" /\ ret' = ret
            <4>1. ~broken' => data' = t
                BY <1>4, <3>4, LoadedFacts
            <4>2. ~broken' => /\ DirRecord(vol, rec'.hdr_idx)
                              /\ rec'.pos = PlaceIn(rec'.hdr_idx \div RecsPerSec)
                              /\ data' = rec'.hdr_idx \div RecsPerSec
                BY <1>3, <2>8, <3>1, <3>2, <4>1 DEF t
            <4> QED
                BY <1>5, <2>8, <3>2, <3>3, <3>4, <4>2
        <3>5. CASE LoadDataFail(t)
            <4>1. pc' = "idle" /\ ret' = "D3"
                BY <3>5 DEF LoadDataFail, Return
            <4> QED
                BY <1>5, <3>2, <3>3, <4>1
        <3> QED
            BY <2>8, <3>4, <3>5 DEF t
    <2>9. CASE /\ ~SectorDone /\ rec' = [rec EXCEPT !.hdr_idx = @ + 1] /\ pc' = "decode"
               /\ UNCHANGED <<data, data_sec_idx, table_sec_idx, table_data, ret, broken>>
        <3>1. ~broken => /\ DirRecord(vol, rec.hdr_idx + 1)
                         /\ (rec.hdr_idx + 1) \div RecsPerSec = s
            BY <2>2, <2>9, NextLocation DEF SectorDone, s
        <3>2. /\ rec' \in [pos : Positions, hdr_idx : Nat] /\ rec'.pos = rec.pos
              /\ rec'.hdr_idx = rec.hdr_idx + 1
            BY <1>2, <1>4, <2>9
        <3>3. CacheInv'
            BY <1>3, <1>4, <2>9 DEF CacheInv
        <3> QED
            BY <1>5, <2>1, <2>2, <2>9, <3>1, <3>2, <3>3
    <2>10. CASE next.in_cluster_ptr # ClusterSize /\ moveTo(next) /\ tables
        BY <2>3, <2>4, <2>8, <2>10
    <2>11. CASE LoadTable(c) /\ e # Eoc /\ moveTo(SetCluster(e))
        <3> DEFINE q == SetCluster(e)
        <3>1. q \in Positions /\ q.in_cluster_ptr < ClusterSize
            BY <1>2, <2>5, <2>11, ClusterPlace
        <3>2. ~broken => DirSector(vol, q.sector) /\ q = PlaceIn(q.sector)
            BY <1>2, <2>5, <2>6, <2>11, ClusterPlace
        <3>3. tables
            BY <2>11 DEF tables
        <3> HIDE DEF q
        <3>4. moveTo(q)
            BY <2>11 DEF q
        <3> QED
            BY <2>8, <3>1, <3>2, <3>3, <3>4
    <2>12. CASE /\ rec' = [rec EXCEPT !.pos = next] /\ pc' = "idle" /\ ret' \in {"F3", "D3"}
                /\ UNCHANGED <<data, data_sec_idx>> /\ (tables \/ broken')
        <3>1. rec' \in [pos : Positions, hdr_idx : Nat]
            BY <1>4, <2>3, <2>12
        <3>2. CacheInv'
            BY <1>3, <1>4, <2>7, <2>12 DEF CacheInv
        <3> QED
            BY <1>5, <2>12, <3>1, <3>2
    <2> QED
        BY <1>8, <2>9, <2>10, <2>11, <2>12
           DEF NextRecord, Return, LoadTableFail, cache, tablecache, next, c, e, tables
<1> QED
    BY <1>6, <1>7, <1>8 DEF ReadRecord

LEMMA SearchStep == IInv /\ Search => IInv'
<1> SUFFICES ASSUME IInv, Search PROVE IInv'
    OBVIOUS
<1>1. UNCHANGED <<vol, data_entry, path, rec, data, data_sec_idx, table_sec_idx, table_data,
                  broken>>
    BY DEF Search, DirOpened, NoDir, TryEntry, NotFound, NextEntry, Found, FileOpened,
           NoFile, volume, search, cache, tablecache
<1>2. /\ data_entry = DataEntry /\ data_entry # 0 /\ vol \in Volumes /\ ~Mounting
    BY Sizes DEF Search, DirOpened, NoDir, TryEntry, NotFound, NextEntry, Found, FileOpened,
           NoFile, Decoded, IInv, MountInv, Mounting
<1>3. /\ TypeOK /\ dir \in Directories /\ dir.size \in 0 .. MaxRecords /\ i \in Nat
      /\ recordTable \in [0 .. MaxRecords - 1 -> Nat]
      /\ ~broken => \A n \in 0 .. MaxRecords - 1 :
            n < dir.size \/ (n = dir.size /\ skip) => DirRecord(vol, recordTable[n])
    BY Sizes DEF IInv, TypeOK, Directories, TableInv
<1>4. CacheInv' /\ path' \in Paths
    BY <1>1 DEF IInv, CacheInv
<1>5. ASSUME pc' \in {"idle", "try", "openrec", "load"} PROVE MountInv'
    BY <1>1, <1>2, <1>5, Kept DEF MountInv, Mounting
\* A return, and the entry that is tried next.
<1>6. ASSUME UNCHANGED <<k, hdr_idx, dir, skip, recordTable>>,
             i' \in 0 .. MaxRecords + RecsPerSec,
             why' \in {why, "match"}, pc' \in {"idle", "try", "openrec"},
             pc' = "try" => i' <= dir.size,
             pc' = "openrec" => why' = "match" /\ i' < dir.size,
             ret' \in {ret, "ok", "F0", "F5", "F6", "F7"}
      PROVE  IInv'
    <2>2. TypeOK'
        BY <1>1, <1>3, <1>6 DEF TypeOK
    <2>3. TableInv'
        BY <1>1, <1>3, <1>6 DEF TableInv, Scanning
    <2>4. Reading' => pc' = "openrec"
        BY <1>6 DEF Reading
    <2>5. RecordInv'
        BY <1>6, <2>4 DEF RecordInv, IInv
    <2> QED
        BY <1>4, <1>5, <1>6, <2>2, <2>3, <2>5 DEF IInv
<1>7. CASE NoDir \/ FileOpened \/ NoFile \/ NotFound
    <2>1. /\ UNCHANGED <<k, hdr_idx, dir, skip, recordTable, i, why>> /\ pc' = "idle"
          /\ ret' \in {"F6", "ok", "F5", "F0", "F7"}
        BY <1>7 DEF NoDir, FileOpened, NoFile, NotFound, Return, search, table
    <2>2. i \in 0 .. MaxRecords + RecsPerSec
        BY <1>3 DEF TypeOK
    <2> QED
        BY <1>6, <2>1, <2>2
<1>8. CASE TryEntry
    <2>1. /\ UNCHANGED <<k, hdr_idx, dir, skip, recordTable, i, ret>>
          /\ pc' = "openrec" /\ why' = "match" /\ i < dir.size
        BY <1>8 DEF TryEntry, search, table
    <2> QED
        BY <1>3, <1>6, <2>1 DEF TypeOK
<1>9. CASE NextEntry
    <2>1. /\ UNCHANGED <<k, hdr_idx, dir, skip, recordTable, why, ret>>
          /\ pc' = "try" /\ i' = i + 1 /\ pc = "decode" /\ why = "match"
        BY <1>9 DEF NextEntry, Decoded, AfterEntry, search, table
    <2>2. i < dir.size
        BY <2>1 DEF IInv, RecordInv, Reading
    <2>3. i' \in 0 .. MaxRecords + RecsPerSec /\ i' <= dir.size
        BY <1>3, <2>1, <2>2, Sizes
    <2> QED
        BY <1>6, <2>1, <2>3
<1>10. CASE DirOpened
    <2>1. Reading /\ why = "dir" /\ Current.k = "dir"
        BY <1>10 DEF DirOpened, Decoded, Reading
    <2>2. dir.size = 0
        BY <2>1 DEF IInv, RecordInv
    <2> DEFINE c == IF Current.cluster <= 2 THEN Root ELSE Current.cluster  q == SetCluster(c)
    <2>0. pc = "decode"
        BY <1>10 DEF DirOpened, Decoded
    <2>3. c \in Nat /\ (~broken => c \in DOMAIN vol.dirs)
        BY <1>2, <2>0, <2>1, ReadFacts, DirsFacts DEF Root
    <2> HIDE DEF c
    <2>4. /\ q \in Positions /\ q.in_cluster_ptr < ClusterSize
          /\ ~broken => DirSector(vol, q.sector) /\ q = PlaceIn(q.sector)
        BY <1>2, <2>3, FirstCluster, ClusterPlace
    <2>5. /\ UNCHANGED <<k, hdr_idx, skip, recordTable, i, why, ret>> /\ pc' = "load"
          /\ dir' = [dir EXCEPT !.pos = q]
        BY <1>10 DEF DirOpened, search, c
    <2> HIDE DEF q
    <2>6. dir' \in Directories /\ dir'.size = 0 /\ dir'.pos = q
        BY <1>3, <2>2, <2>4, <2>5 DEF Directories
    <2>7. TypeOK'
        BY <1>1, <1>3, <2>5, <2>6 DEF TypeOK
    <2>8. TableInv'
        BY <1>1, <1>3, <2>2, <2>4, <2>5, <2>6, Sizes DEF TableInv
    <2>9. RecordInv'
        BY <2>5 DEF IInv, RecordInv, Reading
    <2> QED
        BY <1>4, <1>5, <2>5, <2>7, <2>8, <2>9 DEF IInv
<1>11. CASE Found
    <2>1. Reading /\ why = "match" /\ ret' = ret
        BY <1>11 DEF Found, Decoded, Reading
    <2>2. Wanted \in Nat /\ (~broken => DirRecord(vol, Wanted))
        BY <2>1, ReadFacts
    <2>3. CASE k = Len(path)
        <3>1. /\ UNCHANGED <<k, dir, skip, recordTable, i>> /\ hdr_idx' = Wanted
              /\ why' = "file" /\ pc' = "openrec"
            BY <1>11, <2>3 DEF Found, table
        <3>2. TypeOK'
            BY <1>1, <1>3, <2>1, <3>1 DEF TypeOK
        <3>3. TableInv' /\ RecordInv'
            BY <1>1, <1>3, <2>2, <3>1 DEF TableInv, RecordInv, Scanning
        <3> QED
            BY <1>4, <1>5, <3>1, <3>2, <3>3 DEF IInv
    <2>4. CASE k # Len(path)
        <3>1. k' = k + 1 /\ OpenDir(Wanted)
            BY <1>11, <2>4 DEF Found
        <3>2. /\ dir' \in Directories /\ i' \in 0 .. MaxRecords + RecsPerSec
              /\ recordTable' \in [0 .. MaxRecords - 1 -> Nat]
              /\ pc' \in {"openrec", "load"} /\ why' = "dir"
              /\ TableInv' /\ RecordInv'
            BY <1>1, <1>2, <2>2, <3>1, OpenFacts
        <3>3. k' \in 1 .. Len(path)
            <4>1. Len(path) \in Nat
                <5>1. path \in Seq(Names)
                    BY DirAssumption DEF IInv
                <5> QED
                    BY <5>1
            <4> QED
                BY <1>3, <2>4, <3>1, <4>1 DEF TypeOK
        <3>4. TypeOK'
            BY <1>1, <1>3, <2>1, <3>2, <3>3 DEF TypeOK
        <3> QED
            BY <1>4, <1>5, <3>2, <3>4 DEF IInv
    <2> QED
        BY <2>3, <2>4
<1> QED
    BY <1>7, <1>8, <1>9, <1>10, <1>11 DEF Search

LEMMA Inductive == IInv /\ [Next]_vars => IInv'
<1>1. ASSUME IInv, UNCHANGED vars PROVE IInv'
    BY <1>1 DEF IInv, TypeOK, MountInv, CacheInv, TableInv, RecordInv, Mounting, Scanning,
        Reading, pbr_entry, HasPartition, vars, volume, search, table, cache, tablecache
<1> QED
    BY <1>1, MountStep, CallStep, ScanStep, AlongStep, ReadRecordStep, SearchStep
       DEF Next, Work, ReadDir

\* One buffer serves the boot sector, the directory, the records and the file;
\* whenever fat.c decodes a record it holds the sector the record is in, and
\* currentRecord.pos is that sector's place, from which the next one is found.
\* The table of locations is not overrun.
THEOREM RecordsDecodedInPlace == Spec => []BufferIsCurrent
<1>1. IInv => BufferIsCurrent
    <2> SUFFICES ASSUME IInv PROVE BufferIsCurrent
        OBVIOUS
    <2>1. ASSUME pc \in {"decode", "nextrec"}, ~broken
          PROVE  data = rec.hdr_idx \div RecsPerSec /\ rec.pos = SetSector(data)
        <3>1. data_entry = DataEntry
            BY <2>1, ReadFacts DEF Reading
        <3> QED
            BY <2>1, <3>1, PlaceFacts DEF IInv, MountInv, RecordInv, DirRecord
    <2> QED
        BY <2>1 DEF BufferIsCurrent, IInv
<1> QED
    BY <1>1, Initial, Inductive, PTL DEF Spec

-----------------------------------------------------------------------------
(* The second invariant: how far the search for the path's file has come.  *)
(* It speaks of a directory's records by number, whatever sectors they lie *)
(* in, and of the table as a list of entries in order.                     *)

Recs(v, c) == v.dirs[c].recs
ChainOf(v, c) == v.dirs[c].chain

\* What stands in front of a sector of directory c: b records.
ClusterIn(s) == ((s - DataEntry) \div ClusterSize) + 2
SectorOf(v, c, b, s) ==
    /\ s \in Nat /\ s >= DataEntry /\ c \in DOMAIN v.dirs
    /\ \E p \in DOMAIN ChainOf(v, c) :
        /\ ChainOf(v, c)[p] = ClusterIn(s)
        /\ b = (p - 1) * RecsPerCluster + ((s - DataEntry) % ClusterSize) * RecsPerSec

\* Where record n of directory c is.
IsRecord(v, c, n, idx) ==
    /\ idx \in Nat
    /\ SectorOf(v, c, (n - 1) - (idx % RecsPerSec), idx \div RecsPerSec)

IsEntry(r) == r.k \in {"file", "dir"}
UpTo(recs, q) == {m \in 1 .. q : IsEntry(recs[m])}
Rank(recs, m) == Cardinality(UpTo(recs, m - 1))

\* Records t to m - 1 are the pieces of entry m's name.
Starts(recs, t, m) ==
    /\ t \in 1 .. m
    /\ \A j \in t .. m - 1 : recs[j].k = "lfn"
    /\ IF t = m THEN ~HasLong(recs, m) ELSE recs[t].top

\* Entry m is read from a location on.
At(v, c, m, idx) == \E t \in 1 .. m : Starts(Recs(v, c), t, m) /\ IsRecord(v, c, t, idx)

\* The table tab has, in order and as its first size entries, a set of entries.
Lists(v, c, entries, size, tab) ==
    /\ \A m \in entries : Rank(Recs(v, c), m) < size
    /\ \A j \in 0 .. size - 1 :
        \E m \in entries : Rank(Recs(v, c), m) = j /\ At(v, c, m, tab[j])

\* A record is looked at where entry m is read.
ReadingOf(v, c, m) ==
    /\ pc = "openrec" => At(v, c, m, Wanted)
    /\ pc \in {"decode", "nextrec"} =>
        \E t \in 1 .. m, r \in 1 .. m :
            /\ Starts(Recs(v, c), t, m) /\ t <= r /\ IsRecord(v, c, r, rec.hdr_idx)
            /\ IsRecord(v, c, t, Wanted)
            /\ pc = "nextrec" => r < m
            /\ why = "match" =>
                name = IF pc = "nextrec" THEN Recs(v, c)[r].name
                       ELSE IF r = t THEN NoName ELSE Recs(v, c)[r - 1].name

IsFirst(v, c, nm, m) ==
    m \in Named(Recs(v, c), nm) /\ \A n \in Named(Recs(v, c), nm) : m <= n

Cur == Lookup(vol, path)[k - 1].cluster
InDir(n) == Lookup(vol, path)[n].res = "dir" /\ Lookup(vol, path)[n].cluster \in DOMAIN vol.dirs

\* Of the directory, q records have been looked at: the entries among them are
\* in the table, and in front of the next record may be a long name.
ScanAt(v, c, q, size, tab, long) ==
    /\ q \in 0 .. Len(Recs(v, c))
    /\ \A j \in 1 .. q : Recs(v, c)[j].k # "end"
    /\ size = Cardinality(UpTo(Recs(v, c), q))
    /\ Lists(v, c, UpTo(Recs(v, c), q), size, tab)
    /\ long <=> HasLong(Recs(v, c), q + 1)
    /\ long => \E t \in 1 .. q : /\ Recs(v, c)[t].k = "lfn" /\ Recs(v, c)[t].top
                                 /\ \A j \in t .. q : Recs(v, c)[j].k = "lfn"
                                 /\ IsRecord(v, c, t, tab[size])

ScanInv == Scanning =>
    /\ InDir(k - 1)
    /\ \E b \in 0 .. Len(Recs(vol, Cur)) :
        /\ SectorOf(vol, Cur, b, dir.pos.sector)
        /\ ScanAt(vol, Cur, b + (IF pc = "scan" THEN i ELSE 0), dir.size, recordTable, skip)
    /\ pc = "scan" => data_sec_idx = dir.pos.sector

Trying == pc = "try" \/ (Reading /\ why = "match")
TryInv == Trying =>
    /\ InDir(k - 1)
    /\ Lists(vol, Cur, Entries(Recs(vol, Cur)), dir.size, recordTable)
    /\ \A m \in Entries(Recs(vol, Cur)) :
        Rank(Recs(vol, Cur), m) < i => NameOf(Recs(vol, Cur), m) # path[k]
    /\ Reading => \E m \in Entries(Recs(vol, Cur)) :
        Rank(Recs(vol, Cur), m) = i /\ ReadingOf(vol, Cur, m)

OpenInv ==
    /\ Reading /\ why = "file" =>
        /\ InDir(k - 1) /\ k = Len(path)
        /\ \E m \in Entries(Recs(vol, Cur)) : IsFirst(vol, Cur, path[k], m) /\ ReadingOf(vol, Cur, m)
    /\ Reading /\ why = "dir" =>
        /\ k > 1 /\ InDir(k - 2) /\ skip = FALSE
        /\ LET c == Lookup(vol, path)[k - 2].cluster
           IN  \E m \in Entries(Recs(vol, c)) : IsFirst(vol, c, path[k - 1], m) /\ ReadingOf(vol, c, m)

FindInv ==
    /\ data_entry # 0 => IsFat32
    /\ Mounting => ret = "none"
    /\ ~broken => ScanInv /\ TryInv /\ OpenInv
    /\ FindsTheFile
-----------------------------------------------------------------------------
(* The directory a sector belongs to, and its records. *)

LEMMA RecordsFacts ==
    ASSUME vol \in Volumes, NEW c \in DOMAIN vol.dirs
    PROVE  /\ ChainOf(vol, c) \in Seq(Nat \ {0, 1}) /\ Len(ChainOf(vol, c)) \in Nat
           /\ DOMAIN ChainOf(vol, c) = 1 .. Len(ChainOf(vol, c))
           /\ ChainOf(vol, c)[1] = c /\ 1 \in DOMAIN ChainOf(vol, c)
           /\ Recs(vol, c) \in Seq(Record) /\ Len(Recs(vol, c)) \in Nat
           /\ DOMAIN Recs(vol, c) = 1 .. Len(Recs(vol, c))
           /\ Len(Recs(vol, c)) = Len(ChainOf(vol, c)) * RecsPerCluster
           /\ RecsPerCluster \in Nat
<1>1. /\ ChainOf(vol, c) \in Seq(Nat \ {0, 1}) /\ ChainOf(vol, c) # <<>> /\ ChainOf(vol, c)[1] = c
      /\ Recs(vol, c) \in Seq(Record)
      /\ Len(Recs(vol, c)) = Len(ChainOf(vol, c)) * RecsPerCluster
    BY DirsFacts DEF ChainOf, Recs
<1>2. RecsPerCluster \in Nat
    BY Sizes DEF RecsPerCluster
<1> QED
    BY <1>1, <1>2

\* A cluster is in one directory, at one place.
LEMMA OnePlace ==
    ASSUME vol \in Volumes, NEW c \in DOMAIN vol.dirs, NEW p \in DOMAIN ChainOf(vol, c),
           NEW cluster, ChainOf(vol, c)[p] = cluster
    PROVE  /\ HomeOf(cluster) = c /\ DirOf(cluster) = vol.dirs[c] /\ PlaceOf(cluster) = p
           /\ InDirs(vol, cluster)
<1>1. /\ \A c1, c2 \in DOMAIN vol.dirs :
            \A i1 \in DOMAIN vol.dirs[c1].chain, i2 \in DOMAIN vol.dirs[c2].chain :
                vol.dirs[c1].chain[i1] = vol.dirs[c2].chain[i2] => c1 = c2
      /\ \A i1, i2 \in DOMAIN vol.dirs[c].chain :
            vol.dirs[c].chain[i1] = vol.dirs[c].chain[i2] => i1 = i2
    BY VolumeAssumption, Zenon
<1>2. HomeOf(cluster) = c
    <2> DEFINE h == HomeOf(cluster)
    <2>1. h \in DOMAIN vol.dirs /\ \E n \in DOMAIN vol.dirs[h].chain : vol.dirs[h].chain[n] = cluster
        BY Zenon DEF HomeOf, ChainOf
    <2> HIDE DEF h
    <2>2. h = c
        BY <1>1, <2>1 DEF ChainOf
    <2> QED
        BY <2>2 DEF h
<1>3. DirOf(cluster) = vol.dirs[c]
    BY <1>2 DEF DirOf
<1>4. PlaceOf(cluster) = p
    <2>1. PlaceOf(cluster) \in DOMAIN vol.dirs[c].chain
          /\ vol.dirs[c].chain[PlaceOf(cluster)] = cluster
        BY <1>3, Zenon DEF PlaceOf, ChainOf
    <2> QED
        BY <1>1, <2>1 DEF ChainOf
<1> QED
    BY <1>2, <1>3, <1>4 DEF InDirs, ChainOf

LEMMA SectorHome ==
    ASSUME vol \in Volumes, NEW c, NEW b, NEW s, SectorOf(vol, c, b, s)
    PROVE  /\ c \in DOMAIN vol.dirs /\ DirSector(vol, s)
           /\ DirOf(ClusterIn(s)) = vol.dirs[c]
           /\ PlaceOf(ClusterIn(s)) \in 1 .. Len(ChainOf(vol, c))
           /\ ChainOf(vol, c)[PlaceOf(ClusterIn(s))] = ClusterIn(s)
           /\ (s - DataEntry) % ClusterSize \in 0 .. ClusterSize - 1
           /\ b = (PlaceOf(ClusterIn(s)) - 1) * RecsPerCluster
                  + ((s - DataEntry) % ClusterSize) * RecsPerSec
<1>1. PICK p \in DOMAIN ChainOf(vol, c) :
        /\ ChainOf(vol, c)[p] = ClusterIn(s)
        /\ b = (p - 1) * RecsPerCluster + ((s - DataEntry) % ClusterSize) * RecsPerSec
    BY Zenon DEF SectorOf
<1>2. s \in Nat /\ s >= DataEntry /\ c \in DOMAIN vol.dirs
    BY DEF SectorOf
<1>3. DirOf(ClusterIn(s)) = vol.dirs[c] /\ PlaceOf(ClusterIn(s)) = p /\ InDirs(vol, ClusterIn(s))
    BY <1>1, <1>2, OnePlace
<1>4. (s - DataEntry) % ClusterSize \in 0 .. ClusterSize - 1
    BY <1>2, Sizes, DivMod
<1> QED
    BY <1>1, <1>2, <1>3, <1>4, RecordsFacts DEF DirSector, ClusterIn

\* The records of a sector are in the directory's, behind the b in front.
LEMMA SectorRecords ==
    ASSUME vol \in Volumes, NEW c, NEW b, NEW s, SectorOf(vol, c, b, s)
    PROVE  /\ b \in Nat /\ b + RecsPerSec <= Len(Recs(vol, c)) /\ Len(Recs(vol, c)) \in Nat
           /\ \A n \in 0 .. RecsPerSec - 1 : RecordAt(s, n) = Recs(vol, c)[b + n + 1]
<1> DEFINE p == PlaceOf(ClusterIn(s))  r == (s - DataEntry) % ClusterSize
           L == Len(ChainOf(vol, c))
<1>1. /\ c \in DOMAIN vol.dirs /\ DirSector(vol, s) /\ DirOf(ClusterIn(s)) = vol.dirs[c]
      /\ p \in 1 .. L /\ r \in 0 .. ClusterSize - 1
      /\ b = (p - 1) * RecsPerCluster + r * RecsPerSec
    BY SectorHome
<1>2. L \in Nat /\ RecsPerCluster \in Nat /\ Len(Recs(vol, c)) = L * RecsPerCluster
      /\ Len(Recs(vol, c)) \in Nat
    BY <1>1, RecordsFacts
<1>3. ~(s < DataEntry) /\ InDirs(vol, ClusterIn(s))
    BY <1>1, Sizes DEF DirSector, ClusterIn
<1>4. \A n \in 0 .. RecsPerSec - 1 :
        RecordAt(s, n) = Recs(vol, c)[(p - 1) * RecsPerCluster + r * RecsPerSec + n + 1]
    BY <1>1, <1>3 DEF RecordAt, ClusterIn, Recs
<1> HIDE DEF p, r, L
<1>5. (r * RecsPerSec) \in Nat /\ (r * RecsPerSec) + RecsPerSec <= RecsPerCluster
    <2>1. r \in Nat /\ r + 1 \in Nat /\ r + 1 <= ClusterSize /\ ClusterSize \in Nat /\ RecsPerSec \in Nat
        BY <1>1, Sizes
    <2>2. r * RecsPerSec \in Nat /\ (r + 1) * RecsPerSec <= ClusterSize * RecsPerSec
        BY <2>1, Product
    <2>3. (r + 1) * RecsPerSec = (r * RecsPerSec) + RecsPerSec
        BY <2>1
    <2> QED
        BY <2>2, <2>3 DEF RecsPerCluster
<1>6. (p - 1) * RecsPerCluster \in Nat
      /\ ((p - 1) * RecsPerCluster) + RecsPerCluster <= L * RecsPerCluster
    <2>1. p - 1 \in Nat /\ p \in Nat /\ p <= L /\ p - 1 <= L
        BY <1>1, <1>2
    <2>2. (p - 1) * RecsPerCluster \in Nat /\ p * RecsPerCluster <= L * RecsPerCluster
        BY <1>2, <2>1, Product
    <2>3. p * RecsPerCluster = ((p - 1) * RecsPerCluster) + RecsPerCluster
        BY <1>2, <2>1
    <2> QED
        BY <2>2, <2>3
<1> DEFINE x == (p - 1) * RecsPerCluster  y == r * RecsPerSec
<1>7. b = x + y /\ x \in Nat /\ y \in Nat /\ y + RecsPerSec <= RecsPerCluster
      /\ x + RecsPerCluster <= Len(Recs(vol, c))
    BY <1>1, <1>2, <1>5, <1>6
<1>8. \A n \in 0 .. RecsPerSec - 1 : RecordAt(s, n) = Recs(vol, c)[x + y + n + 1]
    BY <1>4
<1> HIDE DEF x, y
<1> QED
    BY <1>2, <1>7, <1>8, Sizes

LEMMA LocationOf ==
    ASSUME vol \in Volumes, NEW c, NEW b, NEW s, SectorOf(vol, c, b, s),
           NEW n \in 0 .. RecsPerSec - 1
    PROVE  IsRecord(vol, c, b + n + 1, s * RecsPerSec + n)
<1>1. s \in Nat /\ b \in Nat /\ DirSector(vol, s)
    BY SectorHome, SectorRecords DEF DirSector
<1>2. /\ s * RecsPerSec = RecsPerSec * s /\ RecsPerSec * s \in Nat
      /\ (RecsPerSec * s + n) \div RecsPerSec = s /\ (RecsPerSec * s + n) % RecsPerSec = n
    BY <1>1, Sizes, DivModUnique
<1>3. ((b + n + 1) - 1) - n = b
    BY <1>1, Sizes
<1> QED
    BY <1>2, <1>3, Sizes DEF IsRecord

\* The record at a location.
LEMMA RecordThere ==
    ASSUME vol \in Volumes, NEW c, NEW n \in Nat, NEW idx, IsRecord(vol, c, n, idx)
    PROVE  /\ c \in DOMAIN vol.dirs /\ n \in 1 .. Len(Recs(vol, c)) /\ idx \in Nat /\ idx > 2
           /\ DirRecord(vol, idx)
           /\ RecordAt(idx \div RecsPerSec, idx % RecsPerSec) = Recs(vol, c)[n]
<1> DEFINE s == idx \div RecsPerSec  m == idx % RecsPerSec  b == (n - 1) - m
<1>1. /\ idx \in Nat /\ SectorOf(vol, c, b, s)
      /\ s \in Nat /\ m \in 0 .. RecsPerSec - 1 /\ idx = RecsPerSec * s + m
    BY Sizes, DivMod DEF IsRecord
<1>2. c \in DOMAIN vol.dirs /\ DirSector(vol, s)
    BY <1>1, SectorHome
<1>3. /\ b \in Nat /\ b + RecsPerSec <= Len(Recs(vol, c)) /\ Len(Recs(vol, c)) \in Nat
      /\ RecordAt(s, m) = Recs(vol, c)[b + m + 1]
    BY <1>1, SectorRecords
<1>4. b + m + 1 = n /\ n \in 1 .. Len(Recs(vol, c))
    <2> HIDE DEF m, s
    <2>1. b + m + 1 = n
        BY <1>1, Sizes
    <2> QED
        BY <1>1, <1>3, <2>1, Sizes
<1>6. idx > 2
    <2>1. s >= 2 /\ RecsPerSec >= 2 /\ s \in Nat /\ RecsPerSec \in Nat
        <3>1. s >= DataEntry /\ DataEntry >= 2 * ClusterSize /\ ClusterSize >= 1
              /\ ClusterSize \in Nat /\ DataEntry \in Nat
            BY <1>2, Sizes DEF DirSector
        <3>2. RecsPerSec \in Nat \ {0, 1}
            BY DirAssumption
        <3> HIDE DEF s
        <3> QED
            BY <1>1, <3>1, <3>2
    <2>2. 2 * RecsPerSec <= s * RecsPerSec
        BY <2>1, Product
    <2>3. s * RecsPerSec = RecsPerSec * s /\ RecsPerSec * s \in Nat
        BY <2>1
    <2> HIDE DEF s, m
    <2> QED
        BY <1>1, <2>1, <2>2, <2>3
<1>7. DirRecord(vol, idx)
    BY <1>1, <1>2 DEF DirRecord
<1> HIDE DEF b
<1> QED
    BY <1>1, <1>2, <1>3, <1>4, <1>6, <1>7

LEMMA FirstSector ==
    ASSUME vol \in Volumes, data_entry = DataEntry, NEW c \in DOMAIN vol.dirs
    PROVE  SectorOf(vol, c, 0, SetCluster(c).sector)
<1> DEFINE q == c - 2  s == SetCluster(c).sector
<1>1. InDirs(vol, c)
    BY FirstCluster
<1>2. c \in Nat /\ c >= 2 /\ DirSector(vol, s)
    BY <1>1, ChainFacts, ClusterFacts
<1>3. s = q * ClusterSize + DataEntry
    BY <1>1, ClusterFacts
<1>4. s - DataEntry = ClusterSize * q + 0 /\ q \in Nat
    <2>1. q * ClusterSize = ClusterSize * q /\ ClusterSize * q \in Nat /\ q \in Nat
        BY <1>2, Sizes
    <2> HIDE DEF q, s
    <2> QED
        BY <1>3, <2>1, Sizes
<1> HIDE DEF q, s
<1>5. (s - DataEntry) \div ClusterSize = q /\ (s - DataEntry) % ClusterSize = 0
    <2>1. (ClusterSize * q + 0) \div ClusterSize = q /\ (ClusterSize * q + 0) % ClusterSize = 0
        BY <1>4, Sizes, DivModUnique
    <2> QED
        BY <1>4, <2>1
<1>6. ClusterIn(s) = c
    BY <1>2, <1>5 DEF ClusterIn, q
<1>7. 1 \in DOMAIN ChainOf(vol, c) /\ ChainOf(vol, c)[1] = c
    BY RecordsFacts
<1>8. (1 - 1) * RecsPerCluster + 0 * RecsPerSec = 0
    BY Sizes, RecordsFacts
<1>9. s \in Nat /\ s >= DataEntry
    BY <1>2 DEF DirSector
<1>10. SectorOf(vol, c, 0, s)
    BY <1>5, <1>6, <1>7, <1>8, <1>9 DEF SectorOf
<1> QED
    BY <1>10 DEF s

\* The sector after it, in the same cluster or in the next, or the end.
LEMMA SectorAfter ==
    ASSUME vol \in Volumes, data_entry = DataEntry, NEW c, NEW b, NEW s,
           SectorOf(vol, c, b, s), NEW pos, pos = SetSector(s)
    PROVE  /\ NextSectorOf(pos).in_cluster_ptr # ClusterSize =>
                SectorOf(vol, c, b + RecsPerSec, NextSectorOf(pos).sector)
           /\ NextSectorOf(pos).in_cluster_ptr = ClusterSize =>
                IF IsLast(pos.cluster) THEN b + RecsPerSec = Len(Recs(vol, c))
                ELSE SectorOf(vol, c, b + RecsPerSec,
                              SetCluster(Following(pos.cluster)).sector)
<1> DEFINE p == PlaceOf(ClusterIn(s))  a == s - DataEntry  r == a % ClusterSize
           L == Len(ChainOf(vol, c))
<1>1. /\ c \in DOMAIN vol.dirs /\ DirSector(vol, s) /\ DirOf(ClusterIn(s)) = vol.dirs[c]
      /\ p \in 1 .. L /\ r \in 0 .. ClusterSize - 1 /\ ChainOf(vol, c)[p] = ClusterIn(s)
      /\ b = (p - 1) * RecsPerCluster + r * RecsPerSec
    BY SectorHome
<1>2. /\ NextSectorOf(pos).sector = s + 1 /\ NextSectorOf(pos).in_cluster_ptr = r + 1
      /\ pos.cluster = ClusterIn(s)
    BY <1>1, SectorFacts DEF ClusterIn
<1>3. s \in Nat /\ s >= DataEntry /\ a \in Nat
    BY <1>1, Sizes DEF DirSector
<1>4. L \in Nat /\ RecsPerCluster \in Nat /\ Len(Recs(vol, c)) = L * RecsPerCluster
      /\ DOMAIN ChainOf(vol, c) = 1 .. L
    BY <1>1, RecordsFacts
<1>5. CASE r + 1 # ClusterSize
    <2>1. (a + 1) \div ClusterSize = a \div ClusterSize /\ (a + 1) % ClusterSize = r + 1
        BY <1>3, <1>5, Sizes, NextInPart
    <2>2. (s + 1) - DataEntry = a + 1
        BY <1>3, Sizes
    <2>3. ClusterIn(s + 1) = ClusterIn(s)
        BY <2>1, <2>2 DEF ClusterIn
    <2>4. b + RecsPerSec = (p - 1) * RecsPerCluster + (((s + 1) - DataEntry) % ClusterSize) * RecsPerSec
        <3>1. (r + 1) * RecsPerSec = (r * RecsPerSec) + RecsPerSec /\ r * RecsPerSec \in Nat
            <4>1. r \in Nat /\ RecsPerSec \in Nat
                BY <1>1, Sizes
            <4> HIDE DEF r
            <4> QED
                BY <4>1
        <3>2. (p - 1) * RecsPerCluster \in Int
            BY <1>1, <1>4
        <3>3. ((s + 1) - DataEntry) % ClusterSize = r + 1
            BY <2>1, <2>2
        <3> DEFINE x == (p - 1) * RecsPerCluster  y == r * RecsPerSec
        <3>4. b = x + y /\ (r + 1) * RecsPerSec = y + RecsPerSec /\ x \in Int /\ y \in Nat
            BY <1>1, <3>1, <3>2
        <3>5. (((s + 1) - DataEntry) % ClusterSize) * RecsPerSec = y + RecsPerSec
            BY <3>3, <3>4
        <3> HIDE DEF y, r, a
        <3>6. b + RecsPerSec = x + (y + RecsPerSec)
            BY <3>4, Sizes
        <3> QED
            BY <3>5, <3>6 DEF x
    <2> HIDE DEF r, a
    <2>5. SectorOf(vol, c, b + RecsPerSec, s + 1)
        <3>1. s + 1 \in Nat /\ s + 1 >= DataEntry
            BY <1>3, Sizes
        <3>2. p \in DOMAIN ChainOf(vol, c) /\ ChainOf(vol, c)[p] = ClusterIn(s + 1)
            BY <1>1, <1>4, <2>3
        <3> HIDE DEF p
        <3> QED
            BY <1>1, <2>4, <3>1, <3>2, Zenon DEF SectorOf
    <2> QED
        BY <1>2, <1>5, <2>5
<1>6. CASE r + 1 = ClusterSize
    <2>1. b + RecsPerSec = p * RecsPerCluster
        <3>1. (r + 1) * RecsPerSec = (r * RecsPerSec) + RecsPerSec /\ r * RecsPerSec \in Nat
            BY <1>1, Sizes
        <3>2. p * RecsPerCluster = ((p - 1) * RecsPerCluster) + RecsPerCluster
              /\ (p - 1) * RecsPerCluster \in Int
            BY <1>1, <1>4
        <3> DEFINE x == (p - 1) * RecsPerCluster  y == r * RecsPerSec  z == p * RecsPerCluster
        <3>3. b = x + y /\ y + RecsPerSec = RecsPerCluster /\ z = x + RecsPerCluster
              /\ x \in Int /\ y \in Nat
            BY <1>1, <1>6, <3>1, <3>2 DEF RecsPerCluster
        <3> HIDE DEF x, y, z
        <3>4. b + RecsPerSec = z
            BY <3>3, Sizes
        <3> QED
            BY <3>4 DEF z
    <2>2. CASE IsLast(ClusterIn(s))
        <3>1. p = L
            BY <1>1, <2>2 DEF IsLast, ChainOf
        <3> QED
            BY <1>2, <1>4, <1>6, <2>1, <2>2, <3>1
    <2>3. CASE ~IsLast(ClusterIn(s))
        <3> DEFINE f == Following(ClusterIn(s))  t == SetCluster(f).sector
        <3>1. p # L
            BY <1>1, <2>3 DEF IsLast, ChainOf
        <3>2. f = ChainOf(vol, c)[p + 1] /\ p + 1 \in DOMAIN ChainOf(vol, c)
            <4>1. f = ChainOf(vol, c)[p + 1]
                BY <1>1 DEF Following, ChainOf
            <4> HIDE DEF p, L, r, a
            <4>2. p + 1 \in DOMAIN ChainOf(vol, c)
                BY <1>1, <1>4, <3>1
            <4> QED
                BY <4>1, <4>2
        <3>3. InDirs(vol, f)
            BY <1>1, <3>2, OnePlace
        <3>4. f \in Nat /\ f >= 2 /\ DirSector(vol, t)
            BY <3>3, ChainFacts, ClusterFacts
        <3>5. t = (f - 2) * ClusterSize + DataEntry
            BY <3>3, ClusterFacts
        <3> HIDE DEF f, t
        <3>6. t - DataEntry = ClusterSize * (f - 2) + 0 /\ f - 2 \in Nat
            <4> DEFINE q == f - 2
            <4>1. q * ClusterSize = ClusterSize * q /\ ClusterSize * q \in Nat /\ q \in Nat
                BY <3>4, Sizes
            <4>2. t = q * ClusterSize + DataEntry
                BY <3>5
            <4> HIDE DEF q
            <4>3. t - DataEntry = ClusterSize * q + 0
                BY <4>1, <4>2, Sizes
            <4> QED
                BY <4>1, <4>3 DEF q
        <3>7. (t - DataEntry) \div ClusterSize = f - 2 /\ (t - DataEntry) % ClusterSize = 0
            <4> DEFINE q == f - 2
            <4>1. t - DataEntry = ClusterSize * q + 0 /\ q \in Nat
                BY <3>6
            <4> HIDE DEF q
            <4>2. (ClusterSize * q + 0) \div ClusterSize = q /\ (ClusterSize * q + 0) % ClusterSize = 0
                BY <4>1, Sizes, DivModUnique
            <4> QED
                BY <4>1, <4>2 DEF q
        <3>8. ClusterIn(t) = f
            BY <3>4, <3>7 DEF ClusterIn
        <3>9. b + RecsPerSec = ((p + 1) - 1) * RecsPerCluster
                                + ((t - DataEntry) % ClusterSize) * RecsPerSec
            <4> HIDE DEF p, L, r, a
            <4>1. (p + 1) - 1 = p /\ 0 * RecsPerSec = 0 /\ p * RecsPerCluster \in Int
                BY <1>1, <1>4, Sizes
            <4> QED
                BY <2>1, <3>7, <4>1
        <3>10. t \in Nat /\ t >= DataEntry
            BY <3>4 DEF DirSector
        <3> HIDE DEF p, L, r, a
        <3>11. SectorOf(vol, c, b + RecsPerSec, t)
            BY <1>1, <3>2, <3>8, <3>9, <3>10, Zenon DEF SectorOf
        <3> QED
            BY <1>2, <1>6, <2>3, <3>11 DEF f, t
    <2> QED
        BY <2>2, <2>3
<1> QED
    BY <1>5, <1>6

\* The next record of a sector.
LEMMA RecordAfter ==
    ASSUME NEW c, NEW n \in Nat, NEW idx, IsRecord(vol, c, n, idx)
    PROVE  /\ (idx + 1) % RecsPerSec # 0 => IsRecord(vol, c, n + 1, idx + 1)
           /\ (idx + 1) % RecsPerSec = 0 => idx % RecsPerSec = RecsPerSec - 1
<1> DEFINE m == idx % RecsPerSec  s == idx \div RecsPerSec
<1>1. idx \in Nat /\ SectorOf(vol, c, (n - 1) - m, s) /\ s \in Nat /\ m \in 0 .. RecsPerSec - 1
      /\ idx = RecsPerSec * s + m
    BY Sizes, DivMod DEF IsRecord
<1>2. CASE m + 1 # RecsPerSec
    <2>1. (idx + 1) \div RecsPerSec = s /\ (idx + 1) % RecsPerSec = m + 1
        BY <1>1, <1>2, Sizes, NextInPart
    <2>2. ((n + 1) - 1) - (m + 1) = (n - 1) - m /\ m + 1 # 0 /\ idx + 1 \in Nat
        BY <1>1, Sizes
    <2> HIDE DEF m, s
    <2> QED
        BY <1>1, <2>1, <2>2 DEF IsRecord
<1>3. CASE m + 1 = RecsPerSec
    <2>1. RecsPerSec * (s + 1) = RecsPerSec * s + RecsPerSec /\ RecsPerSec * s \in Nat
        BY <1>1, Sizes
    <2>2. idx + 1 = RecsPerSec * (s + 1) + 0
        <3> HIDE DEF m, s
        <3> QED
            BY <1>1, <1>3, <2>1, Sizes
    <2>3. (idx + 1) % RecsPerSec = 0
        <3> DEFINE t == s + 1
        <3>1. t \in Nat /\ 0 \in 0 .. RecsPerSec - 1 /\ idx + 1 = RecsPerSec * t + 0
            BY <1>1, <2>2, Sizes
        <3> HIDE DEF t
        <3>2. (RecsPerSec * t + 0) % RecsPerSec = 0
            BY <3>1, Sizes, DivModUnique
        <3> QED
            BY <3>1, <3>2
    <2> HIDE DEF s
    <2> QED
        BY <1>1, <1>3, <2>3, Sizes
<1> QED
    BY <1>2, <1>3

-----------------------------------------------------------------------------
(* The entries of a directory, by number. *)

LEMMA UpToFacts ==
    ASSUME NEW recs, NEW q \in Nat
    PROVE  /\ IsFiniteSet(UpTo(recs, q)) /\ Cardinality(UpTo(recs, q)) \in Nat
           /\ UpTo(recs, q + 1) =
                IF IsEntry(recs[q + 1]) THEN UpTo(recs, q) \cup {q + 1} ELSE UpTo(recs, q)
           /\ Cardinality(UpTo(recs, q + 1)) =
                IF IsEntry(recs[q + 1]) THEN Cardinality(UpTo(recs, q)) + 1
                ELSE Cardinality(UpTo(recs, q))
<1>1. IsFiniteSet(1 .. q)
    BY FS_Interval
<1>2. UpTo(recs, q) \in SUBSET (1 .. q)
    BY DEF UpTo
<1>3. IsFiniteSet(UpTo(recs, q)) /\ Cardinality(UpTo(recs, q)) \in Nat
    BY <1>1, <1>2, FS_Subset, FS_CardinalityType
<1>4. UpTo(recs, q + 1) =
        IF IsEntry(recs[q + 1]) THEN UpTo(recs, q) \cup {q + 1} ELSE UpTo(recs, q)
    <2>1. \A m : m \in 1 .. q + 1 <=> m \in 1 .. q \/ m = q + 1
        OBVIOUS
    <2> QED
        BY <2>1 DEF UpTo
<1>5. q + 1 \notin UpTo(recs, q)
    BY DEF UpTo
<1> QED
    BY <1>3, <1>4, <1>5, FS_AddElement

LEMMA UpToEmpty ==
    ASSUME NEW recs
    PROVE  UpTo(recs, 0) = {} /\ Cardinality(UpTo(recs, 0)) = 0
BY FS_EmptySet DEF UpTo

\* Every entry has its rank, and the later one the higher.
LEMMA Ranks ==
    ASSUME NEW recs, NEW q \in Nat, NEW m \in UpTo(recs, q)
    PROVE  /\ Rank(recs, m) \in Nat /\ Rank(recs, m) < Cardinality(UpTo(recs, q))
           /\ \A n \in UpTo(recs, q) : n < m => Rank(recs, n) < Rank(recs, m)
<1>1. ASSUME NEW l \in Nat, NEW n \in UpTo(recs, l)
      PROVE  Rank(recs, n) \in Nat /\ Rank(recs, n) < Cardinality(UpTo(recs, l))
    <2>1. n \in 1 .. l /\ IsEntry(recs[n]) /\ n - 1 \in Nat /\ (n - 1) + 1 = n
        BY DEF UpTo
    <2>2. Cardinality(UpTo(recs, n)) = Rank(recs, n) + 1 /\ Rank(recs, n) \in Nat
        BY <2>1, UpToFacts DEF Rank
    <2>3. UpTo(recs, n) \in SUBSET UpTo(recs, l)
        BY <2>1 DEF UpTo
    <2>4. Cardinality(UpTo(recs, n)) <= Cardinality(UpTo(recs, l))
          /\ Cardinality(UpTo(recs, l)) \in Nat
        BY <2>3, UpToFacts, FS_Subset
    <2> QED
        BY <2>2, <2>4
<1>2. ASSUME NEW n \in UpTo(recs, q), n < m
      PROVE  Rank(recs, n) < Rank(recs, m)
    <2>1. m - 1 \in Nat /\ n \in UpTo(recs, m - 1)
        BY <1>2 DEF UpTo
    <2> QED
        BY <1>1, <2>1 DEF Rank
<1> QED
    BY <1>1, <1>2

\* The scan has seen every entry when it comes to the end mark, to the
\* directory's end, or has filled the table.
LEMMA AllEntries ==
    ASSUME NEW recs, NEW L \in Nat, DOMAIN recs = 1 .. L, NEW q \in 0 .. L,
           \A j \in 1 .. q : recs[j].k # "end",
           Cardinality(UpTo(recs, q)) <= MaxRecords,
           \/ q = L
           \/ q < L /\ recs[q + 1].k = "end"
           \/ Cardinality(UpTo(recs, q)) = MaxRecords
    PROVE  Entries(recs) = UpTo(recs, q)
<1> DEFINE ends == {n \in 1 .. L : recs[n].k = "end"}
           shown == {n \in 1 .. L : IsEntry(recs[n]) /\ \A e \in ends : n < e}
           Front(n) == {m \in shown : m < n}
<1>1. q \in Nat /\ q <= L /\ UpTo(recs, q) = {m \in 1 .. q : IsEntry(recs[m])}
    BY DEF UpTo
<1>2. Entries(recs) = {n \in shown : Cardinality(Front(n)) < MaxRecords}
    BY DEF Entries, IsEntry
<1>3. \A e \in ends : e \in Nat /\ e > q
    <2> SUFFICES ASSUME NEW e \in ends PROVE e > q
        OBVIOUS
    <2>1. e \in 1 .. L /\ recs[e].k = "end"
        OBVIOUS
    <2>2. e \notin 1 .. q
        BY <2>1
    <2> QED
        BY <1>1, <2>1, <2>2
<1>4. q < L /\ recs[q + 1].k = "end" => q + 1 \in ends
    BY <1>1
<1> HIDE DEF ends
<1>5. \A n \in 1 .. q : n \in 1 .. L /\ \A e \in ends : n < e
    BY <1>1, <1>3
<1>6. \A n \in 1 .. q : n \in shown <=> IsEntry(recs[n])
    BY <1>5
<1>7. \A n \in shown : n \in 1 .. L
    OBVIOUS
<1>8. q + 1 \in ends => \A n \in shown : n \in 1 .. q
    BY <1>1, <1>7
<1> HIDE DEF shown
<1>9. UpTo(recs, q) = {n \in shown : n <= q}
    <2>1. \A n : n \in 1 .. q => n <= q
        BY <1>1
    <2>2. \A n : n \in 1 .. L /\ n <= q => n \in 1 .. q
        BY <1>1
    <2> QED
        BY <1>1, <1>6, <1>7, <2>1, <2>2, Zenon
<1>10. ASSUME NEW n \in shown, n <= q PROVE Front(n) = UpTo(recs, n - 1)
    <2>1. n \in 1 .. q
        BY <1>1, <1>7, <1>10
    <2>2. \A m \in 1 .. L : m < n => m \in 1 .. n - 1 /\ m \in 1 .. q
        BY <1>1, <2>1
    <2>3. \A m \in 1 .. n - 1 : m < n /\ m \in 1 .. q
        BY <1>1, <2>1
    <2>4. UpTo(recs, n - 1) = {m \in 1 .. n - 1 : IsEntry(recs[m])}
        BY DEF UpTo
    <2> QED
        BY <1>6, <1>7, <2>2, <2>3, <2>4, Zenon
<1>11. ASSUME NEW n \in shown, ~(n <= q) PROVE UpTo(recs, q) \in SUBSET Front(n)
    <2>1. \A m \in 1 .. q : m < n
        BY <1>1, <1>7, <1>11
    <2> QED
        BY <1>1, <1>6, <2>1, Zenon
<1>12. \A n : IsFiniteSet(Front(n)) /\ Cardinality(Front(n)) \in Nat
    <2>1. IsFiniteSet(1 .. L)
        BY FS_Interval
    <2>2. \A n : Front(n) \in SUBSET (1 .. L)
        BY <1>7
    <2> HIDE DEF Front
    <2> QED
        BY <2>1, <2>2, FS_Subset, FS_CardinalityType
<1>13. Cardinality(UpTo(recs, q)) \in Nat
    BY <1>1, UpToFacts
<1>14. ASSUME NEW n \in UpTo(recs, q) PROVE n \in Entries(recs)
    <2>1. n \in shown /\ n <= q
        BY <1>9
    <2>2. Rank(recs, n) < Cardinality(UpTo(recs, q)) /\ Rank(recs, n) \in Nat
        BY <1>1, Ranks
    <2>3. Cardinality(Front(n)) = Rank(recs, n)
        BY <1>10, <2>1 DEF Rank
    <2> HIDE DEF Front
    <2>4. Cardinality(Front(n)) < MaxRecords
        BY <1>13, <2>2, <2>3, Sizes
    <2> QED
        BY <1>2, <2>1, <2>4
<1>15. ASSUME NEW n \in Entries(recs) PROVE n \in UpTo(recs, q)
    <2>1. n \in shown /\ Cardinality(Front(n)) < MaxRecords
        BY <1>2
    <2>2. CASE n <= q
        BY <1>9, <2>1, <2>2
    <2>3. CASE ~(n <= q)
        <3>1. Cardinality(UpTo(recs, q)) = MaxRecords
            <4>1. q # L
                BY <1>1, <1>7, <2>1, <2>3
            <4>2. q + 1 \notin ends
                BY <1>1, <1>8, <2>1, <2>3
            <4> QED
                BY <1>4, <4>1, <4>2
        <3>2. UpTo(recs, q) \in SUBSET Front(n)
            BY <1>11, <2>1, <2>3
        <3>3. IsFiniteSet(Front(n)) /\ Cardinality(Front(n)) \in Nat
            BY <1>12
        <3> HIDE DEF Front
        <3>4. Cardinality(UpTo(recs, q)) <= Cardinality(Front(n))
            BY <3>2, <3>3, FS_Subset
        <3> QED
            BY <2>1, <3>1, <3>3, <3>4, Sizes
    <2> QED
        BY <2>2, <2>3
<1> QED
    BY <1>14, <1>15

LEMMA EntryKind ==
    ASSUME NEW recs \in Seq(Record), NEW m \in Entries(recs)
    PROVE  m \in 1 .. Len(recs) /\ IsEntry(recs[m])
BY DEF Entries, IsEntry
-----------------------------------------------------------------------------
(* What a path names, component by component. *)

LEMMA LeastNumber ==
    ASSUME NEW N \in SUBSET Nat, N # {}
    PROVE  \E n \in N : \A m \in N : n <= m
<1> DEFINE R == {ss \in Nat \X Nat : ss[1] < ss[2]}
<1>1. IsWellFoundedOn(R, Nat)
    BY NatLessThanWellFounded DEF OpToRel
<1>2. \A x \in Nat, y \in Nat : <<y, x>> \in R <=> y < x
    OBVIOUS
<1> HIDE DEF R
<1>3. PICK n \in N : \A m \in N : ~(<<m, n>> \in R)
    BY <1>1, WFMin
<1>4. \A m \in N : ~(m < n)
    BY <1>2, <1>3
<1>5. \A m \in N : n <= m
    BY <1>4
<1> QED
    BY <1>5

\* There is such a function: were there a first number it does not reach, it
\* would reach the one before.
LEMMA LookupSteps ==
    ASSUME NEW v, NEW p, Len(p) \in Nat
    PROVE  /\ Lookup(v, p)[0] = [res |-> "dir", cluster |-> Root]
           /\ \A n \in 1 .. Len(p) : Lookup(v, p)[n] = Within(v, Lookup(v, p)[n - 1], p, n)
<1> DEFINE L == Len(p)
           start == [res |-> "dir", cluster |-> Root]
           Steps(f, l) == [n \in 0 .. l |-> IF n = 0 THEN start ELSE Within(v, f[n - 1], p, n)]
           N == {l \in 0 .. L : ~ \E f : f = Steps(f, l)}
<1>1. N = {}
    <2> SUFFICES ASSUME N # {} PROVE FALSE
        OBVIOUS
    <2>1. N \in SUBSET Nat
        OBVIOUS
    <2>2. PICK l \in N : \A m \in N : l <= m
        BY <2>1, LeastNumber, Zenon
    <2>3. l # 0
        <3> SUFFICES ASSUME l = 0 PROVE FALSE
            OBVIOUS
        <3> DEFINE g == [n \in 0 .. 0 |-> start]
        <3>1. g = Steps(g, 0)
            OBVIOUS
        <3> QED
            BY <3>1
    <2>4. l \in Nat /\ l - 1 \in 0 .. L /\ l - 1 \notin N
        <3>1. N \in SUBSET (0 .. L)
            BY Zenon
        <3> HIDE DEF N
        <3> QED
            BY <2>2, <2>3, <3>1
    <2>5. PICK f : f = Steps(f, l - 1)
        BY <2>4
    <2> DEFINE g == [n \in 0 .. l |-> IF n = l THEN Within(v, f[l - 1], p, l) ELSE f[n]]
    <2>6. g = Steps(g, l)
        <3> SUFFICES ASSUME NEW n \in 0 .. l
                     PROVE  g[n] = IF n = 0 THEN start ELSE Within(v, g[n - 1], p, n)
            BY Zenon
        <3>1. CASE n = l
            <4>1. l - 1 \in 0 .. l /\ l - 1 # l
                BY <2>3, <2>4
            <4>2. g[l - 1] = f[l - 1] /\ g[l] = Within(v, f[l - 1], p, l)
                BY <4>1, <2>4
            <4> HIDE DEF g
            <4> QED
                BY <2>3, <3>1, <4>2
        <3>2. CASE n # l
            <4>1. n \in 0 .. l - 1 /\ (n # 0 => n - 1 \in 0 .. l /\ n - 1 # l)
                BY <2>4, <3>2
            <4>2. g[n] = f[n] /\ (n # 0 => g[n - 1] = f[n - 1])
                BY <3>2, <4>1
            <4>3. Steps(f, l - 1)[n] = IF n = 0 THEN start ELSE Within(v, f[n - 1], p, n)
                BY <4>1
            <4>4. f[n] = IF n = 0 THEN start ELSE Within(v, f[n - 1], p, n)
                BY <2>5, <4>3, Zenon
            <4> HIDE DEF g, start
            <4> QED
                BY <4>2, <4>4
        <3> QED
            BY <3>1, <3>2
    <2> QED
        BY <2>2, <2>6
<1>2. L \in 0 .. L
    OBVIOUS
<1>3. \E f : f = Steps(f, L)
    BY <1>1, <1>2
<1>4. Lookup(v, p) = CHOOSE f : f = Steps(f, L)
    BY DEF Lookup
<1> DEFINE at == Lookup(v, p)
<1> HIDE DEF Steps
<1>5. at = Steps(at, L)
    BY <1>3, <1>4, Zenon
<1> HIDE DEF at
<1>6. /\ Steps(at, L)[0] = start
      /\ \A n \in 1 .. L : Steps(at, L)[n] = Within(v, at[n - 1], p, n)
    BY DEF Steps
<1> HIDE DEF Steps, L, start
<1>7. at[0] = start /\ \A n \in 1 .. L : at[n] = Within(v, at[n - 1], p, n)
    BY <1>5, <1>6, Zenon
<1> QED
    BY <1>7 DEF at, L, start

\* What has gone wrong stays so.
LEMMA LookupStays ==
    ASSUME NEW v, NEW p, Len(p) \in Nat, NEW n \in 0 .. Len(p),
           Lookup(v, p)[n].res \notin {"dir", "file"}
    PROVE  Lookup(v, p)[Len(p)] = Lookup(v, p)[n]
<1> DEFINE at == Lookup(v, p)  L == Len(p)
           N == {m \in n .. L : at[m] # at[n]}
<1>1. \A m \in 1 .. L : at[m] = Within(v, at[m - 1], p, m)
    BY LookupSteps
<1> HIDE DEF at
<1>2. N = {}
    <2> SUFFICES ASSUME N # {} PROVE FALSE
        OBVIOUS
    <2>1. N \in SUBSET Nat
        OBVIOUS
    <2>2. PICK m \in N : \A l \in N : m <= l
        BY <2>1, LeastNumber, Zenon
    <2>3. m \in 1 .. L /\ m - 1 \in n .. L /\ m - 1 \notin N
        BY <2>2
    <2>4. at[m - 1] = at[n] /\ at[m] = Within(v, at[m - 1], p, m)
        BY <1>1, <2>3
    <2>5. at[m] = at[n]
        BY <2>4 DEF Within, at
    <2> QED
        BY <2>2, <2>5
<1>3. L \in n .. L
    OBVIOUS
<1> QED
    BY <1>2, <1>3 DEF at

LEMMA LookupFile ==
    ASSUME NEW v, NEW p, Len(p) \in Nat, NEW n \in 0 .. Len(p) - 1,
           Lookup(v, p)[n].res = "file"
    PROVE  Lookup(v, p)[Len(p)].res = "F6"
<1>1. n + 1 \in 1 .. Len(p) /\ n + 1 \in 0 .. Len(p) /\ (n + 1) - 1 = n
    OBVIOUS
<1>2. Lookup(v, p)[n + 1].res = "F6"
    <2>1. Lookup(v, p)[n + 1] = Within(v, Lookup(v, p)[n], p, n + 1)
        BY <1>1, LookupSteps
    <2> QED
        BY <2>1 DEF Within
<1> QED
    BY <1>1, <1>2, LookupStays

\* The first entry of the name is the one it stands for.
LEMMA FirstIsNamed ==
    ASSUME NEW v, NEW c, NEW nm, NEW m, IsFirst(v, c, nm, m),
           Recs(v, c) \in Seq(Record)
    PROVE  FirstNamed(Recs(v, c), nm) = m /\ Named(Recs(v, c), nm) # {}
<1> DEFINE N == Named(Recs(v, c), nm)
<1>1. m \in N /\ \A n \in N : m <= n
    BY DEF IsFirst
<1>2. \A n \in N : n \in Nat
    <2>1. DOMAIN Recs(v, c) = 1 .. Len(Recs(v, c)) /\ Len(Recs(v, c)) \in Nat
        OBVIOUS
    <2> QED
        BY <2>1 DEF Named, Entries
<1>3. FirstNamed(Recs(v, c), nm) = CHOOSE n \in N : \A l \in N : n <= l
    BY DEF FirstNamed
<1> HIDE DEF N
<1> DEFINE f == CHOOSE n \in N : \A l \in N : n <= l
<1>4. f \in N /\ \A l \in N : f <= l
    BY <1>1, Zenon
<1> HIDE DEF f
<1>5. f = m
    BY <1>1, <1>2, <1>4
<1> QED
    BY <1>1, <1>3, <1>5 DEF f, N

\* The next component.
LEMMA LookupFound ==
    ASSUME vol \in Volumes, Len(path) \in Nat, NEW n \in 0 .. Len(path) - 1, InDir(n),
           NEW m, IsFirst(vol, Lookup(vol, path)[n].cluster, path[n + 1], m)
    PROVE  LET r == Recs(vol, Lookup(vol, path)[n].cluster)[m]
           IN  /\ Lookup(vol, path)[n + 1] = [res |-> r.k, cluster |-> r.cluster]
               /\ r.k \in {"file", "dir"}
               /\ r.k = "dir" => InDir(n + 1)
<1> DEFINE c == Lookup(vol, path)[n].cluster  recs == Recs(vol, c)
<1>1. n + 1 \in 1 .. Len(path) /\ (n + 1) - 1 = n
    OBVIOUS
<1>2. c \in DOMAIN vol.dirs /\ Lookup(vol, path)[n].res = "dir"
    BY DEF InDir
<1>3. recs \in Seq(Record)
    BY <1>2, RecordsFacts
<1>4. FirstNamed(recs, path[n + 1]) = m /\ Named(recs, path[n + 1]) # {}
    BY <1>3, FirstIsNamed
<1>5. Lookup(vol, path)[n + 1] = Within(vol, Lookup(vol, path)[n], path, n + 1)
    BY <1>1, LookupSteps
<1>6. Within(vol, Lookup(vol, path)[n], path, n + 1)
        = [res |-> recs[m].k, cluster |-> recs[m].cluster]
    BY <1>2, <1>4 DEF Within, Recs
<1>7. m \in 1 .. Len(recs) /\ recs[m].k \in {"file", "dir"} /\ m \in DOMAIN recs
    <2>1. m \in Entries(recs)
        BY DEF IsFirst, Named
    <2> QED
        BY <1>3, <2>1, EntryKind DEF IsEntry
<1>8. recs[m].k = "dir" => recs[m].cluster \in DOMAIN vol.dirs
    BY <1>2, <1>7, DirsFacts DEF Recs
<1> HIDE DEF c, recs
<1> QED
    BY <1>5, <1>6, <1>7, <1>8 DEF InDir, c, recs

LEMMA LookupNone ==
    ASSUME vol \in Volumes, Len(path) \in Nat, NEW n \in 0 .. Len(path) - 1, InDir(n),
           Named(Recs(vol, Lookup(vol, path)[n].cluster), path[n + 1]) = {}
    PROVE  Lookup(vol, path)[Len(path)].res = IF n + 1 = Len(path) THEN "F0" ELSE "F7"
<1>1. n + 1 \in 1 .. Len(path) /\ (n + 1) - 1 = n /\ n + 1 \in 0 .. Len(path)
    OBVIOUS
<1>2. Lookup(vol, path)[n + 1] = Within(vol, Lookup(vol, path)[n], path, n + 1)
    BY <1>1, LookupSteps
<1>3. Lookup(vol, path)[n + 1].res = IF n + 1 = Len(path) THEN "F0" ELSE "F7"
    BY <1>2 DEF Within, InDir, Recs
<1> QED
    BY <1>1, <1>3, LookupStays

\* A long name begins with the record in front, or goes on in it.
LEMMA HasLongStep ==
    ASSUME NEW recs, NEW q \in Nat
    PROVE  /\ HasLong(recs, q + 2) <=>
                recs[q + 1].k = "lfn" /\ (recs[q + 1].top \/ HasLong(recs, q + 1))
           /\ ~HasLong(recs, 1)
<1>1. ~HasLong(recs, 1)
    BY DEF HasLong
<1>2. ASSUME HasLong(recs, q + 2)
      PROVE  recs[q + 1].k = "lfn" /\ (recs[q + 1].top \/ HasLong(recs, q + 1))
    <2>1. PICK t \in 1 .. (q + 2) - 1 :
            recs[t].k = "lfn" /\ recs[t].top /\ \A m \in t .. (q + 2) - 1 : recs[m].k = "lfn"
        BY <1>2 DEF HasLong
    <2>2. q + 1 \in t .. (q + 2) - 1
        OBVIOUS
    <2>3. t = q + 1 \/ (t \in 1 .. (q + 1) - 1 /\ \A m \in t .. (q + 1) - 1 : m \in t .. (q + 2) - 1)
        OBVIOUS
    <2> QED
        BY <2>1, <2>2, <2>3 DEF HasLong
<1>3. ASSUME recs[q + 1].k = "lfn", recs[q + 1].top \/ HasLong(recs, q + 1)
      PROVE  HasLong(recs, q + 2)
    <2>1. CASE recs[q + 1].top
        <3>1. q + 1 \in 1 .. (q + 2) - 1 /\ \A m \in q + 1 .. (q + 2) - 1 : m = q + 1
            OBVIOUS
        <3> QED
            BY <1>3, <2>1, <3>1 DEF HasLong
    <2>2. CASE HasLong(recs, q + 1)
        <3>1. PICK t \in 1 .. (q + 1) - 1 :
                recs[t].k = "lfn" /\ recs[t].top /\ \A m \in t .. (q + 1) - 1 : recs[m].k = "lfn"
            BY <2>2 DEF HasLong
        <3>2. t \in 1 .. (q + 2) - 1
              /\ \A m \in t .. (q + 2) - 1 : m \in t .. (q + 1) - 1 \/ m = q + 1
            OBVIOUS
        <3> QED
            BY <1>3, <3>1, <3>2 DEF HasLong
    <2> QED
        BY <1>3, <2>1, <2>2
<1> QED
    BY <1>1, <1>2, <1>3

-----------------------------------------------------------------------------
(* Reading a directory, record by record. *)

\* What a table lists it still does with another location put behind.
LEMMA ListsKept ==
    ASSUME NEW v, NEW c, NEW E, NEW size \in Nat, NEW tab \in [0 .. MaxRecords - 1 -> Nat],
           Lists(v, c, E, size, tab), size < MaxRecords, NEW idx \in Nat
    PROVE  /\ Lists(v, c, E, size, [tab EXCEPT ![size] = idx])
           /\ [tab EXCEPT ![size] = idx][size] = idx
<1> DEFINE new == [tab EXCEPT ![size] = idx]
<1>1. \A j \in 0 .. size - 1 : new[j] = tab[j]
    BY Sizes
<1>2. new[size] = idx
    BY Sizes
<1> HIDE DEF new
<1> QED
    BY <1>1, <1>2 DEF Lists, new

LEMMA ScanDone ==
    ASSUME vol \in Volumes, NEW c \in DOMAIN vol.dirs, NEW q, NEW size, NEW tab, NEW long,
           ScanAt(vol, c, q, size, tab, long), size <= MaxRecords,
           \/ q = Len(Recs(vol, c))
           \/ q < Len(Recs(vol, c)) /\ Recs(vol, c)[q + 1].k = "end"
           \/ size = MaxRecords
    PROVE  Lists(vol, c, Entries(Recs(vol, c)), size, tab)
<1> DEFINE recs == Recs(vol, c)
<1>1. Len(recs) \in Nat /\ DOMAIN recs = 1 .. Len(recs)
    BY RecordsFacts
<1>2. /\ q \in 0 .. Len(recs) /\ (\A j \in 1 .. q : recs[j].k # "end")
      /\ size = Cardinality(UpTo(recs, q)) /\ Lists(vol, c, UpTo(recs, q), size, tab)
    BY DEF ScanAt
<1>3. Entries(recs) = UpTo(recs, q)
    <2> HIDE DEF recs
    <2>1. q = Len(recs) \/ (q < Len(recs) /\ recs[q + 1].k = "end") \/ size = MaxRecords
        BY DEF recs
    <2> QED
        BY <1>1, <1>2, <2>1, AllEntries
<1> QED
    BY <1>2, <1>3

\* A record that is neither an entry nor a piece of a name.
LEMMA ScanPassed ==
    ASSUME vol \in Volumes, NEW c \in DOMAIN vol.dirs, NEW q, NEW size, NEW tab, NEW long,
           ScanAt(vol, c, q, size, tab, long), q < Len(Recs(vol, c)),
           Recs(vol, c)[q + 1].k \in {"del", "hidden"}
    PROVE  ScanAt(vol, c, q + 1, size, tab, FALSE)
<1> DEFINE recs == Recs(vol, c)
<1>1. q \in Nat /\ q + 1 \in 0 .. Len(recs)
    BY RecordsFacts DEF ScanAt
<1>2. UpTo(recs, q + 1) = UpTo(recs, q)
    BY <1>1, UpToFacts DEF IsEntry
<1>3. ~HasLong(recs, (q + 1) + 1)
    <2>1. (q + 1) + 1 = q + 2
        BY <1>1
    <2> QED
        BY <1>1, <2>1, HasLongStep
<1>4. \A j \in 1 .. q + 1 : j \in 1 .. q \/ j = q + 1
    BY <1>1
<1>5. \A j \in 1 .. q + 1 : recs[j].k # "end"
    BY <1>4 DEF ScanAt
<1> QED
    BY <1>1, <1>2, <1>3, <1>5 DEF ScanAt

\* A piece of a name.
LEMMA ScanPiece ==
    ASSUME vol \in Volumes, NEW c \in DOMAIN vol.dirs, NEW q, NEW size, NEW long,
           NEW tab \in [0 .. MaxRecords - 1 -> Nat],
           ScanAt(vol, c, q, size, tab, long), q < Len(Recs(vol, c)), size < MaxRecords,
           Recs(vol, c)[q + 1].k = "lfn",
           NEW idx \in Nat, IsRecord(vol, c, q + 1, idx)
    PROVE  IF Recs(vol, c)[q + 1].top
           THEN ScanAt(vol, c, q + 1, size, [tab EXCEPT ![size] = idx], TRUE)
           ELSE ScanAt(vol, c, q + 1, size, tab, long)
<1> DEFINE recs == Recs(vol, c)
           new == [tab EXCEPT ![size] = idx]
<1>1. q \in Nat /\ q + 1 \in 0 .. Len(recs) /\ q + 1 \in 1 .. q + 1
    BY RecordsFacts DEF ScanAt
<1>2. UpTo(recs, q + 1) = UpTo(recs, q) /\ size = Cardinality(UpTo(recs, q)) /\ size \in Nat
    BY <1>1, UpToFacts DEF IsEntry, ScanAt
<1>3. HasLong(recs, (q + 1) + 1) <=> (recs[q + 1].top \/ HasLong(recs, q + 1))
    <2>1. (q + 1) + 1 = q + 2
        BY <1>1
    <2> QED
        BY <1>1, <2>1, HasLongStep
<1>4. \A j \in 1 .. q + 1 : j \in 1 .. q \/ j = q + 1
    BY <1>1
<1>5. \A j \in 1 .. q + 1 : recs[j].k # "end"
    BY <1>4 DEF ScanAt
<1>6. Lists(vol, c, UpTo(recs, q), size, tab)
    BY DEF ScanAt
<1>7. CASE recs[q + 1].top
    <2>1. Lists(vol, c, UpTo(recs, q), size, new) /\ new[size] = idx
        <3> DEFINE E == UpTo(recs, q)
        <3>1. Lists(vol, c, E, size, tab) /\ size \in Nat
            BY <1>2, <1>6
        <3> HIDE DEF E
        <3>2. Lists(vol, c, E, size, new)
            BY <3>1, ListsKept
        <3>3. new[size] = idx
            BY <3>1, Sizes
        <3> QED
            BY <3>2, <3>3 DEF E
    <2>2. \A j \in q + 1 .. q + 1 : j = q + 1
        BY <1>1
    <2> HIDE DEF new
    <2>3. ScanAt(vol, c, q + 1, size, new, TRUE)
        BY <1>1, <1>2, <1>3, <1>5, <1>7, <2>1, <2>2 DEF ScanAt
    <2> QED
        BY <1>7, <2>3 DEF new
<1>8. CASE ~recs[q + 1].top
    <2>1. ASSUME long
          PROVE  \E t \in 1 .. q + 1 :
                    /\ recs[t].k = "lfn" /\ recs[t].top
                    /\ \A j \in t .. q + 1 : recs[j].k = "lfn"
                    /\ IsRecord(vol, c, t, tab[size])
        <3>1. PICK t \in 1 .. q :
                /\ recs[t].k = "lfn" /\ recs[t].top
                /\ \A j \in t .. q : recs[j].k = "lfn"
                /\ IsRecord(vol, c, t, tab[size])
            BY <2>1 DEF ScanAt
        <3>2. t \in 1 .. q + 1 /\ \A j \in t .. q + 1 : j \in t .. q \/ j = q + 1
            BY <1>1
        <3> QED
            BY <3>1, <3>2
    <2>2. long <=> HasLong(recs, q + 1)
        BY DEF ScanAt
    <2>3. ScanAt(vol, c, q + 1, size, tab, long)
        BY <1>1, <1>2, <1>3, <1>5, <1>6, <1>8, <2>1, <2>2 DEF ScanAt
    <2> QED
        BY <1>8, <2>3
<1> QED
    BY <1>7, <1>8

\* An entry: its location is its own or that of its name.
LEMMA ScanListed ==
    ASSUME vol \in Volumes, NEW c \in DOMAIN vol.dirs, NEW q, NEW size, NEW long,
           NEW tab \in [0 .. MaxRecords - 1 -> Nat],
           ScanAt(vol, c, q, size, tab, long), q < Len(Recs(vol, c)), size < MaxRecords,
           Recs(vol, c)[q + 1].k \in {"file", "dir"},
           NEW idx \in Nat, IsRecord(vol, c, q + 1, idx)
    PROVE  ScanAt(vol, c, q + 1, size + 1,
                  IF long THEN tab ELSE [tab EXCEPT ![size] = idx], FALSE)
<1> DEFINE recs == Recs(vol, c)
           new == IF long THEN tab ELSE [tab EXCEPT ![size] = idx]
<1>1. q \in Nat /\ q + 1 \in 0 .. Len(recs) /\ q + 1 \in 1 .. q + 1 /\ (q + 1) - 1 = q
    BY RecordsFacts DEF ScanAt
<1>2. /\ UpTo(recs, q + 1) = UpTo(recs, q) \cup {q + 1}
      /\ Cardinality(UpTo(recs, q + 1)) = size + 1
      /\ size = Cardinality(UpTo(recs, q)) /\ size \in Nat
    BY <1>1, UpToFacts DEF IsEntry, ScanAt
<1>3. ~HasLong(recs, (q + 1) + 1)
    <2>1. (q + 1) + 1 = q + 2
        BY <1>1
    <2> QED
        BY <1>1, <2>1, HasLongStep
<1>4. \A j \in 1 .. q + 1 : j \in 1 .. q \/ j = q + 1
    BY <1>1
<1>5. \A j \in 1 .. q + 1 : recs[j].k # "end"
    BY <1>4 DEF ScanAt
<1>6. Rank(recs, q + 1) = size
    BY <1>1, <1>2 DEF Rank
<1>7. Lists(vol, c, UpTo(recs, q), size, new)
    <2>1. Lists(vol, c, UpTo(recs, q), size, tab)
        BY DEF ScanAt
    <2> QED
        BY <1>2, <2>1, ListsKept
<1>8. At(vol, c, q + 1, new[size])
    <2>1. CASE long
        <3>1. PICK t \in 1 .. q :
                /\ recs[t].k = "lfn" /\ recs[t].top
                /\ \A j \in t .. q : recs[j].k = "lfn"
                /\ IsRecord(vol, c, t, tab[size])
            BY <2>1 DEF ScanAt
        <3>2. t \in 1 .. q + 1 /\ t # q + 1
            BY <1>1
        <3>3. Starts(recs, t, q + 1)
            BY <1>1, <3>1, <3>2 DEF Starts
        <3> QED
            BY <2>1, <3>1, <3>2, <3>3 DEF At
    <2>2. CASE ~long
        <3>1. ~HasLong(recs, q + 1)
            BY <2>2 DEF ScanAt
        <3>2. \A j \in q + 1 .. (q + 1) - 1 : FALSE
            BY <1>1
        <3>3. Starts(recs, q + 1, q + 1)
            BY <1>1, <3>1, <3>2 DEF Starts
        <3>4. new[size] = idx
            BY <1>2, <2>2, Sizes
        <3> HIDE DEF new
        <3> QED
            BY <1>1, <3>3, <3>4 DEF At
    <2> QED
        BY <2>1, <2>2
<1> HIDE DEF new
<1>9. Lists(vol, c, UpTo(recs, q + 1), size + 1, new)
    <2>1. \A m \in UpTo(recs, q + 1) : Rank(recs, m) < size + 1
        <3>1. q + 1 \in Nat
            BY <1>1
        <3> QED
            BY <1>2, <3>1, Ranks
    <2>2. ASSUME NEW j \in 0 .. (size + 1) - 1
          PROVE  \E m \in UpTo(recs, q + 1) : Rank(recs, m) = j /\ At(vol, c, m, new[j])
        <3>1. CASE j = size
            BY <1>2, <1>6, <1>8, <3>1
        <3>2. CASE j # size
            <4>1. j \in 0 .. size - 1
                BY <1>2, <3>2
            <4> QED
                BY <1>2, <1>7, <4>1 DEF Lists
        <3> QED
            BY <3>1, <3>2
    <2> QED
        BY <2>1, <2>2, Zenon DEF Lists
<1>10. ScanAt(vol, c, q + 1, size + 1, new, FALSE)
    BY <1>1, <1>2, <1>3, <1>5, <1>9 DEF ScanAt
<1> QED
    BY <1>10 DEF new

\* Nothing of a directory has been looked at.
LEMMA ScanStarts ==
    ASSUME vol \in Volumes, NEW c \in DOMAIN vol.dirs, NEW tab
    PROVE  ScanAt(vol, c, 0, 0, tab, FALSE)
<1> DEFINE recs == Recs(vol, c)
<1>1. Len(recs) \in Nat
    BY RecordsFacts
<1>2. UpTo(recs, 0) = {} /\ Cardinality(UpTo(recs, 0)) = 0
    BY UpToEmpty
<1>3. ~HasLong(recs, 0 + 1)
    BY HasLongStep
<1>4. Lists(vol, c, UpTo(recs, 0), 0, tab)
    BY <1>2 DEF Lists
<1> QED
    BY <1>1, <1>2, <1>3, <1>4 DEF ScanAt

-----------------------------------------------------------------------------
(* Reading an entry's records. *)

\* The record that is decoded, of an entry that is read: a piece of its name or
\* its own.
LEMMA Decoding ==
    ASSUME IInv, ~broken, vol \in Volumes, NEW c \in DOMAIN vol.dirs,
           NEW m \in Entries(Recs(vol, c)), ReadingOf(vol, c, m), pc \in {"decode", "nextrec"}
    PROVE  \E t \in 1 .. m, r \in 1 .. m :
            /\ Starts(Recs(vol, c), t, m) /\ t <= r /\ IsRecord(vol, c, r, rec.hdr_idx)
            /\ IsRecord(vol, c, t, Wanted) /\ r \in Nat /\ m \in Nat
            /\ pc = "nextrec" => r < m
            /\ why = "match" =>
                name = IF pc = "nextrec" THEN Recs(vol, c)[r].name
                       ELSE IF r = t THEN NoName ELSE Recs(vol, c)[r - 1].name
            /\ Current = Recs(vol, c)[r]
            /\ r < m => Recs(vol, c)[r].k = "lfn"
            /\ IsEntry(Recs(vol, c)[m])
<1>1. m \in Nat /\ IsEntry(Recs(vol, c)[m])
    <2>1. Recs(vol, c) \in Seq(Record)
        BY RecordsFacts
    <2> QED
        BY <2>1, EntryKind
<1>2. PICK t \in 1 .. m, r \in 1 .. m :
        /\ Starts(Recs(vol, c), t, m) /\ t <= r /\ IsRecord(vol, c, r, rec.hdr_idx)
        /\ IsRecord(vol, c, t, Wanted)
        /\ pc = "nextrec" => r < m
        /\ why = "match" =>
            name = IF pc = "nextrec" THEN Recs(vol, c)[r].name
                   ELSE IF r = t THEN NoName ELSE Recs(vol, c)[r - 1].name
    BY Zenon DEF ReadingOf
<1>3. r \in Nat
    BY <1>1
<1>4. Current = Recs(vol, c)[r]
    <2>1. data = rec.hdr_idx \div RecsPerSec
        BY DEF IInv, RecordInv
    <2>2. RecordAt(rec.hdr_idx \div RecsPerSec, rec.hdr_idx % RecsPerSec) = Recs(vol, c)[r]
        BY <1>2, <1>3, RecordThere
    <2> QED
        BY <2>1, <2>2 DEF Current
<1>5. r < m => Recs(vol, c)[r].k = "lfn"
    <2>1. r < m => r \in t .. m - 1
        BY <1>1, <1>2
    <2> QED
        BY <1>2, <2>1 DEF Starts
<1> QED
    BY <1>1, <1>2, <1>3, <1>4, <1>5

\* A standard record is the entry's own, and the name is then all there.
LEMMA DecodedEntry ==
    ASSUME IInv, ~broken, vol \in Volumes, NEW c \in DOMAIN vol.dirs,
           NEW m \in Entries(Recs(vol, c)), ReadingOf(vol, c, m), pc = "decode",
           Current.k # "lfn"
    PROVE  /\ Current = Recs(vol, c)[m] /\ Current.k \in {"file", "dir"}
           /\ why = "match" => FullName = NameOf(Recs(vol, c), m)
           /\ At(vol, c, m, Wanted) /\ Wanted > 2
<1> DEFINE recs == Recs(vol, c)
<1>1. PICK t \in 1 .. m, r \in 1 .. m :
        /\ Starts(recs, t, m) /\ t <= r /\ IsRecord(vol, c, t, Wanted) /\ r \in Nat /\ m \in Nat
        /\ why = "match" => name = IF r = t THEN NoName ELSE recs[r - 1].name
        /\ Current = recs[r]
        /\ r < m => recs[r].k = "lfn"
        /\ IsEntry(recs[m])
    BY Decoding
<1>2. r = m
    BY <1>1
<1>3. Current = recs[m] /\ Current.k \in {"file", "dir"}
    BY <1>1, <1>2 DEF IsEntry
<1>4. At(vol, c, m, Wanted)
    BY <1>1 DEF At
<1>5. Wanted > 2
    <2>1. t \in Nat
        BY <1>1
    <2> QED
        BY <1>1, <2>1, RecordThere
<1>6. ASSUME why = "match" PROVE FullName = NameOf(recs, m)
    <2>1. CASE t = m
        <3>1. name = NoName /\ ~HasLong(recs, m)
            BY <1>1, <1>2, <1>6, <2>1 DEF Starts
        <3> QED
            BY <1>3, <3>1 DEF FullName, NameOf
    <2>2. CASE t # m
        <3>1. /\ name = recs[m - 1].name /\ recs[t].top
              /\ \A j \in t .. m - 1 : recs[j].k = "lfn"
            BY <1>1, <1>2, <1>6, <2>2 DEF Starts
        <3>2. t \in 1 .. m - 1 /\ t \in t .. m - 1 /\ m - 1 \in t .. m - 1
            BY <1>1, <2>2
        <3>3. HasLong(recs, m)
            BY <3>1, <3>2 DEF HasLong
        <3>4. name # NoName
            <4>1. recs \in Seq(Record) /\ m - 1 \in DOMAIN recs
                <5>1. recs \in Seq(Record) /\ m \in 1 .. Len(recs)
                    BY RecordsFacts, EntryKind
                <5> QED
                    BY <1>1, <3>2, <5>1
            <4>2. recs[m - 1] \in Record /\ recs[m - 1].k = "lfn"
                BY <3>1, <3>2, <4>1
            <4>3. recs[m - 1].name \in Names
                BY <4>2 DEF Record
            <4> QED
                BY <3>1, <4>3, DirAssumption
        <3> QED
            BY <3>1, <3>3, <3>4 DEF FullName, NameOf
    <2> QED
        BY <2>1, <2>2
<1> QED
    BY <1>3, <1>4, <1>5, <1>6

\* FatReadRecord reads on in the entry: it comes neither to a deleted record
\* nor to the end of the directory.
LEMMA ReadOn ==
    ASSUME IInv, ~broken', vol \in Volumes, NEW c \in DOMAIN vol.dirs,
           NEW m \in Entries(Recs(vol, c)), ReadingOf(vol, c, m), ReadRecord
    PROVE  pc' \in {"decode", "nextrec"} /\ ReadingOf(vol, c, m)'
<1> DEFINE recs == Recs(vol, c)
<1>1. /\ Reading /\ ~broken
      /\ UNCHANGED <<vol, data_entry, path, k, hdr_idx, dir, skip, recordTable, i, why>>
      /\ Wanted' = Wanted
    BY DEF ReadRecord, OpenRecord, DecodeLfn, NextRecord, DecodeDeleted, volume, search, table,
           Reading, LoadData, LoadDataFail, LoadTableFail, cache, Wanted
<1>2. data_entry = DataEntry /\ m \in Nat /\ m \in 1 .. Len(recs) /\ IsEntry(recs[m])
    <2>1. recs \in Seq(Record)
        BY RecordsFacts
    <2>2. m \in 1 .. Len(recs) /\ IsEntry(recs[m])
        BY <2>1, EntryKind
    <2> QED
        BY <1>1, <2>1, <2>2, ReadFacts
\* Where the reading is after the step.
<1>3. ASSUME NEW t \in 1 .. m, NEW r \in 1 .. m, pc' \in {"decode", "nextrec"},
             Starts(recs, t, m), t <= r, IsRecord(vol, c, r, rec'.hdr_idx),
             IsRecord(vol, c, t, Wanted),
             pc' = "nextrec" => r < m,
             why = "match" =>
                name' = IF pc' = "nextrec" THEN recs[r].name
                        ELSE IF r = t THEN NoName ELSE recs[r - 1].name
      PROVE  pc' \in {"decode", "nextrec"} /\ ReadingOf(vol, c, m)'
    <2>1. pc' # "openrec" /\ (rec.hdr_idx)' = rec'.hdr_idx
        BY <1>3
    <2> QED
        BY <1>1, <1>3, <2>1 DEF ReadingOf
<1>4. CASE OpenRecord
    <2>1. PICK t \in 1 .. m : Starts(recs, t, m) /\ IsRecord(vol, c, t, Wanted)
        BY <1>4 DEF OpenRecord, ReadingOf, At
    <2>2. /\ rec'.hdr_idx = Wanted /\ pc' = "decode"
          /\ name' = IF why = "match" THEN NoName ELSE name
        BY <1>4 DEF OpenRecord, LoadDataFail
    <2>3. t \in Nat /\ t <= t
        BY <1>2
    <2> QED
        BY <1>3, <2>1, <2>2, <2>3
<1> DEFINE Place(t, r) ==
            /\ Starts(recs, t, m) /\ t <= r /\ IsRecord(vol, c, r, rec.hdr_idx)
            /\ IsRecord(vol, c, t, Wanted) /\ r \in Nat /\ m \in Nat
            /\ pc = "nextrec" => r < m
            /\ why = "match" =>
                name = IF pc = "nextrec" THEN recs[r].name
                       ELSE IF r = t THEN NoName ELSE recs[r - 1].name
            /\ Current = recs[r]
            /\ r < m => recs[r].k = "lfn"
<1>5. CASE DecodeLfn
    <2>1. /\ pc = "decode" /\ Current.k = "lfn" /\ pc' = "nextrec" /\ rec' = rec
          /\ name' = IF why = "match" THEN Current.name ELSE name
        BY <1>5 DEF DecodeLfn
    <2>2. PICK t \in 1 .. m, r \in 1 .. m : Place(t, r)
        BY <1>1, <2>1, Decoding
    <2>3. r # m
        BY <1>2, <2>1, <2>2 DEF IsEntry
    <2>4. r < m
        BY <2>2, <2>3
    <2> QED
        BY <1>3, <2>1, <2>2, <2>4
<1>6. CASE DecodeDeleted
    <2>1. pc = "decode" /\ Current.k = "del"
        BY <1>6 DEF DecodeDeleted
    <2>2. PICK t \in 1 .. m, r \in 1 .. m : Place(t, r)
        BY <1>1, <2>1, Decoding
    <2>3. r # m /\ ~(r < m)
        BY <1>2, <2>1, <2>2 DEF IsEntry
    <2> QED
        BY <2>2, <2>3
<1>7. CASE NextRecord
    <2>1. pc = "nextrec" /\ name' = name
        BY <1>7 DEF NextRecord
    <2>2. PICK t \in 1 .. m, r \in 1 .. m : Place(t, r)
        BY <1>1, <2>1, Decoding
    <2> DEFINE idx == rec.hdr_idx  s == idx \div RecsPerSec  pos == rec.pos
               next == NextSectorOf(pos)  b == (r - 1) - (RecsPerSec - 1)
    <2>3. r + 1 \in 1 .. m /\ r + 1 \in Nat /\ t <= r + 1 /\ r + 1 # t /\ (r + 1) - 1 = r /\ r < m
        BY <2>1, <2>2
    <2>4. ASSUME IsRecord(vol, c, r + 1, rec'.hdr_idx), pc' = "decode"
          PROVE  pc' \in {"decode", "nextrec"} /\ ReadingOf(vol, c, m)'
        BY <1>3, <2>1, <2>2, <2>3, <2>4
    <2>5. pos = SetSector(s)
        <3>1. DirSector(vol, s) /\ pos = PlaceIn(s)
            BY <1>1, <2>1 DEF IInv, RecordInv, DirRecord
        <3> QED
            BY <1>2, <3>1, PlaceFacts
    <2>6. ASSUME SectorDone
          PROVE  SectorOf(vol, c, b, s) /\ b + RecsPerSec = r
        <3>1. idx % RecsPerSec = RecsPerSec - 1
            BY <2>2, <2>6, RecordAfter DEF SectorDone
        <3>2. SectorOf(vol, c, b, s)
            BY <2>2, <3>1 DEF IsRecord
        <3> QED
            BY <2>2, <3>2, Sizes
    <2>7. ASSUME NEW q, SectorOf(vol, c, r, q.sector),
                 rec'.hdr_idx = (q.sector * RecsPerSec) % Word
          PROVE  IsRecord(vol, c, r + 1, rec'.hdr_idx)
        <3>1. 0 \in 0 .. RecsPerSec - 1 /\ DirSector(vol, q.sector)
            BY <2>7, Sizes, SectorHome
        <3>5. (q.sector * RecsPerSec + 0) % Word = q.sector * RecsPerSec + 0
            BY <3>1, LocationFits
        <3>2. IsRecord(vol, c, r + 0 + 1, q.sector * RecsPerSec + 0)
            BY <2>7, <3>1, LocationOf
        <3>3. q.sector \in Nat /\ q.sector * RecsPerSec + 0 = q.sector * RecsPerSec
            BY <2>7, Sizes DEF SectorOf
        <3>4. r + 0 + 1 = r + 1
            BY <2>2
        <3> QED
            BY <2>7, <3>2, <3>3, <3>4, <3>5
    <2>8. CASE ~SectorDone
        <3>1. rec'.hdr_idx = idx + 1 /\ pc' = "decode"
            <4>1. rec' = [rec EXCEPT !.hdr_idx = @ + 1] /\ pc' = "decode"
                BY <1>7, <2>8 DEF NextRecord
            <4>2. rec \in [pos : Positions, hdr_idx : Nat]
                BY DEF IInv, TypeOK
            <4> QED
                BY <4>1, <4>2
        <3>2. IsRecord(vol, c, r + 1, idx + 1)
            BY <2>2, <2>8, RecordAfter DEF SectorDone
        <3> QED
            BY <2>4, <3>1, <3>2
    <2>9. CASE SectorDone /\ next.in_cluster_ptr # ClusterSize
        <3>1. rec'.hdr_idx = (next.sector * RecsPerSec) % Word /\ pc' = "decode"
            BY <1>7, <2>9 DEF NextRecord, LoadDataFail
        <3>2. SectorOf(vol, c, r, next.sector)
            BY <1>2, <2>5, <2>6, <2>9, SectorAfter
        <3> QED
            BY <2>4, <2>7, <3>1, <3>2
    <2>10. CASE SectorDone /\ next.in_cluster_ptr = ClusterSize
        <3>1. IF IsLast(pos.cluster) THEN r = Len(recs)
              ELSE SectorOf(vol, c, r, SetCluster(Following(pos.cluster)).sector)
            BY <1>2, <2>5, <2>6, <2>10, SectorAfter
        <3>2. ~IsLast(pos.cluster)
            BY <1>2, <2>2, <2>3, <3>1
        <3> DEFINE q == SetCluster(Following(pos.cluster))
        <3>5. InDirs(vol, pos.cluster)
            <4>1. DirSector(vol, s)
                BY <2>6, <2>10, SectorHome
            <4> QED
                BY <1>2, <2>5, <4>1, SectorFacts
        <3>6. ASSUME LoadTable(pos.cluster)
              PROVE  TableRecord(pos.cluster) = Following(pos.cluster) /\ Following(pos.cluster) # Eoc
            BY <1>1, <3>2, <3>5, <3>6, EntryFacts, FollowingFacts
        <3>3. rec'.hdr_idx = (q.sector * RecsPerSec) % Word /\ pc' = "decode"
            BY <1>1, <1>7, <2>10, <3>6 DEF NextRecord, LoadDataFail, LoadTableFail
        <3>4. SectorOf(vol, c, r, q.sector)
            BY <3>1, <3>2
        <3> HIDE DEF q
        <3> QED
            BY <2>4, <2>7, <3>3, <3>4
    <2> QED
        BY <2>8, <2>9, <2>10
<1> QED
    BY <1>4, <1>5, <1>6, <1>7 DEF ReadRecord

-----------------------------------------------------------------------------
(* The steps. *)

LEMMA PathFacts ==
    ASSUME IInv
    PROVE  Len(path) \in Nat /\ k \in 1 .. Len(path) /\ k \in Nat /\ k - 1 \in 0 .. Len(path) - 1
<1>1. path \in Seq(Names) /\ k \in 1 .. Len(path)
    BY DirAssumption DEF IInv, TypeOK
<1>2. Len(path) \in Nat
    BY <1>1
<1> QED
    BY <1>1, <1>2

\* A directory begins to be read.
LEMMA BeginsToScan ==
    ASSUME vol' \in Volumes, vol' = vol, pc' = "load", InDir(k - 1)', dir'.size = 0, skip' = FALSE,
           data_entry' = DataEntry, data_entry = DataEntry,
           dir'.pos = SetCluster(Cur')
    PROVE  ScanInv' /\ TryInv' /\ OpenInv' /\ FindsTheFile'
<1>1. ~Trying' /\ ~Reading' /\ pc' # "idle"
    BY DEF Trying, Reading
<1>2. TryInv' /\ OpenInv' /\ FindsTheFile'
    BY <1>1 DEF TryInv, OpenInv, FindsTheFile
<1> DEFINE c == Cur'
<1>3. c \in DOMAIN vol.dirs
    BY DEF InDir, Cur
<1> HIDE DEF c
<1>4. ScanAt(vol, c, 0, 0, recordTable', FALSE) /\ SectorOf(vol, c, 0, SetCluster(c).sector)
    BY <1>3, ScanStarts, FirstSector
<1>5. 0 \in 0 .. Len(Recs(vol, c)) /\ 0 + 0 = 0
    BY <1>3, RecordsFacts
<1>6. dir'.pos.sector = SetCluster(c).sector
    BY DEF c
<1>7. ScanInv'
    <2>1. InDir(k - 1)' /\ pc' # "scan"
        OBVIOUS
    <2>2. /\ SectorOf(vol, c, 0, dir'.pos.sector)
          /\ ScanAt(vol, c, 0 + 0, dir'.size, recordTable', skip')
        BY <1>4, <1>5, <1>6
    <2>3. vol' = vol /\ Cur' = c
        BY DEF c
    <2> QED
        BY <1>5, <2>1, <2>2, <2>3 DEF ScanInv
<1> QED
    BY <1>2, <1>7

LEMMA FindMount == IInv /\ FindInv /\ Mount => FindInv'
<1> SUFFICES ASSUME IInv, FindInv, Mount PROVE FindInv'
    OBVIOUS
<1>1. /\ Mounting /\ UNCHANGED <<vol, path>> /\ ret = "none"
      /\ pc' \in {"mbr", "pbr", "idle"}
    BY DEF Mount, MountRead, MountPartition, MountFails, Mounted, Mounting, searching, search,
           LoadDataFail, Return, FindInv
<1>2. ~Scanning' /\ ~Trying' /\ ~Reading'
    BY <1>1 DEF Scanning, Trying, Reading
<1>3. ScanInv' /\ TryInv' /\ OpenInv'
    BY <1>2 DEF ScanInv, TryInv, OpenInv
<1>4. \/ pc' # "idle" /\ ret' = "none"
      \/ pc' = "idle" /\ broken'
      \/ pc' = "idle" /\ ret' = "F8" /\ ~IsFat32
      \/ pc' = "idle" /\ ret' = "none"
    BY <1>1 DEF Mount, MountRead, MountPartition, MountFails, Mounted, LoadDataFail, Return, IsFat32
<1>5. FindsTheFile' /\ (Mounting => ret = "none")'
    <2>1. IsFat32' <=> IsFat32
        BY <1>1 DEF IsFat32, HasPartition
    <2>2. "F8" # "ok" /\ "F8" # "none"
        OBVIOUS
    <2> QED
        BY <1>4, <2>1, <2>2 DEF FindsTheFile, Mounting
<1>6. (data_entry # 0 => IsFat32)'
    <2>1. CASE Mounted
        <3>1. vol.disk.signed /\ vol.disk.fat32 /\ (vol.disk.boot \/ HasPartition)
            BY <2>1 DEF Mounted, IInv, MountInv
        <3> QED
            BY <1>1, <3>1 DEF IsFat32, HasPartition
    <2>2. CASE MountRead \/ MountPartition \/ MountFails
        <3>1. data_entry' = data_entry /\ (data_entry # 0 => IsFat32)
            BY <2>2 DEF MountRead, MountPartition, MountFails, FindInv
        <3> QED
            BY <1>1, <3>1 DEF IsFat32, HasPartition
    <2> QED
        BY <2>1, <2>2 DEF Mount
<1> QED
    BY <1>3, <1>5, <1>6 DEF FindInv

\* Of a step after mounting, what is left to show.
LEMMA FindRest ==
    ASSUME IInv, FindInv, ~Mounting, ~Mounting', UNCHANGED <<vol, data_entry>>,
           FindsTheFile', ~broken' => ScanInv' /\ TryInv' /\ OpenInv'
    PROVE  FindInv'
<1>1. (data_entry # 0 => IsFat32)'
    BY DEF FindInv, IsFat32, HasPartition
<1> QED
    BY <1>1 DEF FindInv

LEMMA FindCall == IInv /\ FindInv /\ (\E p \in Paths : Call(p)) => FindInv'
<1> SUFFICES ASSUME IInv, FindInv, NEW p \in Paths, Call(p) PROVE FindInv'
    OBVIOUS
<1>1. /\ pc = "idle" /\ data_entry # 0 /\ UNCHANGED <<vol, data_entry, broken>> /\ path' = p
      /\ k' = 1 /\ OpenDir(0)
    BY DEF Call, volume
<1>2. data_entry = DataEntry /\ vol \in Volumes
    BY <1>1 DEF IInv, MountInv
<1>3. pc' = "load" /\ skip' = FALSE
    BY <1>1 DEF OpenDir
<1>4. dir'.size = 0 /\ dir'.pos = SetCluster(Root)
    <2>1. dir \in Directories
        BY DEF IInv, TypeOK
    <2> DEFINE q == SetCluster(Root)
    <2>2. dir' = [dir EXCEPT !.size = 0, !.is_root = FALSE, !.entry_cluster = 0, !.pos = q]
        BY <1>1 DEF OpenDir
    <2> HIDE DEF q
    <2> QED
        BY <2>1, <2>2 DEF Directories, q
<1>5. Lookup(vol, path)'[0] = [res |-> "dir", cluster |-> Root]
    <2>1. p \in Seq(Names)
        BY DirAssumption
    <2>2. Len(p) \in Nat
        BY <2>1
    <2>3. Lookup(vol, p)[0] = [res |-> "dir", cluster |-> Root]
        BY <2>2, LookupSteps
    <2>4. Lookup(vol, path)' = Lookup(vol, p)
        BY <1>1
    <2> QED
        BY <2>3, <2>4
<1>6. (k - 1)' = 0 /\ Cur' = Root
    <2>1. (k - 1)' = 0
        BY <1>1
    <2> QED
        BY <1>5, <2>1 DEF Cur
<1>7. Root \in DOMAIN vol.dirs
    BY <1>2, DirsFacts
<1>8. InDir(k - 1)'
    BY <1>1, <1>5, <1>6, <1>7 DEF InDir
<1>9. ScanInv' /\ TryInv' /\ OpenInv' /\ FindsTheFile'
    BY <1>1, <1>2, <1>3, <1>4, <1>6, <1>8, BeginsToScan
<1>10. ~Mounting /\ ~Mounting'
    BY <1>1, <1>3 DEF Mounting
<1> QED
    BY <1>1, <1>9, <1>10, FindRest

\* The tries begin with the table complete.
LEMMA BeginsToTry ==
    ASSUME vol' = vol, path' = path, k' = k, pc' = "try", i' = 0, InDir(k - 1), vol \in Volumes,
           Lists(vol, Cur, Entries(Recs(vol, Cur)), dir'.size, recordTable')
    PROVE  ScanInv' /\ TryInv' /\ OpenInv' /\ FindsTheFile'
<1>1. ~Scanning' /\ ~Reading' /\ pc' # "idle"
    BY DEF Scanning, Reading
<1>2. ScanInv' /\ OpenInv' /\ FindsTheFile'
    BY <1>1 DEF ScanInv, OpenInv, FindsTheFile
<1>3. Cur' = Cur /\ InDir(k - 1)'
    BY DEF Cur, InDir
<1>4. \A m \in Entries(Recs(vol, Cur)) : ~(Rank(Recs(vol, Cur), m) < 0)
    <2> SUFFICES ASSUME NEW m \in Entries(Recs(vol, Cur)) PROVE ~(Rank(Recs(vol, Cur), m) < 0)
        OBVIOUS
    <2>1. Cur \in DOMAIN vol.dirs
        BY DEF InDir, Cur
    <2>2. Recs(vol, Cur) \in Seq(Record)
        BY <2>1, RecordsFacts
    <2>3. m - 1 \in Nat
        BY <2>2, EntryKind
    <2>4. Rank(Recs(vol, Cur), m) \in Nat
        BY <2>3, UpToFacts DEF Rank
    <2> QED
        BY <2>4
<1> DEFINE c == Cur
<1> HIDE DEF c
<1>5. /\ Lists(vol, c, Entries(Recs(vol, c)), dir'.size, recordTable')
      /\ Cur' = c
      /\ \A m \in Entries(Recs(vol, c)) : ~(Rank(Recs(vol, c), m) < i')
    BY <1>3, <1>4 DEF c
<1>6. TryInv'
    BY <1>1, <1>3, <1>5 DEF TryInv
<1> QED
    BY <1>2, <1>6

LEMMA FindScan == IInv /\ FindInv /\ ReadDir => FindInv'
<1> SUFFICES ASSUME IInv, FindInv, ReadDir PROVE FindInv'
    OBVIOUS
<1>1. Scanning /\ UNCHANGED <<vol, data_entry, path, k>> /\ ~Mounting
      /\ pc' \in {"load", "scan", "try", "idle"} /\ (broken => broken')
    BY DEF ReadDir, LoadDir, ScanEnd, ScanSkipped, ScanLfn, ScanEntry, ScanNext, LoadData,
           LoadDataFail, LoadTableFail, Return, TryEntries, Goon, Scanning, Mounting, volume,
           search, cache
<1>2. ~Mounting'
    BY <1>1 DEF Mounting
<1>3. pc' = "idle" => broken'
    BY DEF ReadDir, LoadDir, ScanEnd, ScanSkipped, ScanLfn, ScanEntry, ScanNext, LoadData,
           LoadDataFail, LoadTableFail, Return, TryEntries, Goon
<1>4. FindsTheFile'
    BY <1>3 DEF FindsTheFile
<1> SUFFICES ASSUME ~broken' PROVE ScanInv' /\ TryInv' /\ OpenInv'
    BY <1>1, <1>2, <1>4, FindRest
<1>5. /\ ~broken /\ vol \in Volumes /\ data_entry = DataEntry
      /\ dir \in Directories /\ dir.size \in Nat /\ dir.size < MaxRecords
      /\ recordTable \in [0 .. MaxRecords - 1 -> Nat] /\ i \in Nat
      /\ dir.pos = PlaceIn(dir.pos.sector)
    <2>1. vol \in Volumes /\ data_entry = DataEntry
        BY <1>1 DEF IInv, MountInv, Scanning
    <2>2. dir \in Directories /\ recordTable \in [0 .. MaxRecords - 1 -> Nat] /\ i \in Nat
        BY Sizes DEF IInv, TypeOK
    <2>3. dir.size < MaxRecords /\ dir.pos = PlaceIn(dir.pos.sector)
        BY <1>1 DEF IInv, TableInv
    <2>4. dir.size \in Nat
        BY <2>2 DEF Directories
    <2> QED
        BY <1>1, <2>1, <2>2, <2>3, <2>4
<1> DEFINE c == Cur  recs == Recs(vol, c)
<1>6. ScanInv /\ InDir(k - 1)
    BY <1>1, <1>5 DEF FindInv, ScanInv
<1>7. c \in DOMAIN vol.dirs /\ Len(recs) \in Nat
    <2>1. c \in DOMAIN vol.dirs
        BY <1>6 DEF InDir, Cur
    <2> QED
        BY <1>5, <2>1, RecordsFacts
<1>8. Cur' = c /\ InDir(k - 1)' /\ vol' = vol
    BY <1>1, <1>6 DEF Cur, InDir
<1>9. PICK b \in 0 .. Len(recs) :
        /\ SectorOf(vol, c, b, dir.pos.sector)
        /\ ScanAt(vol, c, b + (IF pc = "scan" THEN i ELSE 0), dir.size, recordTable, skip)
    BY <1>1, <1>6 DEF ScanInv
<1> HIDE DEF c, recs
\* To go on with the directory ...
<1>10. ASSUME NEW b1 \in Nat, pc' \in {"load", "scan"}, SectorOf(vol, c, b1, dir'.pos.sector),
              ScanAt(vol, c, b1 + (IF pc' = "scan" THEN i' ELSE 0), dir'.size, recordTable', skip'),
              pc' = "scan" => data_sec_idx' = dir'.pos.sector
       PROVE  ScanInv' /\ TryInv' /\ OpenInv'
    <2>1. b1 \in 0 .. Len(recs)
        BY <1>5, <1>7, <1>10, SectorRecords, Sizes DEF recs
    <2>2. ~Trying' /\ ~Reading'
        BY <1>10 DEF Trying, Reading
    <2>3. TryInv' /\ OpenInv'
        BY <2>2 DEF TryInv, OpenInv
    <2>4. /\ InDir(k - 1)' /\ Recs(vol, Cur)' = recs /\ Cur' = c /\ vol' = vol
          /\ (pc' = "scan" => data_sec_idx' = dir'.pos.sector)
        BY <1>8, <1>10 DEF recs
    <2>5. ScanInv'
        BY <1>10, <2>1, <2>4 DEF ScanInv
    <2> QED
        BY <2>3, <2>5
\* ... and to be done with it.
<1>11. ASSUME pc' = "try", i' = 0, NEW q, ScanAt(vol, c, q, dir'.size, recordTable', skip'),
              dir'.size <= MaxRecords,
              q = Len(recs) \/ (q < Len(recs) /\ recs[q + 1].k = "end") \/ dir'.size = MaxRecords
       PROVE  ScanInv' /\ TryInv' /\ OpenInv'
    <2>1. Lists(vol, c, Entries(recs), dir'.size, recordTable')
        BY <1>5, <1>7, <1>11, ScanDone DEF recs
    <2> QED
        BY <1>1, <1>5, <1>6, <1>11, <2>1, BeginsToTry DEF c, recs
<1>12. CASE LoadDir
    <2>1. /\ pc = "load" /\ pc' = "scan" /\ i' = 0 /\ data_sec_idx' = dir.pos.sector
          /\ UNCHANGED <<dir, recordTable, skip>>
        BY <1>12 DEF LoadDir, LoadData, LoadDataFail, table
    <2>2. /\ b \in Nat
          /\ ScanAt(vol, c, b + (IF pc' = "scan" THEN i' ELSE 0), dir'.size, recordTable', skip')
        BY <1>7, <1>9, <2>1
    <2> QED
        BY <1>9, <1>10, <2>1, <2>2
<1> DEFINE q == b + i
<1>13. ASSUME pc = "scan"
       PROVE  /\ ScanAt(vol, c, q, dir.size, recordTable, skip) /\ q \in Nat
              /\ data_sec_idx = dir.pos.sector /\ data = dir.pos.sector /\ b \in Nat
    <2>1. ScanAt(vol, c, q, dir.size, recordTable, skip)
        BY <1>9, <1>13
    <2>2. data_sec_idx = dir.pos.sector
        BY <1>6, <1>13, <1>1 DEF ScanInv
    <2>3. data = data_sec_idx
        BY <1>5 DEF IInv, CacheInv
    <2> QED
        BY <1>5, <1>7, <1>9, <2>1, <2>2, <2>3
<1>14. ASSUME pc = "scan", i < RecsPerSec
       PROVE  /\ RecordAt(data, i) = recs[q + 1] /\ q < Len(recs)
              /\ Here \in Nat /\ IsRecord(vol, c, q + 1, Here)
              /\ q + 1 = b + (i + 1) /\ q + 1 = b + i + 1
    <2>1. i \in 0 .. RecsPerSec - 1
        BY <1>5, <1>14, Sizes
    <2>2. RecordAt(dir.pos.sector, i) = recs[b + i + 1] /\ b + RecsPerSec <= Len(recs) /\ b \in Nat
        BY <1>5, <1>9, <2>1, SectorRecords DEF recs
    <2>3. IsRecord(vol, c, b + i + 1, dir.pos.sector * RecsPerSec + i)
        BY <1>5, <1>9, <2>1, LocationOf
    <2>4. q + 1 = b + (i + 1) /\ q + 1 = b + i + 1 /\ q < Len(recs)
        BY <1>5, <1>7, <1>14, <2>2, Sizes
    <2>5. Here \in Nat /\ Here = dir.pos.sector * RecsPerSec + i
        <3>1. DirSector(vol, dir.pos.sector)
            BY <1>5, <1>9, SectorHome
        <3> QED
            BY <1>5, <2>1, <2>3, <3>1, LocationFits DEF Here, IsRecord
    <2> QED
        BY <1>13, <1>14, <2>2, <2>3, <2>4, <2>5
\* The scan of the sector goes on.
<1>15. ASSUME pc = "scan", i < RecsPerSec, Goon, dir'.pos = dir.pos, data_sec_idx' = data_sec_idx,
              ScanAt(vol, c, q + 1, dir'.size, recordTable', skip')
       PROVE  ScanInv' /\ TryInv' /\ OpenInv'
    <2>1. pc' = "scan" /\ i' = i + 1
        BY <1>15 DEF Goon
    <2>2. b + (IF pc' = "scan" THEN i' ELSE 0) = q + 1
        BY <1>14, <1>15, <2>1
    <2> QED
        BY <1>9, <1>10, <1>13, <1>15, <2>1, <2>2
<1> HIDE DEF q
<1>16. CASE ScanEnd
    <2>1. /\ pc = "scan" /\ i < RecsPerSec /\ RecordAt(data, i).k = "end"
          /\ pc' = "try" /\ i' = 0 /\ UNCHANGED <<dir, recordTable, skip>>
        BY <1>16 DEF ScanEnd, TryEntries, table
    <2>2. /\ ScanAt(vol, c, q, dir'.size, recordTable', skip') /\ dir'.size <= MaxRecords
          /\ q < Len(recs) /\ recs[q + 1].k = "end"
        BY <1>5, <1>13, <1>14, <2>1, Sizes
    <2> QED
        BY <1>11, <2>1, <2>2
<1>17. CASE ScanSkipped
    <2>1. /\ pc = "scan" /\ i < RecsPerSec /\ RecordAt(data, i).k \in {"del", "hidden"}
          /\ Goon /\ skip' = FALSE /\ UNCHANGED <<dir, recordTable, data_sec_idx>>
        BY <1>17 DEF ScanSkipped, cache
    <2>2. ScanAt(vol, c, q + 1, dir.size, recordTable, FALSE)
        BY <1>5, <1>7, <1>13, <1>14, <2>1, ScanPassed DEF recs
    <2> QED
        BY <1>15, <2>1, <2>2
<1>18. CASE ScanLfn
    <2>1. /\ pc = "scan" /\ i < RecsPerSec /\ RecordAt(data, i).k = "lfn"
          /\ Goon /\ UNCHANGED <<dir, data_sec_idx>>
          /\ IF RecordAt(data, i).top
             THEN recordTable' = [recordTable EXCEPT ![dir.size] = Here] /\ skip' = TRUE
             ELSE UNCHANGED <<recordTable, skip>>
        BY <1>18 DEF ScanLfn, cache
    <2>2. IF recs[q + 1].top
          THEN ScanAt(vol, c, q + 1, dir.size, [recordTable EXCEPT ![dir.size] = Here], TRUE)
          ELSE ScanAt(vol, c, q + 1, dir.size, recordTable, skip)
        BY <1>5, <1>7, <1>13, <1>14, <2>1, ScanPiece DEF recs
    <2>3. ScanAt(vol, c, q + 1, dir'.size, recordTable', skip')
        BY <1>14, <2>1, <2>2
    <2> QED
        BY <1>15, <2>1, <2>3
<1>19. CASE ScanEntry
    <2>1. /\ pc = "scan" /\ i < RecsPerSec /\ RecordAt(data, i).k \in {"file", "dir"}
          /\ data_sec_idx' = data_sec_idx
          /\ recordTable' = IF skip THEN recordTable ELSE [recordTable EXCEPT ![dir.size] = Here]
          /\ IF TableFull THEN pc' = "try" /\ i' = 0 /\ skip' = skip ELSE Goon /\ skip' = FALSE
        BY <1>19 DEF ScanEntry, cache, Located, TryEntries
    <2>2. dir'.size = dir.size + 1 /\ dir'.pos = dir.pos
        BY <1>5, <1>19 DEF ScanEntry, Directories
    <2>3. ScanAt(vol, c, q + 1, dir.size + 1,
                 IF skip THEN recordTable ELSE [recordTable EXCEPT ![dir.size] = Here], FALSE)
        BY <1>5, <1>7, <1>13, <1>14, <2>1, ScanListed DEF recs
    <2>4. CASE TableFull
        <3>1. dir.size + 1 = MaxRecords /\ dir.size + 1 <= MaxRecords
            BY <1>5, <2>4, Sizes DEF TableFull
        <3>2. Lists(vol, c, Entries(recs), dir.size + 1, recordTable')
            BY <1>5, <1>7, <2>1, <2>3, <3>1, ScanDone DEF recs
        <3> QED
            BY <1>1, <1>5, <1>6, <2>1, <2>2, <2>4, <3>2, BeginsToTry DEF c, recs
    <2>5. CASE ~TableFull
        BY <1>15, <2>1, <2>2, <2>3, <2>5
    <2> QED
        BY <2>4, <2>5
<1>20. CASE ScanNext
    <2> DEFINE pos == dir.pos  s == pos.sector  next == NextSectorOf(pos)
    <2>1. pc = "scan" /\ i = RecsPerSec /\ UNCHANGED <<recordTable, skip>>
        BY <1>20 DEF ScanNext
    <2>2. q = b + RecsPerSec /\ q \in Nat
        BY <1>13, <2>1 DEF q
    <2>3. pos = SetSector(s) /\ DirSector(vol, s)
        <3>1. DirSector(vol, s)
            BY <1>5, <1>9, SectorHome
        <3> QED
            BY <1>5, <3>1, PlaceFacts
    <2>4. /\ next.in_cluster_ptr # ClusterSize => SectorOf(vol, c, q, next.sector)
          /\ next.in_cluster_ptr = ClusterSize =>
                IF IsLast(pos.cluster) THEN q = Len(recs)
                ELSE SectorOf(vol, c, q, SetCluster(Following(pos.cluster)).sector)
        BY <1>5, <1>9, <2>2, <2>3, SectorAfter DEF recs
    <2>5. ASSUME NEW to, SectorOf(vol, c, q, to.sector), pc' = "load", dir' = [dir EXCEPT !.pos = to]
          PROVE  ScanInv' /\ TryInv' /\ OpenInv'
        <3>1. dir'.size = dir.size /\ dir'.pos = to
            BY <1>5, <2>5 DEF Directories
        <3>2. q + (IF pc' = "scan" THEN i' ELSE 0) = q
            BY <2>2, <2>5
        <3> QED
            BY <1>10, <1>13, <2>1, <2>2, <2>5, <3>1, <3>2
    <2>9. InDirs(vol, pos.cluster)
        BY <1>5, <2>3, SectorFacts
    <2> DEFINE on == SetCluster(Following(pos.cluster))
    <2>6. CASE next.in_cluster_ptr # ClusterSize
        <3>1. pc' = "load" /\ dir' = [dir EXCEPT !.pos = next]
            BY <1>20, <2>6 DEF ScanNext
        <3> HIDE DEF next
        <3> QED
            BY <2>4, <2>5, <2>6, <3>1
    <2>7. CASE next.in_cluster_ptr = ClusterSize /\ ~IsLast(pos.cluster)
        <3>1. pc' = "load" /\ dir' = [dir EXCEPT !.pos = on]
            <4>1. LoadTable(pos.cluster) => TableRecord(pos.cluster) = Following(pos.cluster)
                BY <1>5, <2>7, <2>9, EntryFacts
            <4>2. Following(pos.cluster) # Eoc
                BY <1>5, <2>7, <2>9, FollowingFacts
            <4> QED
                BY <1>20, <2>7, <4>1, <4>2 DEF ScanNext, LoadTableFail
        <3>2. SectorOf(vol, c, q, on.sector)
            BY <2>4, <2>7
        <3> HIDE DEF on
        <3> QED
            BY <2>5, <3>1, <3>2
    <2>8. CASE next.in_cluster_ptr = ClusterSize /\ IsLast(pos.cluster)
        <3>1. /\ pc' = "try" /\ i' = 0
              /\ dir' = [dir EXCEPT !.pos = next, !.is_root = TRUE]
            <4>1. LoadTable(pos.cluster) => TableRecord(pos.cluster) = Eoc
                BY <1>5, <2>8, <2>9, EntryFacts
            <4> QED
                BY <1>20, <2>8, <4>1 DEF ScanNext, LoadTableFail, TryEntries
        <3> HIDE DEF next
        <3>2. dir'.size = dir.size
            BY <1>5, <3>1 DEF Directories
        <3>3. q = Len(recs)
            BY <2>4, <2>8
        <3>4. ScanAt(vol, c, q, dir'.size, recordTable', skip') /\ dir'.size <= MaxRecords
            BY <1>5, <1>13, <2>1, <3>2, Sizes
        <3> QED
            BY <1>11, <3>1, <3>3, <3>4
    <2> QED
        BY <2>6, <2>7, <2>8
<1> QED
    BY <1>12, <1>16, <1>17, <1>18, <1>19, <1>20 DEF ReadDir

LEMMA FindRead == IInv /\ FindInv /\ ReadRecord => FindInv'
<1> SUFFICES ASSUME IInv, FindInv, ReadRecord PROVE FindInv'
    OBVIOUS
<1>1. /\ Reading
      /\ UNCHANGED <<vol, data_entry, path, k, hdr_idx, dir, skip, recordTable, i, why>>
      /\ Wanted' = Wanted /\ (broken => broken')
    BY DEF ReadRecord, OpenRecord, DecodeLfn, NextRecord, DecodeDeleted, volume, search, table,
           Reading, LoadData, LoadDataFail, LoadTableFail, cache, Wanted
<1>2. data_entry = DataEntry /\ vol \in Volumes /\ ~Mounting
    BY <1>1, ReadFacts
<1>3. ~Mounting' /\ ~Scanning' /\ pc' # "try"
    BY DEF ReadRecord, OpenRecord, DecodeLfn, NextRecord, DecodeDeleted, LoadDataFail,
           LoadTableFail, Return, Mounting, Scanning
<1>4. ASSUME ~broken' PROVE ScanInv' /\ TryInv' /\ OpenInv' /\ pc' \in {"decode", "nextrec"}
    <2>1. ~broken /\ TryInv /\ OpenInv
        BY <1>1, <1>4 DEF FindInv
    <2>2. ScanInv'
        BY <1>3 DEF ScanInv
    <2>3. \A n : InDir(n)' <=> InDir(n)
        BY <1>1 DEF InDir
    <2>4. Cur' = Cur
        BY <1>1 DEF Cur
    <2>5. why \in {"dir", "match", "file"}
        BY DEF IInv, TypeOK
    <2>6. CASE why = "match"
        <3>0. PICK c \in DOMAIN vol.dirs : c = Cur
            BY <1>1, <2>1, <2>6 DEF TryInv, Trying, OpenInv, InDir, Cur
        <3>1. /\ InDir(k - 1) /\ Lists(vol, c, Entries(Recs(vol, c)), dir.size, recordTable)
              /\ \A m \in Entries(Recs(vol, c)) :
                    Rank(Recs(vol, c), m) < i => NameOf(Recs(vol, c), m) # path[k]
              /\ \E m \in Entries(Recs(vol, c)) :
                    Rank(Recs(vol, c), m) = i /\ ReadingOf(vol, c, m)
            BY <1>1, <2>1, <2>6, <3>0 DEF TryInv, Trying
        <3>3. PICK m \in Entries(Recs(vol, c)) : Rank(Recs(vol, c), m) = i /\ ReadingOf(vol, c, m)
            BY <3>1
        <3>4. pc' \in {"decode", "nextrec"} /\ ReadingOf(vol, c, m)'
            BY <1>2, <1>4, <3>3, ReadOn
        <3>6. InDir(k - 1)' /\ Cur' = c
            <4>1. InDir(k - 1)' <=> InDir(k - 1)
                BY <1>1 DEF InDir
            <4> QED
                BY <2>4, <3>0, <3>1, <4>1
        <3>7. TryInv'
            BY <1>1, <3>1, <3>3, <3>4, <3>6 DEF TryInv
        <3>8. OpenInv'
            BY <1>1, <2>6 DEF OpenInv
        <3> QED
            BY <2>2, <3>4, <3>7, <3>8
    <2>7. CASE why = "file"
        <3>0. PICK c \in DOMAIN vol.dirs : c = Cur
            BY <1>1, <2>1, <2>7 DEF TryInv, Trying, OpenInv, InDir, Cur
        <3>1. /\ InDir(k - 1) /\ k = Len(path)
              /\ \E m \in Entries(Recs(vol, c)) : IsFirst(vol, c, path[k], m) /\ ReadingOf(vol, c, m)
            BY <1>1, <2>1, <2>7, <3>0 DEF OpenInv
        <3>3. PICK m \in Entries(Recs(vol, c)) : IsFirst(vol, c, path[k], m) /\ ReadingOf(vol, c, m)
            BY <3>1
        <3>4. pc' \in {"decode", "nextrec"} /\ ReadingOf(vol, c, m)'
            BY <1>2, <1>4, <3>3, ReadOn
        <3>6. InDir(k - 1)' /\ Cur' = c
            <4>1. InDir(k - 1)' <=> InDir(k - 1)
                BY <1>1 DEF InDir
            <4> QED
                BY <2>4, <3>0, <3>1, <4>1
        <3>7. OpenInv'
            BY <1>1, <2>7, <3>1, <3>3, <3>4, <3>6 DEF OpenInv
        <3>8. ~Trying'
            BY <1>1, <1>3, <2>7 DEF Trying
        <3>9. TryInv'
            BY <3>8 DEF TryInv
        <3> QED
            BY <2>2, <3>4, <3>7, <3>9
    <2>8. CASE why = "dir"
        <3>0. PICK c \in DOMAIN vol.dirs : c = Lookup(vol, path)[k - 2].cluster
            BY <1>1, <2>1, <2>8 DEF OpenInv, InDir
        <3>1. /\ k > 1 /\ InDir(k - 2) /\ skip = FALSE
              /\ \E m \in Entries(Recs(vol, c)) : IsFirst(vol, c, path[k - 1], m) /\ ReadingOf(vol, c, m)
            BY <1>1, <2>1, <2>8, <3>0 DEF OpenInv
        <3>2. Lookup(vol, path)'[(k - 2)'].cluster = c
            BY <1>1, <3>0
        <3>3. PICK m \in Entries(Recs(vol, c)) : IsFirst(vol, c, path[k - 1], m) /\ ReadingOf(vol, c, m)
            BY <3>1
        <3>4. pc' \in {"decode", "nextrec"} /\ ReadingOf(vol, c, m)'
            BY <1>2, <1>4, <3>3, ReadOn
        <3>6. InDir(k - 2)'
            <4>1. InDir(k - 2)' <=> InDir(k - 2)
                BY <1>1 DEF InDir
            <4> QED
                BY <3>1, <4>1
        <3>7. OpenInv'
            BY <1>1, <2>8, <3>1, <3>3, <3>2, <3>4, <3>6 DEF OpenInv
        <3>8. ~Trying'
            BY <1>1, <1>3, <2>8 DEF Trying
        <3>9. TryInv'
            BY <3>8 DEF TryInv
        <3> QED
            BY <2>2, <3>4, <3>7, <3>9
    <2> QED
        BY <2>5, <2>6, <2>7, <2>8
<1>5. FindsTheFile'
    BY <1>4 DEF FindsTheFile
<1> QED
    BY <1>1, <1>2, <1>3, <1>4, <1>5, FindRest

\* Two entries are not of the same rank.
LEMMA SameRank ==
    ASSUME NEW recs \in Seq(Record), NEW m \in Entries(recs), NEW n \in Entries(recs)
    PROVE  /\ m \in Nat /\ n \in Nat /\ Rank(recs, m) \in Nat /\ Rank(recs, n) \in Nat
           /\ Rank(recs, m) = Rank(recs, n) => m = n
           /\ n < m => Rank(recs, n) < Rank(recs, m)
<1> DEFINE L == Len(recs)
<1>1. L \in Nat
    OBVIOUS
<1>2. m \in UpTo(recs, L) /\ n \in UpTo(recs, L) /\ m \in Nat /\ n \in Nat
    BY EntryKind DEF UpTo
<1> HIDE DEF L
<1>3. /\ Rank(recs, m) \in Nat /\ Rank(recs, n) \in Nat
      /\ n < m => Rank(recs, n) < Rank(recs, m)
      /\ m < n => Rank(recs, m) < Rank(recs, n)
    BY <1>1, <1>2, Ranks
<1> QED
    BY <1>2, <1>3

LEMMA FindSearch == IInv /\ FindInv /\ Search => FindInv'
<1> SUFFICES ASSUME IInv, FindInv, Search PROVE FindInv'
    OBVIOUS
<1>1. UNCHANGED <<vol, data_entry, path, rec, data, data_sec_idx, broken>>
    BY DEF Search, DirOpened, NoDir, TryEntry, NotFound, NextEntry, Found, FileOpened,
           NoFile, volume, search, cache
<1>2. /\ data_entry = DataEntry /\ data_entry # 0 /\ vol \in Volumes /\ ~Mounting /\ ~Mounting'
    BY Sizes DEF Search, DirOpened, NoDir, TryEntry, NotFound, NextEntry, Found, FileOpened,
           NoFile, Decoded, IInv, MountInv, Mounting, Return, OpenDir
<1>3. IsFat32
    BY <1>2 DEF FindInv
<1>4. IsFat32'
    BY <1>1, <1>3 DEF IsFat32, HasPartition
<1>5. CASE broken
    <2>1. FindsTheFile'
        BY <1>1, <1>5 DEF FindsTheFile
    <2> QED
        BY <1>1, <1>2, <1>5, <2>1, FindRest
<1> SUFFICES ASSUME ~broken PROVE FindInv'
    BY <1>5
<1>6. ScanInv /\ TryInv /\ OpenInv
    BY DEF FindInv
<1> SUFFICES ScanInv' /\ TryInv' /\ OpenInv' /\ FindsTheFile'
    BY <1>1, <1>2, FindRest
<1>7. Len(path) \in Nat /\ k \in 1 .. Len(path) /\ k \in Nat /\ k - 1 \in 0 .. Len(path) - 1
      /\ (k - 1) + 1 = k
    BY PathFacts
<1>8. Lookup(vol, path)' = Lookup(vol, path) /\ (\A n : InDir(n)' <=> InDir(n)) /\ Outcome' = Outcome
    BY <1>1 DEF InDir, Outcome
<1>9. \A c \in DOMAIN vol.dirs : Recs(vol, c) \in Seq(Record)
    BY <1>2, RecordsFacts
\* A return.
<1>10. ASSUME pc' = "idle", ret' = Result, ret' = "ok" => opened' = Outcome.cluster
       PROVE  ScanInv' /\ TryInv' /\ OpenInv' /\ FindsTheFile'
    <2>1. ~Scanning' /\ ~Trying' /\ ~Reading'
        BY <1>10 DEF Scanning, Trying, Reading
    <2>2. ScanInv' /\ TryInv' /\ OpenInv'
        BY <2>1 DEF ScanInv, TryInv, OpenInv
    <2>3. Result' = Result
        BY <1>8 DEF Result
    <2>4. FindsTheFile'
        BY <1>4, <1>8, <1>10, <2>3 DEF FindsTheFile
    <2> QED
        BY <2>2, <2>4
\* What is read is the entry the path names.
<1>11. ASSUME Reading, why = "dir"
       PROVE  /\ k - 2 \in 0 .. Len(path) - 1 /\ (k - 2) + 1 = k - 1 /\ InDir(k - 2) /\ skip = FALSE
              /\ \E c, m :
                    /\ c \in DOMAIN vol.dirs /\ m \in Entries(Recs(vol, c))
                    /\ c = Lookup(vol, path)[k - 2].cluster
                    /\ IsFirst(vol, c, path[k - 1], m) /\ ReadingOf(vol, c, m)
    <2>1. k > 1 /\ InDir(k - 2) /\ skip = FALSE
        BY <1>6, <1>11 DEF OpenInv
    <2>2. Lookup(vol, path)[k - 2].cluster \in DOMAIN vol.dirs
        BY <2>1 DEF InDir
    <2>3. k - 2 \in 0 .. Len(path) - 1 /\ (k - 2) + 1 = k - 1
        BY <1>7, <2>1
    <2>4. \E m \in Entries(Recs(vol, Lookup(vol, path)[k - 2].cluster)) :
            /\ IsFirst(vol, Lookup(vol, path)[k - 2].cluster, path[k - 1], m)
            /\ ReadingOf(vol, Lookup(vol, path)[k - 2].cluster, m)
        BY <1>6, <1>11 DEF OpenInv
    <2> QED
        BY <2>1, <2>2, <2>3, <2>4
<1>12. ASSUME Reading, why = "file"
       PROVE  /\ InDir(k - 1) /\ k = Len(path)
              /\ \E c, m :
                    /\ c \in DOMAIN vol.dirs /\ m \in Entries(Recs(vol, c))
                    /\ c = Lookup(vol, path)[k - 1].cluster
                    /\ IsFirst(vol, c, path[k], m) /\ ReadingOf(vol, c, m)
    <2>1. /\ InDir(k - 1) /\ k = Len(path)
          /\ \E m \in Entries(Recs(vol, Cur)) : IsFirst(vol, Cur, path[k], m) /\ ReadingOf(vol, Cur, m)
        BY <1>6, <1>12 DEF OpenInv
    <2> QED
        BY <2>1 DEF InDir, Cur
<1>13. ASSUME Trying
       PROVE  \E c \in DOMAIN vol.dirs :
                /\ c = Cur /\ c = Lookup(vol, path)[k - 1].cluster /\ InDir(k - 1)
                /\ Lists(vol, c, Entries(Recs(vol, c)), dir.size, recordTable)
                /\ \A m \in Entries(Recs(vol, c)) :
                    Rank(Recs(vol, c), m) < i => NameOf(Recs(vol, c), m) # path[k]
                /\ Reading => \E m \in Entries(Recs(vol, c)) :
                    Rank(Recs(vol, c), m) = i /\ ReadingOf(vol, c, m)
    BY <1>6, <1>13 DEF TryInv, InDir, Cur
<1>14. CASE DirOpened
    <2>1. pc = "decode" /\ why = "dir" /\ Current.k = "dir" /\ Reading
        BY <1>14 DEF DirOpened, Decoded, Reading
    <2>2. PICK c, m :
            /\ c \in DOMAIN vol.dirs /\ m \in Entries(Recs(vol, c))
            /\ c = Lookup(vol, path)[k - 2].cluster
            /\ IsFirst(vol, c, path[k - 1], m) /\ ReadingOf(vol, c, m)
        BY <1>11, <2>1
    <2>3. Current = Recs(vol, c)[m]
        BY <1>2, <2>1, <2>2, DecodedEntry
    <2>4. /\ Lookup(vol, path)[k - 1] = [res |-> Current.k, cluster |-> Current.cluster]
          /\ InDir(k - 1)
        BY <1>2, <1>7, <1>11, <2>1, <2>2, <2>3, LookupFound
    <2> DEFINE e == Current.cluster
    <2>5. Cur = e /\ e \in DOMAIN vol.dirs
        BY <2>4 DEF Cur, InDir
    <2>6. (IF e <= 2 THEN Root ELSE e) = e
        <3>1. InDirs(vol, e)
            BY <1>2, <2>5, FirstCluster
        <3>2. e \in Nat /\ e >= 2
            BY <1>2, <3>1, ChainFacts
        <3> QED
            BY <3>2 DEF Root
    <2>7. /\ pc' = "load" /\ UNCHANGED <<k, skip>>
          /\ dir' = [dir EXCEPT !.pos = SetCluster(IF e <= 2 THEN Root ELSE e)]
        BY <1>14 DEF DirOpened, search
    <2>8. dir'.size = 0 /\ dir'.pos = SetCluster(e)
        <3>1. dir \in Directories /\ dir.size = 0
            BY <2>1 DEF IInv, TypeOK, RecordInv
        <3> DEFINE p == SetCluster(e)
        <3>2. dir' = [dir EXCEPT !.pos = p]
            BY <2>6, <2>7
        <3> HIDE DEF p
        <3> QED
            BY <3>1, <3>2 DEF Directories, p
    <2>9. InDir(k - 1)' /\ Cur' = e /\ skip' = FALSE
        <3>1. InDir(k - 1)' <=> InDir(k - 1)
            BY <1>1, <2>7 DEF InDir
        <3>2. Cur' = Cur
            BY <1>1, <2>7 DEF Cur
        <3> QED
            BY <1>11, <2>1, <2>4, <2>5, <2>7, <3>1, <3>2
    <2> HIDE DEF e
    <2> QED
        BY <1>1, <1>2, <2>7, <2>8, <2>9, BeginsToScan
<1>15. CASE NoDir
    <2>1. /\ pc = "decode" /\ why = "dir" /\ Current.k \in {"file", "end", "hidden"} /\ Reading
          /\ pc' = "idle" /\ ret' = "F6"
        BY <1>15 DEF NoDir, Decoded, Reading, Return
    <2>2. PICK c, m :
            /\ c \in DOMAIN vol.dirs /\ m \in Entries(Recs(vol, c))
            /\ c = Lookup(vol, path)[k - 2].cluster
            /\ IsFirst(vol, c, path[k - 1], m) /\ ReadingOf(vol, c, m)
        BY <1>11, <2>1
    <2>3. Current = Recs(vol, c)[m] /\ Current.k = "file"
        BY <1>2, <2>1, <2>2, DecodedEntry
    <2>4. Lookup(vol, path)[k - 1] = [res |-> Current.k, cluster |-> Current.cluster]
        BY <1>2, <1>7, <1>11, <2>1, <2>2, <2>3, LookupFound
    <2>5. Outcome.res = "F6"
        BY <1>7, <2>3, <2>4, LookupFile DEF Outcome
    <2> QED
        BY <1>10, <2>1, <2>5 DEF Result
<1>16. CASE FileOpened \/ NoFile
    <2>1. /\ pc = "decode" /\ why = "file" /\ Current.k # "lfn" /\ Reading /\ pc' = "idle"
          /\ \/ /\ Current.k \in {"file", "end", "hidden"} /\ ret' = "ok"
                /\ opened' = IF Current.k = "file" THEN Current.cluster ELSE 0
             \/ Current.k = "dir" /\ ret' = "F5"
        BY <1>16 DEF FileOpened, NoFile, Decoded, Reading, Return
    <2>2. PICK c, m :
            /\ c \in DOMAIN vol.dirs /\ m \in Entries(Recs(vol, c))
            /\ c = Lookup(vol, path)[k - 1].cluster
            /\ IsFirst(vol, c, path[k], m) /\ ReadingOf(vol, c, m)
        BY <1>12, <2>1
    <2>3. Current = Recs(vol, c)[m] /\ Current.k \in {"file", "dir"}
        BY <1>2, <2>1, <2>2, DecodedEntry
    <2>4. Lookup(vol, path)[k] = [res |-> Current.k, cluster |-> Current.cluster]
        BY <1>2, <1>7, <1>12, <2>1, <2>2, <2>3, LookupFound
    <2>5. Outcome = [res |-> Current.k, cluster |-> Current.cluster]
        BY <1>12, <2>1, <2>4 DEF Outcome
    <2> QED
        BY <1>10, <2>1, <2>3, <2>5 DEF Result
<1>17. CASE TryEntry
    <2>1. /\ pc = "try" /\ i < dir.size /\ why' = "match" /\ pc' = "openrec"
          /\ UNCHANGED <<k, hdr_idx, dir, recordTable, i>>
        BY <1>17 DEF TryEntry, search, table
    <2>2. PICK c \in DOMAIN vol.dirs :
            /\ c = Cur /\ InDir(k - 1)
            /\ Lists(vol, c, Entries(Recs(vol, c)), dir.size, recordTable)
            /\ \A m \in Entries(Recs(vol, c)) :
                Rank(Recs(vol, c), m) < i => NameOf(Recs(vol, c), m) # path[k]
        BY <1>13, <2>1 DEF Trying
    <2>3. i \in 0 .. dir.size - 1
        BY <2>1, Sizes DEF IInv, TypeOK, Directories
    <2>4. PICK m \in Entries(Recs(vol, c)) : Rank(Recs(vol, c), m) = i /\ At(vol, c, m, recordTable[i])
        BY <2>2, <2>3 DEF Lists
    <2>5. Wanted' = recordTable[i]
        BY <2>1 DEF Wanted
    <2>6. ReadingOf(vol, c, m)'
        BY <1>1, <2>1, <2>4, <2>5 DEF ReadingOf
    <2>7. InDir(k - 1)' /\ Cur' = c
        <3>1. InDir(k - 1)' <=> InDir(k - 1)
            BY <1>1, <2>1 DEF InDir
        <3>2. Cur' = Cur
            BY <1>1, <2>1 DEF Cur
        <3> QED
            BY <2>2, <3>1, <3>2
    <2>8. TryInv'
        BY <1>1, <2>1, <2>2, <2>4, <2>6, <2>7 DEF TryInv
    <2>9. ScanInv' /\ OpenInv' /\ FindsTheFile'
        BY <2>1 DEF ScanInv, OpenInv, FindsTheFile, Scanning
    <2> QED
        BY <2>8, <2>9
<1>18. CASE NotFound
    <2>1. /\ pc = "try" /\ i = dir.size /\ pc' = "idle"
          /\ ret' = IF k = Len(path) THEN "F0" ELSE "F7"
        BY <1>18 DEF NotFound, Return
    <2>2. PICK c \in DOMAIN vol.dirs :
            /\ c = Lookup(vol, path)[k - 1].cluster /\ InDir(k - 1)
            /\ Lists(vol, c, Entries(Recs(vol, c)), dir.size, recordTable)
            /\ \A m \in Entries(Recs(vol, c)) :
                Rank(Recs(vol, c), m) < i => NameOf(Recs(vol, c), m) # path[k]
        BY <1>13, <2>1 DEF Trying
    <2>3. \A m \in Entries(Recs(vol, c)) : NameOf(Recs(vol, c), m) # path[k]
        BY <2>1, <2>2 DEF Lists
    <2>4. Named(Recs(vol, c), path[k]) = {}
        BY <2>3, Zenon DEF Named
    <2>5. Outcome.res = IF k = Len(path) THEN "F0" ELSE "F7"
        BY <1>2, <1>7, <2>2, <2>4, LookupNone DEF Outcome
    <2> QED
        BY <1>10, <2>1, <2>5 DEF Result
<1>19. CASE NextEntry
    <2>1. /\ pc = "decode" /\ why = "match" /\ Current.k # "lfn" /\ ~Matches /\ Reading
          /\ i' = i + 1 /\ pc' = "try" /\ UNCHANGED <<k, dir, recordTable>>
        BY <1>19 DEF NextEntry, Decoded, AfterEntry, search, table, Reading
    <2>2. PICK c \in DOMAIN vol.dirs :
            /\ c = Cur /\ InDir(k - 1)
            /\ Lists(vol, c, Entries(Recs(vol, c)), dir.size, recordTable)
            /\ \A m \in Entries(Recs(vol, c)) :
                Rank(Recs(vol, c), m) < i => NameOf(Recs(vol, c), m) # path[k]
            /\ \E m \in Entries(Recs(vol, c)) :
                Rank(Recs(vol, c), m) = i /\ ReadingOf(vol, c, m)
        BY <1>13, <2>1 DEF Trying
    <2>3. PICK m \in Entries(Recs(vol, c)) : Rank(Recs(vol, c), m) = i /\ ReadingOf(vol, c, m)
        BY <2>2
    <2>4. NameOf(Recs(vol, c), m) # path[k]
        BY <1>2, <2>1, <2>3, DecodedEntry DEF Matches
    <2>5. ASSUME NEW n \in Entries(Recs(vol, c)), Rank(Recs(vol, c), n) < i + 1
          PROVE  NameOf(Recs(vol, c), n) # path[k]
        <3>1. Rank(Recs(vol, c), n) < i \/ n = m
            BY <1>9, <2>3, <2>5, SameRank
        <3> QED
            BY <2>2, <2>4, <3>1
    <2>6. InDir(k - 1)' /\ Cur' = c
        <3>1. InDir(k - 1)' <=> InDir(k - 1)
            BY <1>1, <2>1 DEF InDir
        <3>2. Cur' = Cur
            BY <1>1, <2>1 DEF Cur
        <3> QED
            BY <2>2, <3>1, <3>2
    <2>7. ~Reading' /\ ~Scanning' /\ pc' # "idle"
        BY <2>1 DEF Reading, Scanning
    <2>8. TryInv'
        BY <1>1, <2>1, <2>2, <2>5, <2>6, <2>7 DEF TryInv
    <2>9. ScanInv' /\ OpenInv' /\ FindsTheFile'
        BY <2>7 DEF ScanInv, OpenInv, FindsTheFile
    <2> QED
        BY <2>8, <2>9
<1>20. CASE Found
    <2>1. pc = "decode" /\ why = "match" /\ Current.k # "lfn" /\ Matches /\ Reading
        BY <1>20 DEF Found, Decoded, Reading
    <2>2. PICK c \in DOMAIN vol.dirs :
            /\ c = Cur /\ c = Lookup(vol, path)[k - 1].cluster /\ InDir(k - 1)
            /\ \A m \in Entries(Recs(vol, c)) :
                Rank(Recs(vol, c), m) < i => NameOf(Recs(vol, c), m) # path[k]
            /\ \E m \in Entries(Recs(vol, c)) :
                Rank(Recs(vol, c), m) = i /\ ReadingOf(vol, c, m)
        BY <1>13, <2>1 DEF Trying
    <2>3. PICK m \in Entries(Recs(vol, c)) : Rank(Recs(vol, c), m) = i /\ ReadingOf(vol, c, m)
        BY <2>2
    <2>4. NameOf(Recs(vol, c), m) = path[k] /\ At(vol, c, m, Wanted) /\ Wanted > 2
        BY <1>2, <2>1, <2>3, DecodedEntry DEF Matches
    <2>5. IsFirst(vol, c, path[k], m)
        <3>1. ASSUME NEW n \in Named(Recs(vol, c), path[k]) PROVE m <= n
            <4>1. n \in Entries(Recs(vol, c)) /\ NameOf(Recs(vol, c), n) = path[k]
                BY DEF Named
            <4>2. ~(Rank(Recs(vol, c), n) < i)
                BY <2>2, <4>1
            <4>3. m \in Nat /\ n \in Nat /\ ~(n < m)
                BY <1>9, <2>3, <4>1, <4>2, SameRank
            <4> QED
                BY <4>3
        <3> QED
            BY <2>4, <3>1 DEF IsFirst, Named
    <2>6. CASE k = Len(path)
        <3>1. /\ hdr_idx' = Wanted /\ why' = "file" /\ pc' = "openrec" /\ UNCHANGED k
            BY <1>20, <2>6 DEF Found
        <3>2. Wanted' = Wanted
            <4>1. Wanted' = hdr_idx'
                BY <3>1 DEF Wanted
            <4> QED
                BY <3>1, <4>1
        <3>3. ReadingOf(vol, c, m)'
            BY <1>1, <2>4, <3>1, <3>2 DEF ReadingOf
        <3>4. InDir(k - 1)' /\ Cur' = c
            <4>1. InDir(k - 1)' <=> InDir(k - 1)
                BY <1>1, <3>1 DEF InDir
            <4>2. Cur' = Cur
                BY <1>1, <3>1 DEF Cur
            <4> QED
                BY <2>2, <4>1, <4>2
        <3>5. OpenInv'
            BY <1>1, <2>5, <2>6, <3>1, <3>3, <3>4 DEF OpenInv
        <3>6. ~Scanning' /\ ~Trying' /\ pc' # "idle"
            BY <3>1 DEF Scanning, Trying
        <3> QED
            BY <3>5, <3>6 DEF ScanInv, TryInv, FindsTheFile
    <2>7. CASE k # Len(path)
        <3>1. k' = k + 1 /\ OpenDir(Wanted)
            BY <1>20, <2>7 DEF Found
        <3>2. /\ hdr_idx' = Wanted /\ why' = "dir" /\ pc' = "openrec" /\ skip' = FALSE
            BY <2>4, <3>1 DEF OpenDir
        <3>3. Wanted' = Wanted
            <4>1. Wanted' = hdr_idx'
                BY <3>2 DEF Wanted
            <4> QED
                BY <3>2, <4>1
        <3>4. ReadingOf(vol, c, m)'
            BY <1>1, <2>4, <3>2, <3>3 DEF ReadingOf
        <3>5. (k - 2)' = k - 1 /\ (k - 1)' = k /\ k' > 1
            BY <1>7, <3>1
        <3>6. InDir(k - 2)'
            BY <1>1, <2>2, <3>5 DEF InDir
        <3>7. Lookup(vol, path)'[(k - 2)'].cluster = c
            BY <1>8, <2>2, <3>5
        <3>8. IsFirst(vol, c, path'[(k - 1)'], m)
            BY <1>1, <2>5, <3>5
        <3>9. OpenInv'
            BY <1>1, <3>2, <3>4, <3>5, <3>6, <3>7, <3>8 DEF OpenInv
        <3>10. ~Scanning' /\ ~Trying' /\ pc' # "idle"
            BY <3>2 DEF Scanning, Trying
        <3> QED
            BY <3>9, <3>10 DEF ScanInv, TryInv, FindsTheFile
    <2> QED
        BY <2>6, <2>7
<1> QED
    BY <1>14, <1>15, <1>16, <1>17, <1>18, <1>19, <1>20 DEF Search

LEMMA FindInitial == Init => FindInv
<1> SUFFICES ASSUME Init PROVE FindInv
    OBVIOUS
<1>1. pc = "mount" /\ ret = "none" /\ data_entry = 0
    BY DEF Init
<1>2. ~Scanning /\ ~Trying /\ ~Reading
    BY <1>1 DEF Scanning, Trying, Reading
<1> QED
    BY <1>1, <1>2 DEF FindInv, ScanInv, TryInv, OpenInv, FindsTheFile

LEMMA FindStutter == IInv /\ FindInv /\ UNCHANGED vars => FindInv'
<1> SUFFICES ASSUME FindInv, UNCHANGED vars PROVE FindInv'
    OBVIOUS
<1>1. UNCHANGED <<vol, data_entry, path, k, hdr_idx, dir, skip, recordTable, i, rec, why, name,
                  data_sec_idx, data, pc, ret, opened, broken>>
    BY DEF vars, volume, search, table, cache
<1>2. Lookup(vol, path)' = Lookup(vol, path) /\ Wanted' = Wanted /\ IsFat32' = IsFat32
    BY <1>1 DEF Wanted, IsFat32, HasPartition
<1>3. \A n : InDir(n)' <=> InDir(n)
    BY <1>1 DEF InDir
<1>4. Cur' = Cur /\ Result' = Result /\ Outcome' = Outcome
    BY <1>1 DEF Cur, Result, Outcome
<1>5. \A v, c, m : ReadingOf(v, c, m)' <=> ReadingOf(v, c, m)
    BY <1>1, <1>2 DEF ReadingOf
<1>6. InDir(k - 1)' = InDir(k - 1) /\ InDir(k - 2)' = InDir(k - 2)
    BY <1>1 DEF InDir
<1>7. (Scanning' <=> Scanning) /\ (Trying' <=> Trying) /\ (Reading' <=> Reading) /\ (Mounting' <=> Mounting)
    BY <1>1 DEF Scanning, Trying, Reading, Mounting
<1>8. FindsTheFile' <=> FindsTheFile
    BY <1>1, <1>2, <1>4 DEF FindsTheFile
<1>9. ScanInv' <=> ScanInv
    BY <1>1, <1>4, <1>6, <1>7 DEF ScanInv
<1>10. TryInv' <=> TryInv
    BY <1>1, <1>4, <1>5, <1>6, <1>7 DEF TryInv
<1>11. OpenInv' <=> OpenInv
    BY <1>1, <1>2, <1>4, <1>5, <1>6, <1>7 DEF OpenInv
<1> QED
    BY <1>1, <1>2, <1>7, <1>8, <1>9, <1>10, <1>11 DEF FindInv

\* As long as the card has not failed, fatOpenFileByName opens the file its path
\* names, or returns the error for what there is instead: of every volume, of
\* clusters, sectors and a table of any size.
THEOREM FileFound == Spec => []FindsTheFile
<1>1. IInv /\ FindInv /\ [Next]_vars => FindInv'
    BY FindStutter, FindMount, FindCall, FindScan, FindRead, FindSearch DEF Next, Work
<1>2. FindInv => FindsTheFile
    BY DEF FindInv
<1> QED
    BY <1>1, <1>2, Initial, FindInitial, Inductive, PTL DEF Spec
=============================================================================
